------------------------------- MODULE Marketplace -------------------------------
(***************************************************************************)
(* The installer of the marketplace: the file that records what is         *)
(* installed, the directory of each item, and the plugins each worker      *)
(* process has in its memory. A handler reads the file once and writes its *)
(* copy back after every package, without a lock; each write empties the   *)
(* file before it fills it. Installing a package may fail (a plugin that   *)
(* does not load, a full disk), and so may the write of the record after   *)
(* it, which nothing undoes.                                               *)
(***************************************************************************)
EXTENDS Packages

CONSTANTS
    Plugins,
    Flags       \* what a request accepts: licenses, an unverified item

VARIABLES
    records,    \* installed.json: the version of each item, 0 for none
    torn,       \* installed.json is empty, or cut short
    files,      \* installed/: the version whose files an item's directory holds
    live,       \* the plugin registry of each process: whose plugin it holds
    lost,       \* history: the items whose record a failure kept from the file
    stranded    \* history: the plugins of each process that a later version of
                \* their item did not replace

installerVars == <<records, torn, files, live, lost, stranded>>
marketplaceVars == <<catalog, installerVars>>

\* _load: a file that cannot be parsed is taken for an empty one.
Loaded == IF torn THEN [i \in Items |-> 0] ELSE records

PluginOf(p) == catalog[p.item][p.version].plugin

Registers(proc, g, p) ==
    live' = IF g = None THEN live ELSE [live EXCEPT ![proc][g] = p]

\* What the item had registered under another name stays.
Strands(proc, p) ==
    stranded' = [stranded EXCEPT ![proc] =
        (@ \ {PluginOf(p)}) \cup
        {g \in Plugins : g # PluginOf(p) /\ live[proc][g] # None /\ live[proc][g].item = p.item}]

\* The items a request has changed and the file does not tell of; a directory
\* that is being written may hold a part of the files.
Unrecorded(s) ==
    {i \in Items : s.book[i] # Loaded[i]} \cup
    {i \in Items : s.op = "write" /\ i = Head(s.todo).item}

(***************************************************************************)
(* install.                                                                *)
(***************************************************************************)
\* pending and applied are those of an automatic update.
Asks(p, flags, pending, applied) ==
    [op |-> "collect", root |-> p, wants |-> Demanded(NoDemands, p.item, {p.version}),
     path |-> <<Call(p)>>, flags |-> flags, pending |-> pending, applied |-> applied]

\* None of several updates is pending behind a request for one item.
Alone == {None}

\* Without a version the newest is meant; an update asks for that one too.
Install(r, p, flags) ==
    /\ Starts(r, "packages", Asks(p, flags, Alone, {}))
    /\ UNCHANGED marketplaceVars

\* A package of the chain passes; only the item that was asked for itself may
\* be unverified.
Passes(s, p) ==
    LET entry == catalog[p.item][p.version] IN
    /\ entry.verified \/ (s.flags.unverified /\ p.item = s.root.item)
    /\ entry.compatible
    /\ entry.licensed => s.flags.license

Admitted(s) == s.chain # <<>> /\ \A p \in Range(s.chain) : Passes(s, p)

\* The next of several updates, or the answer.
Ends(r, s, applied) ==
    IF s.pending = Alone THEN Answers(r)
    ELSE Continues(r, [op |-> "updates", flags |-> s.flags, pending |-> s.pending,
                       applied |-> applied])

Gate(r) ==
    LET s == serving[r] IN
    /\ s.op = "gate"
    /\ IF Admitted(s)
       THEN Continues(r, [op |-> "install", root |-> s.root, todo |-> s.chain,
                          book |-> Loaded, flags |-> s.flags, pending |-> s.pending,
                          applied |-> s.applied])
       ELSE Ends(r, s, s.applied)
    /\ UNCHANGED marketplaceVars

\* Faulty: any version of it will do.
OnRecordAtAll(book, p) == book[p.item] # 0

OnRecord(book, p) == book[p.item] = p.version

\* What is recorded at its version already is skipped.
Skip(r) ==
    LET s == serving[r] IN
    /\ s.op = "install"
    /\ s.todo # <<>>
    /\ OnRecord(s.book, Head(s.todo))
    /\ Continues(r, [s EXCEPT !.todo = Tail(@)])
    /\ UNCHANGED marketplaceVars

\* _materialize: the directory is cleared, then written, then the plugin loaded.
Clear(r) ==
    LET s == serving[r] IN
    /\ s.op = "install"
    /\ s.todo # <<>>
    /\ ~OnRecord(s.book, Head(s.todo))
    /\ files' = [files EXCEPT ![Head(s.todo).item] = 0]
    /\ Continues(r, [s EXCEPT !.op = "write"])
    /\ UNCHANGED <<catalog, records, torn, live, lost, stranded>>

Write(r) ==
    LET s == serving[r]
        p == Head(s.todo) IN
    /\ s.op = "write"
    /\ files' = [files EXCEPT ![p.item] = p.version]
    /\ Registers(process[r], PluginOf(p), p)
    /\ Strands(process[r], p)
    /\ lost' = lost \ {p.item}
    /\ Continues(r, [s EXCEPT !.op = "save", !.todo = Tail(@), !.book[p.item] = p.version])
    /\ UNCHANGED <<catalog, records, torn>>

\* Faulty: what was written before the failure stays.
BreakLeavingFiles(r) ==
    LET s == serving[r] IN
    /\ s.op = "write"
    /\ files' = [files EXCEPT ![Head(s.todo).item] = Head(s.todo).version]
    /\ Answers(r)
    /\ UNCHANGED <<catalog, records, torn, live, lost, stranded>>

\* The directory is removed, and the request fails; but an automatic update goes
\* on after a file that would leave the directory.
Break(r) ==
    LET s == serving[r] IN
    /\ s.op = "write"
    /\ Answers(r) \/ Ends(r, s, s.applied)
    /\ UNCHANGED marketplaceVars

\* _save.
Empty(r) ==
    LET s == serving[r] IN
    /\ s.op = "save"
    /\ torn' = TRUE
    /\ Continues(r, [s EXCEPT !.op = "fill"])
    /\ UNCHANGED <<catalog, records, files, live, lost, stranded>>

Fill(r) ==
    LET s == serving[r] IN
    /\ s.op = "fill"
    /\ torn' = FALSE
    /\ records' = s.book
    /\ Continues(r, [s EXCEPT !.op = "install"])
    /\ UNCHANGED <<catalog, files, live, lost, stranded>>

\* The file does not open, or is cut short: the request fails, several updates
\* with it. What it has installed or removed stays so.
SaveFails(r) ==
    LET s == serving[r] IN
    /\ s.op \in {"save", "fill"}
    /\ lost' = lost \cup Unrecorded(s)
    /\ Answers(r)
    /\ UNCHANGED <<catalog, records, torn, files, live, stranded>>

Finish(r) ==
    LET s == serving[r] IN
    /\ s.op = "install"
    /\ s.todo = <<>>
    /\ Ends(r, s, s.applied \cup {s.root})
    /\ UNCHANGED marketplaceVars

(***************************************************************************)
(* uninstall: the plugin leaves the memory of this process, the directory  *)
(* is removed, the record is dropped.                                      *)
(***************************************************************************)
\* Faulty: the plugin stays in memory.
UnregistersNever(proc, g) == UNCHANGED live

Unregisters(proc, g) == Registers(proc, g, None)

Uninstall(r, i) ==
    LET p == Package(i, Loaded[i]) IN
    /\ Loaded[i] # 0
    /\ Unregisters(process[r], PluginOf(p))
    /\ Starts(r, "packages",
              [op |-> "remove", root |-> p, todo |-> <<>>, book |-> [Loaded EXCEPT ![i] = 0],
               pending |-> Alone, applied |-> {}])
    /\ UNCHANGED <<catalog, records, torn, files, lost, stranded>>

Delete(r) ==
    LET s == serving[r] IN
    /\ s.op = "remove"
    /\ files' = [files EXCEPT ![s.root.item] = 0]
    /\ Continues(r, [s EXCEPT !.op = "save"])
    /\ UNCHANGED <<catalog, records, torn, live, lost, stranded>>

(***************************************************************************)
(* auto_update with the policy "latest": what is behind when the request   *)
(* comes, one item after the other, each an install of its newest version. *)
(* The code takes them in the order they came on record; here it is any.   *)
(***************************************************************************)
AutoUpdate(r, flags) ==
    /\ Starts(r, "packages",
              [op |-> "updates", flags |-> flags, applied |-> {},
               pending |-> {i \in DOMAIN catalog :
                              Loaded[i] # 0 /\ Loaded[i] < Latest(i).version}])
    /\ UNCHANGED marketplaceVars

\* update: an item that is not installed any more is skipped.
UpdateNext(r) ==
    LET s == serving[r] IN
    /\ s.op = "updates"
    /\ \E i \in s.pending :
         Continues(r, IF Loaded[i] = 0 THEN [s EXCEPT !.pending = @ \ {i}]
                      ELSE Asks(Latest(i), s.flags, s.pending \ {i}, s.applied))
    /\ UNCHANGED marketplaceVars

Report(r) ==
    LET s == serving[r] IN
    /\ s.op = "updates"
    /\ s.pending = {}
    /\ Continues(r, [op |-> "updated", applied |-> s.applied])
    /\ UNCHANGED marketplaceVars

Answer(r) ==
    /\ serving[r].op = "updated"
    /\ Answers(r)
    /\ UNCHANGED marketplaceVars

MarketplaceStep(r) ==
    \/ \E p \in Published, flags \in Flags : Install(r, p, flags)
    \/ \E i \in DOMAIN catalog : Uninstall(r, i)
    \/ \E flags \in Flags : AutoUpdate(r, [flags EXCEPT !.unverified = FALSE])
    \/ ResolveStep(r) /\ UNCHANGED installerVars
    \/ Gate(r)
    \/ Skip(r)
    \/ Clear(r)
    \/ Write(r)
    \/ Break(r)
    \/ Empty(r)
    \/ Fill(r)
    \/ SaveFails(r)
    \/ Finish(r)
    \/ Delete(r)
    \/ UpdateNext(r)
    \/ Report(r)
    \/ Answer(r)

\* The plugins in the memory of the process are gone.
Forgets(p) ==
    /\ live' = [live EXCEPT ![p] = [g \in Plugins |-> None]]
    /\ stranded' = [stranded EXCEPT ![p] = {}]
    /\ lost' = lost \cup UNION {Unrecorded(serving[r]) : r \in
                  {q \in Requests : /\ process[q] = p
                                   /\ serving[q].op \in {"write", "save", "fill", "remove"}}}
    /\ UNCHANGED <<catalog, records, torn, files>>

NothingInstalled ==
    /\ records = [i \in Items |-> 0]
    /\ torn = FALSE
    /\ files = [i \in Items |-> 0]
    /\ live = [proc \in Processes |-> [g \in Plugins |-> None]]
    /\ lost = {}
    /\ stranded = [proc \in Processes |-> {}]
=============================================================================
