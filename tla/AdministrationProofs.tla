-------------------------- MODULE AdministrationProofs --------------------------
(***************************************************************************)
(* What the accounts and the marketplace of an instance keep, for any      *)
(* number of requests, worker processes, accounts and packages, whenever a *)
(* process dies. Every section is an invariant and what rests on it.       *)
(*                                                                         *)
(* Accounts: a session that is open under an old password or a lifted      *)
(* block is one a request is still about to revoke, and the link in hand   *)
(* of every request that changes a password was the newest when taken.     *)
(*                                                                         *)
(* resolve: the calls that have not returned form a path whose items       *)
(* differ, each the dependency of the one before; a dependency of a choice *)
(* is met by the demands so far or is still ahead of a call. Beside it, a  *)
(* set of packages that would do admits every demand, so the newest of     *)
(* them is never excluded. visit keeps that, and its order grows by items  *)
(* whose dependencies are in it.                                           *)
(*                                                                         *)
(* install: one process serves the marketplace and so one request of it at *)
(* a time (StoreInv); its book is what the file holds, and a package is    *)
(* put in it after those it depends on. KeptInv relates the file, the      *)
(* directories and the plugins in memory at every step between.            *)
(***************************************************************************)
EXTENDS Administration, SumTheorems, SequenceTheorems, TLAPS

-----------------------------------------------------------------------------
(***************************************************************************)
(* What a request is about to do.                                          *)
(***************************************************************************)

SignInOps == {"open", "burn", "revoke"}

\* A request of which a sign-in file waits says whose account it is about.
Requested(s) ==
    /\ "op" \in DOMAIN s
    /\ s.op \in SignInOps => s.user \in Users
    /\ s.op = "open" => s.proved \in Nat

ServingForm ==
    /\ serving = [r \in Requests |-> serving[r]]
    /\ \A r \in Requests : Requested(serving[r])

\* Requests that one handler serves: what it does with its own.
Turn(r) ==
    /\ serving' = [serving EXCEPT ![r] = serving'[r]]
    /\ \A q \in Requests \ {r} : serving'[q] = serving[q]
    /\ UNCHANGED process

LEMMA Turns ==
    ASSUME NEW r \in Requests, ServingForm, NEW request,
           Continues(r, request) \/ \E desk : Starts(r, desk, request)
    PROVE  Turn(r) /\ serving'[r] = request
  BY DEF Continues, Starts, Turn, ServingForm

LEMMA FormKept ==
    ASSUME NEW r \in Requests, ServingForm, Turn(r), Requested(serving'[r])
    PROVE  ServingForm'
  BY DEF ServingForm, Turn, Requested

LEMMA IdleBefore ==
    ASSUME NEW r \in Requests, NEW desk, NEW request, Starts(r, desk, request)
    PROVE  serving[r] = Idle
  BY DEF Starts, MayStart

-----------------------------------------------------------------------------
(***************************************************************************)
(* The accounts.                                                           *)
(***************************************************************************)

Standings == [password : Nat, blocks : Nat, removals : Nat]
OpenSessions == [user : Users, proved : Nat, under : Standings]

AccountsTyped ==
    /\ standing \in [Users -> Standings]
    /\ sessions \in [Tokens -> OpenSessions \cup {NoSession}]
    /\ links \in [Links -> Users \cup {NoLink}]

\* handed and resets are sequences; a link changes passwords only once it was
\* handed out.
LinksTyped ==
    /\ handed \in Seq([user : Users, link : Links])
    /\ resets \in Seq(Links)
    /\ \A l \in Range(resets) : ~Unused(l)

\* The i-th link that was handed out is the latest of its account.
LatestHanded(i) == \A j \in DOMAIN handed : j > i => handed[j].user # handed[i].user

\* The links of the account are being ended, or a process died at that.
Ending(u) ==
    \/ u \in interrupted
    \/ \E r \in Requests : serving[r].op = "burn" /\ serving[r].user = u

\* A link that works is the latest of its account; one that changed a password
\* works while the request that used it is to end it, or a process died at that.
LinksHeld ==
    \A l \in Links :
       links[l] # NoLink =>
         /\ \E i \in DOMAIN handed :
               /\ handed[i].link = l
               /\ handed[i].user = links[l]
               /\ LatestHanded(i)
         /\ l \in Range(resets) => Ending(links[l])

AccountsInv == ServingForm /\ AccountsTyped /\ RevokedStay /\ LinksTyped /\ LinksHeld

LEMMA SessionsTell ==
    ASSUME AccountsTyped, NEW t \in Tokens, sessions[t] # NoSession
    PROVE  /\ sessions[t] \in OpenSessions
           /\ sessions[t].user \in Users
           /\ standing[sessions[t].user] \in Standings
  BY DEF AccountsTyped, OpenSessions

LEMMA LinksTell ==
    ASSUME AccountsTyped, NEW l \in Links, links[l] # NoLink
    PROVE  links[l] \in Users
  BY DEF AccountsTyped

LEMMA Nobody == "nobody" \notin Users
  BY SignInsAssumption

\* What keeps the sessions: those there are are old ones, and whatever changed
\* for an account, it is being signed out of all of them.
LEMMA SessionsStand ==
    ASSUME AccountsTyped, RevokedStay,
           sessions' \in [Tokens -> OpenSessions \cup {NoSession}],
           \A t \in Tokens :
              sessions'[t] # NoSession =>
                \/ sessions'[t] = sessions[t]
                \/ sessions'[t].under = standing[sessions'[t].user] /\ UNCHANGED standing,
           \A u \in Users :
              Revoking(u) /\ ~Revoking(u)' =>
                 \A t \in Tokens : sessions'[t] # NoSession => sessions'[t].user # u,
           \A u \in Users :
              Revoking(u)' \/ /\ standing'[u].password = standing[u].password
                              /\ standing'[u].blocks = standing[u].blocks
    PROVE  RevokedStay'
<1>1. ASSUME NEW t \in Tokens, NEW u \in Users, sessions'[t] # NoSession,
             sessions'[t].user = u, ~Revoking(u)'
      PROVE  /\ sessions'[t].under.password = standing'[u].password
             /\ sessions'[t].under.blocks = standing'[u].blocks
  <2>1. ~Revoking(u)
    BY <1>1
  <2>2. /\ standing'[u].password = standing[u].password
        /\ standing'[u].blocks = standing[u].blocks
    BY <1>1
  <2>3. CASE sessions'[t] = sessions[t]
    BY <1>1, <2>1, <2>2, <2>3 DEF RevokedStay
  <2>4. CASE sessions'[t].under = standing[sessions'[t].user] /\ UNCHANGED standing
    BY <1>1, <2>4
  <2>. QED  BY <1>1, <2>3, <2>4
<1>2. \A t \in Tokens : sessions'[t] # NoSession => sessions'[t].user \in Users
  BY DEF OpenSessions
<1>. QED  BY <1>1, <1>2 DEF RevokedStay, Revoking

\* What keeps the links: those there are are old ones, and where a request to
\* end them is over, there are none.
LEMMA LinksStand ==
    ASSUME AccountsTyped, LinksTyped, LinksHeld, UNCHANGED <<handed, resets>>,
           \A l \in Links : links'[l] \in {NoLink, links[l]},
           \A u \in Users :
              Ending(u) /\ ~Ending(u)' => \A l \in Links : links'[l] # u
    PROVE  LinksTyped' /\ LinksHeld'
<1>1. LinksTyped'
  BY DEF LinksTyped, Unused
<1>2. ASSUME NEW l \in Links, NEW u \in Users, links'[l] = u, u # NoLink
      PROVE  /\ \E i \in DOMAIN handed :
                    handed[i].link = l /\ handed[i].user = u /\ LatestHanded(i)
             /\ l \in Range(resets) => Ending(u)'
  <2>1. links[l] = u
    BY <1>2
  <2>. QED  BY <1>2, <2>1 DEF LinksHeld
<1>3. \A l \in Links : links'[l] # NoLink => links'[l] \in Users
  BY LinksTell
<1>4. ASSUME NEW l \in Links, links'[l] # NoLink
      PROVE  /\ \E i \in DOMAIN handed' :
                    handed'[i].link = l /\ handed'[i].user = links'[l] /\ LatestHanded(i)'
             /\ l \in Range(resets') => Ending(links[l])'
  <2>1. PICK u \in Users : u = links'[l]
    BY <1>3, <1>4
  <2>2. \A i \in DOMAIN handed : LatestHanded(i) <=> LatestHanded(i)'
    BY DEF LatestHanded
  <2>3. l \in Range(resets) => Ending(u)'
    BY <1>2, <1>4, <2>1
  <2>4. l \in Range(resets') => Ending(links[l])'
    BY <2>1, <2>3 DEF Ending
  <2>. QED  BY <1>2, <1>4, <2>1, <2>2, <2>4
<1>. QED  BY <1>1, <1>4 DEF LinksHeld

LEMMA LoginKeeps ==
    ASSUME AccountsInv, NEW r \in Requests, NEW u \in Users, Login(r, u)
    PROVE  AccountsInv' /\ UNCHANGED resets
<1>1. /\ Turn(r)
      /\ serving[r] = Idle
      /\ serving'[r] = [op |-> "open", user |-> u, proved |-> standing[u].password]
      /\ UNCHANGED signInsVars
  BY Turns, IdleBefore DEF Login, AccountsInv
<1>2. ServingForm'
  <2>1. standing[u].password \in Nat
    BY DEF AccountsInv, AccountsTyped, Standings
  <2>2. Requested(serving'[r])
    BY <1>1, <2>1 DEF Requested
  <2>. QED  BY <1>1, <2>2, FormKept DEF AccountsInv
<1>3. \A v \in Users : (Revoking(v)' <=> Revoking(v)) /\ (Ending(v)' <=> Ending(v))
  BY <1>1 DEF Revoking, Ending, Turn, Idle, signInsVars, history
<1>4. AccountsTyped'
  BY <1>1 DEF AccountsInv, AccountsTyped, signInsVars, accountFiles
<1>5. LinksTyped' /\ LinksHeld'
  BY <1>1, <1>3, LinksStand DEF AccountsInv, signInsVars, accountFiles, history
<1>6. RevokedStay'
  BY <1>1, <1>3, <1>4, SessionsStand DEF AccountsInv, AccountsTyped, signInsVars, accountFiles
<1>. QED  BY <1>1, <1>2, <1>4, <1>5, <1>6 DEF AccountsInv, signInsVars, history

LEMMA OpenSessionKeeps ==
    ASSUME AccountsInv, NEW r \in Requests, OpenSession(r)
    PROVE  AccountsInv' /\ UNCHANGED resets
<1>1. /\ Turn(r)
      /\ serving[r].op = "open"
      /\ serving'[r] = Idle
      /\ UNCHANGED <<standing, links, handed, resets, interrupted>>
  BY Turns DEF OpenSession, Answers, AccountsInv, history
<1>2. serving[r].user \in Users /\ serving[r].proved \in Nat
  BY <1>1 DEF AccountsInv, ServingForm, Requested, SignInOps
<1>3. PICK t \in Tokens :
        sessions' = [sessions EXCEPT ![t] = Session(serving[r].user, serving[r].proved)]
  BY DEF OpenSession
<1>4. Session(serving[r].user, serving[r].proved) \in OpenSessions
  BY <1>2 DEF Session, OpenSessions, AccountsInv, AccountsTyped
<1>5. ServingForm'
  BY <1>1, FormKept DEF AccountsInv, Requested, Idle, SignInOps
<1>6. \A v \in Users : (Revoking(v)' <=> Revoking(v)) /\ (Ending(v)' <=> Ending(v))
  BY <1>1 DEF Revoking, Ending, Turn, Idle
<1>7. AccountsTyped'
  BY <1>1, <1>3, <1>4 DEF AccountsInv, AccountsTyped
<1>8. LinksTyped' /\ LinksHeld'
  BY <1>1, <1>6, LinksStand DEF AccountsInv
<1>9. \A k \in Tokens :
         sessions'[k] # NoSession =>
            \/ sessions'[k] = sessions[k]
            \/ sessions'[k].under = standing[sessions'[k].user] /\ UNCHANGED standing
  BY <1>1, <1>3 DEF Session, AccountsInv, AccountsTyped
<1>10. RevokedStay'
  BY <1>1, <1>6, <1>7, <1>9, SessionsStand DEF AccountsInv, AccountsTyped
<1>. QED  BY <1>1, <1>5, <1>7, <1>8, <1>10 DEF AccountsInv

\* A step that at most takes sessions and links away, while no request begins or
\* ends to sign out or to end links.
LEMMA FewerKeep ==
    ASSUME AccountsInv, ServingForm',
           UNCHANGED <<standing, handed, resets>>,
           \A u \in Users : (Revoking(u)' <=> Revoking(u)) /\ (Ending(u)' <=> Ending(u)),
           sessions' = [t \in Tokens |-> sessions'[t]],
           \A t \in Tokens : sessions'[t] \in {NoSession, sessions[t]},
           links' = [l \in Links |-> links'[l]],
           \A l \in Links : links'[l] \in {NoLink, links[l]}
    PROVE  AccountsInv'
<1>1. AccountsTyped'
  BY DEF AccountsInv, AccountsTyped
<1>2. LinksTyped' /\ LinksHeld'
  BY LinksStand DEF AccountsInv
<1>3. RevokedStay'
  BY <1>1, SessionsStand DEF AccountsInv, AccountsTyped
<1>. QED  BY <1>1, <1>2, <1>3 DEF AccountsInv

LEMMA LogoutKeeps ==
    ASSUME AccountsInv, NEW r \in Requests, NEW t \in Tokens, Logout(r, t)
    PROVE  AccountsInv' /\ UNCHANGED resets
<1>1. /\ Turn(r)
      /\ serving[r] = Idle
      /\ serving'[r] = Idle
      /\ sessions' = [sessions EXCEPT ![t] = NoSession]
      /\ UNCHANGED <<standing, links, handed, resets, interrupted>>
  BY Turns, IdleBefore DEF Logout, AccountsInv, history
<1>2. ServingForm'
  BY <1>1, FormKept DEF AccountsInv, Requested, Idle, SignInOps
<1>3. \A v \in Users : (Revoking(v)' <=> Revoking(v)) /\ (Ending(v)' <=> Ending(v))
  BY <1>1 DEF Revoking, Ending, Turn, Idle
<1>. QED  BY <1>1, <1>2, <1>3, FewerKeep DEF AccountsInv, AccountsTyped

LEMMA LapsesKeep ==
    ASSUME AccountsInv, Lapses
    PROVE  AccountsInv' /\ UNCHANGED resets
<1>1. /\ UNCHANGED <<serving, process, standing, handed, resets, interrupted>>
      /\ sessions' = [t \in Tokens |-> sessions'[t]]
      /\ \A t \in Tokens : sessions'[t] \in {NoSession, sessions[t]}
      /\ links' = [l \in Links |-> links'[l]]
      /\ \A l \in Links : links'[l] \in {NoLink, links[l]}
  <2>1. CASE \E t \in Tokens : SessionLapses(t)
    BY <2>1 DEF SessionLapses, history, AccountsInv, AccountsTyped
  <2>2. CASE \E l \in Links : LinkLapses(l)
    BY <2>2 DEF LinkLapses, history, AccountsInv, AccountsTyped
  <2>. QED  BY <2>1, <2>2 DEF Lapses
<1>2. ServingForm'
  BY <1>1 DEF AccountsInv, ServingForm, Requested
<1>3. \A v \in Users : (Revoking(v)' <=> Revoking(v)) /\ (Ending(v)' <=> Ending(v))
  BY <1>1 DEF Revoking, Ending
<1>. QED  BY <1>1, <1>2, <1>3, FewerKeep

LEMMA MembersKeep ==
    ASSUME AccountsInv, NEW r \in Requests, NEW u \in Users,
           Activate(r, u) \/ RemoveMember(r, u) \/ Readmit(r, u)
    PROVE  AccountsInv' /\ UNCHANGED resets
<1>1. /\ Turn(r)
      /\ serving[r] = Idle
      /\ serving'[r] = Idle
      /\ UNCHANGED <<sessions, links, handed, resets, interrupted>>
  BY Turns, IdleBefore DEF Activate, RemoveMember, Readmit, AccountsInv, history
<1>2. /\ standing' \in [Users -> Standings]
      /\ \A v \in Users : /\ standing'[v].password = standing[v].password
                          /\ standing'[v].blocks = standing[v].blocks
  <2>1. CASE UNCHANGED standing
    BY <2>1 DEF AccountsInv, AccountsTyped
  <2>2. CASE standing' = [standing EXCEPT ![u].removals = @ + 1]
    BY <2>2 DEF AccountsInv, AccountsTyped, Standings
  <2>. QED  BY <2>1, <2>2 DEF Activate, RemoveMember, Readmit
<1>3. ServingForm'
  BY <1>1, FormKept DEF AccountsInv, Requested, Idle, SignInOps
<1>4. \A v \in Users : (Revoking(v)' <=> Revoking(v)) /\ (Ending(v)' <=> Ending(v))
  BY <1>1 DEF Revoking, Ending, Turn, Idle
<1>5. AccountsTyped'
  BY <1>1, <1>2 DEF AccountsInv, AccountsTyped
<1>6. LinksTyped' /\ LinksHeld'
  BY <1>1, <1>4, LinksStand DEF AccountsInv
<1>7. RevokedStay'
  BY <1>1, <1>2, <1>4, <1>5, SessionsStand DEF AccountsInv, AccountsTyped
<1>. QED  BY <1>1, <1>3, <1>5, <1>6, <1>7 DEF AccountsInv

LEMMA DeactivateKeeps ==
    ASSUME AccountsInv, NEW r \in Requests, NEW u \in Users, Deactivate(r, u)
    PROVE  AccountsInv' /\ UNCHANGED resets
<1>1. /\ Turn(r)
      /\ serving[r] = Idle
      /\ serving'[r] = [op |-> "revoke", user |-> u]
      /\ standing' = [standing EXCEPT ![u].blocks = @ + 1]
      /\ UNCHANGED <<sessions, links, handed, resets, interrupted>>
  BY Turns, IdleBefore DEF Deactivate, AccountsInv, history
<1>2. /\ standing' \in [Users -> Standings]
      /\ \A v \in Users \ {u} : standing'[v] = standing[v]
  BY <1>1 DEF AccountsInv, AccountsTyped, Standings
<1>3. ServingForm'
  BY <1>1, FormKept DEF AccountsInv, Requested, SignInOps
<1>4. /\ Revoking(u)'
      /\ \A v \in Users : (Revoking(v) => Revoking(v)') /\ (Ending(v)' <=> Ending(v))
  BY <1>1 DEF Revoking, Ending, Turn, Idle
<1>5. AccountsTyped'
  BY <1>1, <1>2 DEF AccountsInv, AccountsTyped
<1>6. LinksTyped' /\ LinksHeld'
  BY <1>1, <1>4, LinksStand DEF AccountsInv
<1>7. RevokedStay'
  <2>1. \A v \in Users :
           Revoking(v)' \/ /\ standing'[v].password = standing[v].password
                           /\ standing'[v].blocks = standing[v].blocks
    BY <1>2, <1>4
  <2>2. sessions' \in [Tokens -> OpenSessions \cup {NoSession}]
    BY <1>1 DEF AccountsInv, AccountsTyped
  <2>. QED  BY <1>1, <1>4, <2>1, <2>2, SessionsStand DEF AccountsInv
<1>. QED  BY <1>1, <1>3, <1>5, <1>6, <1>7 DEF AccountsInv

LEMMA BurnKeeps ==
    ASSUME AccountsInv, NEW r \in Requests, Burn(r)
    PROVE  AccountsInv' /\ UNCHANGED resets
<1>1. PICK u \in Users : u = serving[r].user /\ serving[r].op = "burn"
  BY DEF Burn, AccountsInv, ServingForm, Requested, SignInOps
<1>2. /\ Turn(r)
      /\ serving'[r] = [op |-> "revoke", user |-> u]
      /\ links' = WithoutLinks(u)
      /\ UNCHANGED <<standing, sessions, handed, resets, interrupted>>
  BY <1>1, Turns DEF Burn, AccountsInv, history
<1>3. /\ links' \in [Links -> Users \cup {NoLink}]
      /\ \A l \in Links : links'[l] # u /\ links'[l] \in {NoLink, links[l]}
  BY <1>2, Nobody DEF WithoutLinks, AccountsInv, AccountsTyped, NoLink
<1>4. ServingForm'
  BY <1>2, FormKept DEF AccountsInv, Requested, SignInOps
<1>5. \A v \in Users : (Revoking(v)' <=> Revoking(v)) /\ (v # u => (Ending(v)' <=> Ending(v)))
  BY <1>1, <1>2 DEF Revoking, Ending, Turn
<1>6. AccountsTyped'
  BY <1>2, <1>3 DEF AccountsInv, AccountsTyped
<1>7. LinksTyped' /\ LinksHeld'
  BY <1>2, <1>3, <1>5, LinksStand DEF AccountsInv
<1>8. RevokedStay'
  BY <1>2, <1>5, <1>6, SessionsStand DEF AccountsInv, AccountsTyped
<1>. QED  BY <1>2, <1>4, <1>6, <1>7, <1>8 DEF AccountsInv

LEMMA RevokeKeeps ==
    ASSUME AccountsInv, NEW r \in Requests, Revoke(r)
    PROVE  AccountsInv' /\ UNCHANGED resets
<1>1. PICK u \in Users : u = serving[r].user /\ serving[r].op = "revoke"
  BY DEF Revoke, AccountsInv, ServingForm, Requested, SignInOps
<1>2. /\ Turn(r)
      /\ serving'[r] = Idle
      /\ sessions' = [t \in Tokens |-> IF sessions[t].user = u THEN NoSession ELSE sessions[t]]
      /\ UNCHANGED <<standing, links, handed, resets, interrupted>>
  BY <1>1, Turns DEF Revoke, Revokes, Answers, AccountsInv, history
<1>3. /\ sessions' \in [Tokens -> OpenSessions \cup {NoSession}]
      /\ \A t \in Tokens :
            sessions'[t] # NoSession => sessions'[t] = sessions[t] /\ sessions'[t].user # u
  BY <1>2 DEF AccountsInv, AccountsTyped
<1>4. ServingForm'
  BY <1>2, FormKept DEF AccountsInv, Requested, Idle, SignInOps
<1>5. \A v \in Users : (v # u => (Revoking(v)' <=> Revoking(v))) /\ (Ending(v)' <=> Ending(v))
  BY <1>1, <1>2 DEF Revoking, Ending, Turn, Idle
<1>6. AccountsTyped'
  BY <1>2, <1>3 DEF AccountsInv, AccountsTyped
<1>7. LinksTyped' /\ LinksHeld'
  BY <1>2, <1>5, LinksStand DEF AccountsInv
<1>8. RevokedStay'
  BY <1>2, <1>3, <1>5, SessionsStand DEF AccountsInv
<1>. QED  BY <1>2, <1>4, <1>6, <1>7, <1>8 DEF AccountsInv

LEMMA MintKeeps ==
    ASSUME AccountsInv, NEW r \in Requests, NEW u \in Users, NEW m \in Links, Mint(r, u, m)
    PROVE  AccountsInv' /\ UNCHANGED resets
<1>. DEFINE last == [user |-> u, link |-> m]
<1>1. /\ Turn(r)
      /\ serving[r] = Idle
      /\ serving'[r] = Idle
      /\ Unused(m)
      /\ handed' = Append(handed, last)
      /\ links' = [WithoutLinks(u) EXCEPT ![m] = u]
      /\ UNCHANGED <<standing, sessions, resets, interrupted>>
  BY Turns, IdleBefore DEF Mint, AccountsInv
<1>2. ServingForm'
  BY <1>1, FormKept DEF AccountsInv, Requested, Idle, SignInOps
<1>3. \A v \in Users : (Revoking(v)' <=> Revoking(v)) /\ (Ending(v)' <=> Ending(v))
  BY <1>1 DEF Revoking, Ending, Turn, Idle
<1>4. /\ links' \in [Links -> Users \cup {NoLink}]
      /\ links'[m] = u
      /\ \A l \in Links \ {m} : links'[l] # u /\ links'[l] \in {NoLink, links[l]}
  BY <1>1, Nobody DEF WithoutLinks, AccountsInv, AccountsTyped, NoLink
<1>5. AccountsTyped'
  BY <1>1, <1>4 DEF AccountsInv, AccountsTyped
<1>6. /\ handed' \in Seq([user : Users, link : Links])
      /\ Len(handed') = Len(handed) + 1
      /\ handed'[Len(handed) + 1] = last
      /\ \A i \in DOMAIN handed : handed'[i] = handed[i]
      /\ DOMAIN handed = 1 .. Len(handed)
      /\ DOMAIN handed' = 1 .. Len(handed) + 1
      /\ Len(handed) \in Nat
  BY <1>1 DEF AccountsInv, LinksTyped
<1>7. LinksTyped'
  BY <1>1, <1>6 DEF AccountsInv, LinksTyped, Unused
<1>8. m \notin Range(resets)
  BY <1>1 DEF AccountsInv, LinksTyped
<1>9. ASSUME NEW l \in Links, links'[l] # NoLink
      PROVE  /\ \E i \in DOMAIN handed' :
                    handed'[i].link = l /\ handed'[i].user = links'[l] /\ LatestHanded(i)'
             /\ l \in Range(resets') => Ending(links[l])'
  <2>1. CASE l = m
    <3>1. PICK n \in DOMAIN handed' : n = Len(handed) + 1
      BY <1>6
    <3>2. handed'[n].link = l /\ handed'[n].user = links'[l]
      BY <1>4, <1>6, <2>1, <3>1
    <3>3. LatestHanded(n)'
      BY <1>6, <3>1 DEF LatestHanded
    <3>. QED  BY <1>1, <1>8, <2>1, <3>2, <3>3
  <2>2. CASE l # m
    <3>1. links'[l] = links[l] /\ links[l] # u /\ links[l] # NoLink
      BY <1>4, <1>9, <2>2
    <3>2. PICK i \in DOMAIN handed :
             handed[i].link = l /\ handed[i].user = links[l] /\ LatestHanded(i)
      BY <3>1 DEF AccountsInv, LinksHeld
    <3>3. LatestHanded(i)'
      BY <1>6, <3>1, <3>2 DEF LatestHanded
    <3>4. l \in Range(resets) => Ending(links[l])
      BY <3>1 DEF AccountsInv, LinksHeld
    <3>5. PICK v \in Users : v = links[l]
      BY <3>1, LinksTell DEF AccountsInv
    <3>6. Ending(links[l])' <=> Ending(v)'
      BY <3>1, <3>5 DEF Ending
    <3>. QED  BY <1>1, <1>3, <1>6, <3>1, <3>2, <3>3, <3>4, <3>5, <3>6
  <2>. QED  BY <2>1, <2>2
<1>10. LinksHeld'
  BY <1>9 DEF LinksHeld
<1>11. RevokedStay'
  BY <1>1, <1>3, <1>5, SessionsStand DEF AccountsInv, AccountsTyped
<1>. QED  BY <1>1, <1>2, <1>5, <1>7, <1>10, <1>11 DEF AccountsInv

\* What ResetByNewestLink says of a step that changes resets.
UsedNewest ==
    LET used == Last(resets') IN
    \E i \in DOMAIN handed :
       /\ handed[i].link = used
       /\ LatestHanded(i)
       /\ used \in Range(resets) => handed[i].user \in interrupted

LEMMA ResetKeeps ==
    ASSUME AccountsInv, NEW r \in Requests, NEW l \in Links, Reset(r, l)
    PROVE  AccountsInv' /\ UsedNewest
<1>1. links[l] # NoLink /\ ~Locked
  BY DEF Reset
<1>2. PICK u \in Users : u = links[l]
  BY <1>1, LinksTell DEF AccountsInv
<1>3. /\ Turn(r)
      /\ serving[r] = Idle
      /\ serving'[r] = [op |-> "burn", user |-> u]
      /\ standing' = [standing EXCEPT ![u].password = @ + 1]
      /\ resets' = Append(resets, l)
      /\ UNCHANGED <<sessions, links, handed, interrupted>>
  BY <1>2, Turns, IdleBefore DEF Reset, AccountsInv
<1>4. /\ standing' \in [Users -> Standings]
      /\ \A v \in Users \ {u} : standing'[v] = standing[v]
  <2>1. standing \in [Users -> Standings] /\ standing[u] \in Standings
    BY DEF AccountsInv, AccountsTyped
  <2>2. [standing[u] EXCEPT !.password = @ + 1] \in Standings
    BY <2>1 DEF Standings
  <2>. QED  BY <1>3, <2>1, <2>2
<1>5. ServingForm'
  BY <1>3, FormKept DEF AccountsInv, Requested, SignInOps
<1>6. /\ Revoking(u)' /\ Ending(u)'
      /\ \A v \in Users : (Revoking(v) => Revoking(v)') /\ (Ending(v) => Ending(v)')
  BY <1>3 DEF Revoking, Ending, Turn, Idle
<1>7. AccountsTyped'
  BY <1>3, <1>4 DEF AccountsInv, AccountsTyped
<1>8. RevokedStay'
  <2>1. \A v \in Users :
           \/ Revoking(v)'
           \/ /\ standing'[v].password = standing[v].password
              /\ standing'[v].blocks = standing[v].blocks
    BY <1>4, <1>6
  <2>2. sessions' \in [Tokens -> OpenSessions \cup {NoSession}]
    BY <1>3 DEF AccountsInv, AccountsTyped
  <2>. QED  BY <1>3, <1>6, <2>1, <2>2, SessionsStand DEF AccountsInv
<1>9. PICK i \in DOMAIN handed :
        handed[i].link = l /\ handed[i].user = u /\ LatestHanded(i)
  BY <1>1, <1>2 DEF AccountsInv, LinksHeld
<1>10. /\ resets' \in Seq(Links)
       /\ Range(resets') = Range(resets) \cup {l}
       /\ Last(resets') = l
  <2>1. /\ resets' \in Seq(Links)
        /\ DOMAIN resets = 1 .. Len(resets)
        /\ DOMAIN resets' = 1 .. Len(resets) + 1
        /\ Len(resets') = Len(resets) + 1
        /\ Len(resets) \in Nat
        /\ resets'[Len(resets) + 1] = l
        /\ \A k \in DOMAIN resets : resets'[k] = resets[k]
    BY <1>3 DEF AccountsInv, LinksTyped
  <2>2. Range(resets') = Range(resets) \cup {l}
    BY <2>1 DEF Range
  <2>. QED  BY <2>1, <2>2 DEF Last
<1>11. LinksTyped'
  BY <1>3, <1>9, <1>10 DEF AccountsInv, LinksTyped, Unused
<1>12. ASSUME NEW m \in Links, links'[m] # NoLink
       PROVE  /\ \E j \in DOMAIN handed' :
                     handed'[j].link = m /\ handed'[j].user = links'[m] /\ LatestHanded(j)'
              /\ m \in Range(resets') => Ending(links[m])'
  <2>1. PICK v \in Users : v = links[m]
    BY <1>3, <1>12, LinksTell DEF AccountsInv
  <2>2. Ending(links[m])' <=> Ending(v)'
    BY <1>3, <2>1 DEF Ending
  <2>3. \A j \in DOMAIN handed : LatestHanded(j) <=> LatestHanded(j)'
    BY <1>3 DEF LatestHanded
  <2>4. m \in Range(resets') => Ending(v)'
    BY <1>2, <1>3, <1>6, <1>10, <1>12, <2>1 DEF AccountsInv, LinksHeld
  <2>. QED  BY <1>3, <1>12, <2>1, <2>2, <2>3, <2>4 DEF AccountsInv, LinksHeld
<1>13. LinksHeld'
  BY <1>12 DEF LinksHeld
<1>14. UsedNewest
  <2>1. l \in Range(resets) => u \in interrupted
    BY <1>1, <1>2 DEF AccountsInv, LinksHeld, Ending, Locked
  <2>. QED  BY <1>9, <1>10, <2>1 DEF UsedNewest
<1>. QED  BY <1>5, <1>7, <1>8, <1>11, <1>13, <1>14 DEF AccountsInv

LEMMA DeathKeeps ==
    ASSUME AccountsInv, NEW p \in Processes, Dies(p), Interrupts(p)
    PROVE  AccountsInv' /\ UNCHANGED resets
<1>1. /\ \A r \in Requests : serving'[r] \in {Idle, serving[r]}
      /\ serving' = [r \in Requests |-> serving'[r]]
      /\ UNCHANGED <<process, standing, sessions, links, handed, resets>>
  BY DEF Dies, Interrupts, accountFiles
<1>2. ServingForm'
  BY <1>1 DEF AccountsInv, ServingForm, Requested, Idle, SignInOps
<1>3. \A v \in Users : (Revoking(v)' <=> Revoking(v)) /\ (Ending(v) => Ending(v)')
  BY <1>1 DEF Dies, Interrupts, Revoking, Ending, Idle
<1>4. AccountsTyped'
  BY <1>1 DEF AccountsInv, AccountsTyped
<1>5. LinksTyped' /\ LinksHeld'
  BY <1>1, <1>3, LinksStand DEF AccountsInv
<1>6. RevokedStay'
  BY <1>1, <1>3, <1>4, SessionsStand DEF AccountsInv, AccountsTyped
<1>. QED  BY <1>1, <1>2, <1>4, <1>5, <1>6 DEF AccountsInv

\* What serves the marketplace is not about an account.
ElsewhereOps(s) == "op" \in DOMAIN s /\ s.op \notin SignInOps

LEMMA EndsElsewhere ==
    ASSUME ServingForm, NEW r \in Requests, NEW s, NEW applied, Ends(r, s, applied)
    PROVE  Turn(r) /\ ElsewhereOps(serving'[r])
  BY Turns DEF Ends, Answers, ElsewhereOps, Idle, SignInOps

LEMMA TurnsElsewhere ==
    ASSUME ServingForm, NEW r \in Requests, NEW request, ElsewhereOps(request),
           \/ Continues(r, request) /\ serving[r].op \notin SignInOps
           \/ Starts(r, "packages", request)
    PROVE  Turn(r) /\ serving[r].op \notin SignInOps /\ ElsewhereOps(serving'[r])
  BY Turns, IdleBefore DEF Idle, SignInOps

LEMMA StoreElsewhere ==
    ASSUME ServingForm, NEW r \in Requests, MarketplaceStep(r)
    PROVE  Turn(r) /\ serving[r].op \notin SignInOps /\ ElsewhereOps(serving'[r])
<1>. DEFINE s == serving[r]
<1>0. "op" \in DOMAIN s
  BY DEF ServingForm, Requested
<1>1. CASE \E p \in Published, flags \in Flags : Install(r, p, flags)
  <2>1. \A p, flags : ElsewhereOps(Asks(p, flags, Alone, {}))
    BY DEF Asks, ElsewhereOps, SignInOps
  <2>. QED  BY <1>1, <2>1, TurnsElsewhere DEF Install
<1>2. CASE \E i \in DOMAIN catalog : Uninstall(r, i)
  <2>1. PICK request : Starts(r, "packages", request) /\ ElsewhereOps(request)
    BY <1>2 DEF Uninstall, ElsewhereOps, SignInOps
  <2>. QED  BY <2>1, TurnsElsewhere
<1>3. CASE \E flags \in Flags : AutoUpdate(r, [flags EXCEPT !.unverified = FALSE])
  <2>1. PICK request : Starts(r, "packages", request) /\ ElsewhereOps(request)
    BY <1>3 DEF AutoUpdate, ElsewhereOps, SignInOps
  <2>. QED  BY <2>1, TurnsElsewhere
<1>4. CASE ResolveStep(r)
  <2>1. PICK request : Continues(r, request) /\ ElsewhereOps(request)
    <3>1. \A chain : ElsewhereOps(Resolved(s, chain))
      BY DEF Resolved, ElsewhereOps, SignInOps
    <3>2. CASE Collect(r)
      <4>1. \A wants, path :
               s.op = "collect" => ElsewhereOps([s EXCEPT !.wants = wants, !.path = path])
        BY <1>0 DEF ElsewhereOps, SignInOps
      <4>. HIDE DEF s
      <4>. QED  BY <3>1, <3>2, <4>1 DEF Collect, Refused, s
    <3>3. CASE CollectReturns(r)
      <4>1. \A path : s.op = "collect" => ElsewhereOps([s EXCEPT !.path = path])
        BY <1>0 DEF ElsewhereOps, SignInOps
      <4>2. \A path : ElsewhereOps([op |-> "visit", root |-> s.root, wants |-> s.wants,
                     path |-> path, order |-> <<>>,
                     flags |-> s.flags, pending |-> s.pending, applied |-> s.applied])
        BY DEF ElsewhereOps, SignInOps
      <4>. HIDE DEF s
      <4>. QED  BY <3>3, <4>1, <4>2 DEF CollectReturns, s
    <3>4. CASE Visit(r)
      <4>1. \A path : s.op = "visit" => ElsewhereOps([s EXCEPT !.path = path])
        BY <1>0 DEF ElsewhereOps, SignInOps
      <4>. HIDE DEF s
      <4>. QED  BY <3>1, <3>4, <4>1 DEF Visit, Refused, s
    <3>5. CASE VisitReturns(r)
      <4>1. \A path, order :
               s.op = "visit" => ElsewhereOps([s EXCEPT !.path = path, !.order = order])
        BY <1>0 DEF ElsewhereOps, SignInOps
      <4>. HIDE DEF s
      <4>. QED  BY <3>1, <3>5, <4>1 DEF VisitReturns, s
    <3>. QED  BY <1>4, <3>2, <3>3, <3>4, <3>5 DEF ResolveStep
  <2>2. s.op \notin SignInOps
    BY <1>4 DEF ResolveStep, Collect, CollectReturns, Visit, VisitReturns, SignInOps
  <2>. QED  BY <2>1, <2>2, TurnsElsewhere
<1>5. CASE Gate(r)
  BY <1>5, Turns, EndsElsewhere DEF Gate, ElsewhereOps, SignInOps
<1>6. CASE Skip(r) \/ Clear(r) \/ Write(r) \/ Empty(r) \/ Fill(r) \/ Delete(r)
  <2>1. s.op \notin SignInOps
    BY <1>6 DEF Skip, Clear, Write, Empty, Fill, Delete, SignInOps
  <2>2. PICK request : Continues(r, request) /\ ElsewhereOps(request)
    <3>1. CASE Skip(r)
      BY <1>0, <2>1, <3>1 DEF Skip, ElsewhereOps
    <3>2. CASE Clear(r)
      BY <1>0, <3>2 DEF Clear, ElsewhereOps, SignInOps
    <3>3. CASE Write(r)
      <4>1. \A todo, book :
               ElsewhereOps([s EXCEPT !.op = "save", !.todo = todo, !.book = book])
        BY <1>0 DEF ElsewhereOps, SignInOps
      <4>. DEFINE p == Head(s.todo)
      <4>2. Continues(r, [s EXCEPT !.op = "save", !.todo = Tail(s.todo),
                                   !.book = [s.book EXCEPT ![p.item] = p.version]])
        BY <3>3 DEF Write
      <4>. QED  BY <4>1, <4>2
    <3>4. CASE Empty(r) \/ Fill(r) \/ Delete(r)
      BY <1>0, <3>4 DEF Empty, Fill, Delete, ElsewhereOps, SignInOps
    <3>. QED  BY <1>6, <3>1, <3>2, <3>3, <3>4
  <2>. QED  BY <2>1, <2>2, TurnsElsewhere
<1>7. CASE Break(r) \/ SaveFails(r) \/ Finish(r) \/ Answer(r)
  BY <1>7, Turns, EndsElsewhere
  DEF Break, SaveFails, Finish, Answer, Answers, Idle, ElsewhereOps, SignInOps
<1>8. CASE UpdateNext(r) \/ Report(r)
  <2>1. s.op \notin SignInOps
    BY <1>8 DEF UpdateNext, Report, SignInOps
  <2>2. PICK request : Continues(r, request) /\ ElsewhereOps(request)
    <3>1. \A p, flags, pending, applied : ElsewhereOps(Asks(p, flags, pending, applied))
      BY DEF Asks, ElsewhereOps, SignInOps
    <3>2. \A pending : s.op = "updates" => ElsewhereOps([s EXCEPT !.pending = pending])
      BY <1>0 DEF ElsewhereOps, SignInOps
    <3>3. CASE UpdateNext(r)
      BY <3>1, <3>2, <3>3 DEF UpdateNext
    <3>4. CASE Report(r)
      BY <3>4 DEF Report, ElsewhereOps, SignInOps
    <3>. QED  BY <1>8, <3>3, <3>4
  <2>. QED  BY <2>1, <2>2, TurnsElsewhere
<1>. QED
  BY <1>1, <1>2, <1>3, <1>4, <1>5, <1>6, <1>7, <1>8 DEF MarketplaceStep

LEMMA StoreKeeps ==
    ASSUME AccountsInv, NEW r \in Requests, MarketplaceStep(r), UNCHANGED signInsVars
    PROVE  AccountsInv' /\ UNCHANGED resets
<1>1. Turn(r) /\ serving[r].op \notin SignInOps /\ ElsewhereOps(serving'[r])
  BY StoreElsewhere DEF AccountsInv
<1>2. ServingForm'
  BY <1>1, FormKept DEF AccountsInv, Requested, ElsewhereOps, SignInOps
<1>3. \A v \in Users : (Revoking(v)' <=> Revoking(v)) /\ (Ending(v)' <=> Ending(v))
  BY <1>1 DEF Revoking, Ending, Turn, ElsewhereOps, SignInOps, signInsVars, history
<1>. QED
  BY <1>2, <1>3, FewerKeep
  DEF AccountsInv, AccountsTyped, signInsVars, accountFiles, history

LEMMA AccountsStart == Init => AccountsInv
<1>. SUFFICES ASSUME Init PROVE AccountsInv
  OBVIOUS
<1>1. ServingForm
  BY DEF Init, WorkersInit, ServingForm, Requested, Idle, SignInOps
<1>2. AccountsTyped
  BY DEF Init, NobodySignedIn, AccountsTyped, Standings
<1>3. LinksTyped /\ LinksHeld /\ RevokedStay
  BY DEF Init, NobodySignedIn, LinksTyped, LinksHeld, RevokedStay, Range
<1>. QED  BY <1>1, <1>2, <1>3 DEF AccountsInv

LEMMA AccountsNext ==
    ASSUME AccountsInv, [Next]_vars
    PROVE  AccountsInv' /\ (resets' # resets => UsedNewest)
<1>1. CASE \E r \in Requests : MarketplaceStep(r) /\ UNCHANGED signInsVars
  BY <1>1, StoreKeeps
<1>2. CASE \E r \in Requests : SignInsStep(r)
  <2>1. PICK r \in Requests : SignInsStep(r)
    BY <1>2
  <2>2. CASE SignInsProgress(r)
    BY <2>2, OpenSessionKeeps, BurnKeeps, RevokeKeeps DEF SignInsProgress
  <2>3. CASE \E u \in Users : \/ Login(r, u)
                              \/ \E l \in Links : Mint(r, u, l)
                              \/ Deactivate(r, u)
                              \/ Activate(r, u)
                              \/ RemoveMember(r, u)
                              \/ Readmit(r, u)
    BY <2>3, LoginKeeps, MintKeeps, DeactivateKeeps, MembersKeep
  <2>4. CASE \E t \in Tokens : Logout(r, t)
    BY <2>4, LogoutKeeps
  <2>5. CASE \E l \in Links : Reset(r, l)
    BY <2>5, ResetKeeps
  <2>. QED  BY <2>1, <2>2, <2>3, <2>4, <2>5 DEF SignInsStep
<1>3. CASE Lapses
  BY <1>3, LapsesKeep
<1>4. CASE \E p \in Processes : Dies(p) /\ Forgets(p) /\ Interrupts(p)
  BY <1>4, DeathKeeps
<1>5. CASE UNCHANGED vars
  <2>1. UNCHANGED <<process, serving, standing, sessions, links, handed, resets, interrupted>>
    BY <1>5 DEF vars, signInsVars, accountFiles, history
  <2>2. ServingForm'
    BY <2>1 DEF AccountsInv, ServingForm, Requested
  <2>3. \A v \in Users : (Revoking(v)' <=> Revoking(v)) /\ (Ending(v)' <=> Ending(v))
    BY <2>1 DEF Revoking, Ending
  <2>. QED  BY <2>1, <2>2, <2>3, FewerKeep DEF AccountsInv, AccountsTyped
<1>. QED  BY <1>1, <1>2, <1>3, <1>4, <1>5 DEF Next

LEMMA AccountsAlways == Spec => []AccountsInv
<1>1. AccountsInv /\ [Next]_vars => AccountsInv'
  BY AccountsNext
<1>. QED  BY <1>1, AccountsStart, PTL DEF Spec

\* reset_password, set_status: no session outlives the password it was opened
\* under, or the deactivation of its account, once the request that ends them is
\* over - for any number of accounts, sessions, processes and requests, whenever
\* a process dies.
THEOREM RevokedStayRevoked == Spec => []RevokedStay
<1>1. AccountsInv => RevokedStay
  BY DEF AccountsInv
<1>. QED  BY <1>1, AccountsAlways, PTL

\* create_reset_token, reset_password: only the latest link of an account changes
\* its password, and only once, but where a process died in the middle of it.
THEOREM NewestLinkOnly == Spec => ResetByNewestLink
<1>1. AccountsInv /\ [Next]_vars =>
        [resets' # resets =>
           LET used == Last(resets') IN
           \E i \in DOMAIN handed :
              /\ handed[i].link = used
              /\ \A j \in DOMAIN handed : j > i => handed[j].user # handed[i].user
              /\ used \in Range(resets) => handed[i].user \in interrupted]_vars
  BY AccountsNext DEF UsedNewest, LatestHanded
<1>. QED  BY <1>1, AccountsAlways, PTL DEF Spec, ResetByNewestLink

-----------------------------------------------------------------------------
(***************************************************************************)
(* Sequences and versions.                                                 *)
(***************************************************************************)

LEMMA NewestOf ==
    ASSUME NEW S \in SUBSET Versions, S # {}
    PROVE  Max(S) \in S /\ \A v \in S : v <= Max(S)
<1>. DEFINE Above(v) == {w \in S : w > v}
            Sets == {Above(v) : v \in S}
<1>1. S \subseteq Int /\ IsFiniteSet(S)
  <2>1. IsFiniteSet(Versions)
    BY PackagesAssumption, FS_Interval DEF Versions
  <2>2. IsFiniteSet(S)
    BY <2>1, FS_Subset
  <2>3. S \subseteq Int
    BY DEF Versions
  <2>. QED  BY <2>2, <2>3
<1>2. PICK T \in Sets : \A U \in Sets : U \subseteq T => U = T
  <2>1. Sets \in SUBSET SUBSET S /\ Sets # {}
    OBVIOUS
  <2>2. IsFiniteSet(S)
    BY <1>1
  <2>. HIDE DEF Above, Sets
  <2>. QED  BY <2>1, <2>2, SmallestSet
<1>3. PICK v \in S : T = Above(v)
  BY <1>2
<1>4. ASSUME NEW w \in S PROVE v >= w
  <2>1. SUFFICES ASSUME w > v PROVE FALSE
    BY <1>1
  <2>2. w \in Above(v) /\ w \notin Above(w) /\ Above(w) \subseteq Above(v)
    <3>1. w \in Int /\ v \in Int /\ \A x \in S : x \in Int
      BY <1>1
    <3>2. w \in Above(v)
      BY <2>1, <3>1
    <3>3. w \notin Above(w)
      BY <3>1
    <3>4. ASSUME NEW x \in Above(w) PROVE x \in Above(v)
      BY <2>1, <3>1, <3>4
    <3>. QED  BY <3>2, <3>3, <3>4
  <2>3. Above(w) \in Sets
    OBVIOUS
  <2>. HIDE DEF Above, Sets
  <2>. QED  BY <1>2, <1>3, <2>2, <2>3
<1>5. \A x \in S : x \in Int
  BY DEF Versions
<1>. QED  BY <1>4, <1>5 DEF Max

LEMMA HeadAndTail ==
    ASSUME NEW S, NEW s \in Seq(S), s # <<>>
    PROVE  /\ Head(s) \in S
           /\ Tail(s) \in Seq(S)
           /\ Range(s) = {Head(s)} \cup Range(Tail(s))
<1>1. /\ Len(s) \in Nat \ {0}
      /\ DOMAIN s = 1 .. Len(s)
      /\ Tail(s) \in Seq(S)
      /\ Len(Tail(s)) = Len(s) - 1
      /\ DOMAIN Tail(s) = 1 .. Len(s) - 1
      /\ \A k \in 1 .. Len(s) - 1 : Tail(s)[k] = s[k + 1]
      /\ Head(s) = s[1]
  OBVIOUS
<1>2. ASSUME NEW k \in DOMAIN s PROVE s[k] \in {Head(s)} \cup Range(Tail(s))
  <2>1. CASE k = 1
    BY <1>1, <2>1
  <2>2. CASE k # 1
    <3>1. k - 1 \in DOMAIN Tail(s) /\ Tail(s)[k - 1] = s[k]
      BY <1>1, <2>2
    <3>. QED  BY <3>1 DEF Range
  <2>. QED  BY <2>1, <2>2
<1>3. ASSUME NEW k \in DOMAIN Tail(s) PROVE Tail(s)[k] \in Range(s)
  <2>1. k + 1 \in DOMAIN s /\ Tail(s)[k] = s[k + 1]
    BY <1>1
  <2>. QED  BY <2>1 DEF Range
<1>4. Head(s) \in Range(s)
  BY <1>1 DEF Range
<1>. QED  BY <1>1, <1>2, <1>3, <1>4 DEF Range

LEMMA Appended ==
    ASSUME NEW S, NEW s \in Seq(S), NEW x \in S
    PROVE  /\ Append(s, x) \in Seq(S)
           /\ Append(s, x) # <<>>
           /\ Len(s) \in Nat
           /\ Len(Append(s, x)) = Len(s) + 1
           /\ DOMAIN s = 1 .. Len(s)
           /\ DOMAIN Append(s, x) = 1 .. Len(s) + 1
           /\ Append(s, x)[Len(s) + 1] = x
           /\ \A k \in DOMAIN s : Append(s, x)[k] = s[k]
           /\ Range(Append(s, x)) = Range(s) \cup {x}
<1>1. /\ Append(s, x) \in Seq(S)
      /\ Append(s, x) # <<>>
      /\ Len(s) \in Nat
      /\ Len(Append(s, x)) = Len(s) + 1
      /\ DOMAIN s = 1 .. Len(s)
      /\ DOMAIN Append(s, x) = 1 .. Len(s) + 1
      /\ Append(s, x)[Len(s) + 1] = x
      /\ \A k \in DOMAIN s : Append(s, x)[k] = s[k]
  OBVIOUS
<1>2. Range(Append(s, x)) = Range(s) \cup {x}
  BY <1>1 DEF Range
<1>. QED  BY <1>1, <1>2

-----------------------------------------------------------------------------
(***************************************************************************)
(* What is published, and what is chosen.                                  *)
(***************************************************************************)

LEMMA PublishedAre ==
    ASSUME NEW p
    PROVE  p \in Published <=>
             \E i \in DOMAIN catalog : \E v \in DOMAIN catalog[i] : p = Package(i, v)
  BY DEF Published

LEMMA NeedsAre ==
    ASSUME WellFormed(catalog), NEW p \in Published
    PROVE  /\ p.item \in Items
           /\ p.item \in DOMAIN catalog
           /\ p.version \in DOMAIN catalog[p.item]
           /\ p = Package(p.item, p.version)
           /\ Needs(p) \in Seq(Dependencies)
           /\ p.version \in Versions
<1>1. PICK i \in DOMAIN catalog : \E v \in DOMAIN catalog[i] : p = Package(i, v)
  BY PublishedAre
<1>2. PICK v \in DOMAIN catalog[i] : p = Package(i, v)
  BY <1>1
<1>3. p.item = i /\ p.version = v
  BY <1>2 DEF Package
<1>. QED  BY <1>2, <1>3 DEF WellFormed, Needs

\* The newest version that the demands admit.
LEMMA ChosenIs ==
    ASSUME WellFormed(catalog), NEW wants, NEW i, Chosen(wants, i) # None
    PROVE  /\ Chosen(wants, i) \in Published
           /\ Chosen(wants, i).item = i
           /\ Chosen(wants, i).version \in Admissible(wants, i)
           /\ \A v \in DOMAIN catalog[i] \cap Admissible(wants, i) :
                 v <= Chosen(wants, i).version
<1>. DEFINE fitting == DOMAIN catalog[i] \cap Admissible(wants, i)
<1>1. i \in DOMAIN catalog /\ fitting # {} /\ Chosen(wants, i) = Package(i, Max(fitting))
  BY DEF Chosen
<1>2. fitting \in SUBSET Versions
  BY <1>1 DEF WellFormed
<1>3. Max(fitting) \in fitting /\ \A v \in fitting : v <= Max(fitting)
  <2>. HIDE DEF fitting
  <2>. QED  BY <1>1, <1>2, NewestOf
<1>4. Package(i, Max(fitting)) \in Published
  BY <1>1, <1>3, PublishedAre
<1>. QED  BY <1>1, <1>3, <1>4 DEF Package

LEMMA ChosenAlike ==
    ASSUME NEW wants, NEW others, NEW i, Admissible(wants, i) = Admissible(others, i)
    PROVE  Chosen(wants, i) = Chosen(others, i)
  BY DEF Chosen

-----------------------------------------------------------------------------
(***************************************************************************)
(* collect.                                                                *)
(***************************************************************************)

Calls == [item : Items, left : Seq(Dependencies)]

CollectFields == {"op", "root", "wants", "path", "flags", "pending", "applied"}

\* The demands keep to a dependency.
Met(wants, need) == need.item \in DOMAIN wants /\ wants[need.item] \subseteq need.accepts

\* A call on the path has it still before it.
Ahead(path, i, need) ==
    \E k \in DOMAIN path : path[k].item = i /\ need \in Range(path[k].left)

\* The calls on the path are about different items, the first about root.
PathForm(path, root, wants) ==
    /\ path \in Seq(Calls)
    /\ path # <<>>
    /\ path[1].item = root.item
    /\ \A k \in DOMAIN path : path[k].item \in DOMAIN wants
    /\ \A k, l \in DOMAIN path : path[k].item = path[l].item => k = l

\* root is what was asked for, and the choices there are exist.
WantsForm(wants, root) ==
    /\ root \in Published
    /\ root.item \in DOMAIN wants
    /\ wants[root.item] \subseteq {root.version}
    /\ \A i \in DOMAIN wants : Chosen(wants, i) # None

CollectHeld(s) ==
    /\ DOMAIN s = CollectFields
    /\ WantsForm(s.wants, s.root)
    /\ PathForm(s.path, s.root, s.wants)
    /\ \A i \in DOMAIN s.wants : \A need \in Range(Needs(Chosen(s.wants, i))) :
          Met(s.wants, need) \/ Ahead(s.path, i, need)

\* What is chosen has all its dependencies among what is chosen.
Closed(wants) ==
    \A i \in DOMAIN wants : \A need \in Range(Needs(Chosen(wants, i))) : Met(wants, need)

\* The latest call on the path, of which one dependency is passed over.
LEMMA PassedOverIs ==
    ASSUME NEW path \in Seq(Calls), path # <<>>, Left(path) # <<>>
    PROVE  /\ PassedOver(path) \in Seq(Calls)
           /\ PassedOver(path) # <<>>
           /\ Len(path) \in DOMAIN path
           /\ DOMAIN PassedOver(path) = DOMAIN path
           /\ \A k \in DOMAIN path : PassedOver(path)[k].item = path[k].item
           /\ \A k \in DOMAIN path \ {Len(path)} : PassedOver(path)[k] = path[k]
           /\ PassedOver(path)[Len(path)].left = Tail(Left(path))
           /\ Head(Left(path)) \in Dependencies
           /\ Range(path[Len(path)].left) =
                {Head(Left(path))} \cup Range(PassedOver(path)[Len(path)].left)
<1>. DEFINE n == Len(path)
<1>1. n \in DOMAIN path /\ DOMAIN path = 1 .. n
  OBVIOUS
<1>2. path[n] \in Calls /\ Left(path) = path[n].left /\ path[n].left \in Seq(Dependencies)
  <2>1. path[n] \in Calls
    BY <1>1
  <2>. QED  BY <2>1 DEF Left, Last, Calls
<1>3. /\ Head(Left(path)) \in Dependencies
      /\ Tail(Left(path)) \in Seq(Dependencies)
      /\ Range(Left(path)) = {Head(Left(path))} \cup Range(Tail(Left(path)))
  BY <1>2, HeadAndTail
<1>4. PassedOver(path) = [path EXCEPT ![n] = [path[n] EXCEPT !.left = Tail(Left(path))]]
  BY <1>2 DEF PassedOver
<1>5. [path[n] EXCEPT !.left = Tail(Left(path))] \in Calls
  BY <1>2, <1>3 DEF Calls
<1>6. /\ PassedOver(path)[n] = [path[n] EXCEPT !.left = Tail(Left(path))]
      /\ DOMAIN PassedOver(path) = DOMAIN path
      /\ \A k \in DOMAIN path \ {n} : PassedOver(path)[k] = path[k]
      /\ PassedOver(path) \in Seq(Calls)
      /\ PassedOver(path) # <<>>
  BY <1>1, <1>4, <1>5
<1>7. PassedOver(path)[n].item = path[n].item /\ PassedOver(path)[n].left = Tail(Left(path))
  BY <1>2, <1>6 DEF Calls
<1>. QED  BY <1>1, <1>2, <1>3, <1>6, <1>7

\* The latest call returns.
LEMMA FrontIs ==
    ASSUME NEW path \in Seq(Calls), Len(path) > 1
    PROVE  /\ Front(path) \in Seq(Calls)
           /\ Front(path) # <<>>
           /\ DOMAIN path = 1 .. Len(path)
           /\ DOMAIN Front(path) = 1 .. Len(path) - 1
           /\ \A k \in 1 .. Len(path) - 1 : Front(path)[k] = path[k]
<1>1. /\ Len(path) \in Nat
      /\ DOMAIN path = 1 .. Len(path)
  OBVIOUS
<1>2. /\ Front(path) \in Seq(Calls)
      /\ Len(Front(path)) = Len(path) - 1
      /\ \A k \in 1 .. Len(path) - 1 : Front(path)[k] = path[k]
  BY <1>1, SubSeqProperties DEF Front
<1>3. DOMAIN Front(path) = 1 .. Len(path) - 1 /\ Front(path) # <<>>
  BY <1>1, <1>2
<1>. QED  BY <1>1, <1>2, <1>3

LEMMA CallIs ==
    ASSUME WellFormed(catalog), NEW p \in Published
    PROVE  Call(p) \in Calls /\ Call(p).item = p.item /\ Call(p).left = Needs(p)
  BY NeedsAre DEF Call, Calls

\* Another call is about an item that has none.
LEMMA FormCalls ==
    ASSUME NEW root, NEW wants, NEW path, PathForm(path, root, wants),
           NEW passed \in Seq(Calls), DOMAIN passed = DOMAIN path,
           \A k \in DOMAIN path : passed[k].item = path[k].item,
           NEW more, DOMAIN wants \subseteq DOMAIN more,
           NEW call \in Calls, call.item \in DOMAIN more, call.item \notin OnPath(path)
    PROVE  PathForm(Append(passed, call), root, more)
<1>. DEFINE n == Len(path)
            longer == Append(passed, call)
<1>1. /\ path \in Seq(Calls) /\ path # <<>> /\ path[1].item = root.item
      /\ \A k \in DOMAIN path : path[k].item \in DOMAIN wants
      /\ \A k, l \in DOMAIN path : path[k].item = path[l].item => k = l
  BY DEF PathForm
<1>2. n \in Nat \ {0} /\ DOMAIN path = 1 .. n /\ Len(passed) = n
  BY <1>1
<1>3. /\ longer \in Seq(Calls) /\ longer # <<>>
      /\ DOMAIN longer = 1 .. n + 1
      /\ longer[n + 1] = call
      /\ \A k \in 1 .. n : longer[k] = passed[k]
  BY <1>2, Appended
<1>. HIDE DEF longer, n
<1>4. \A k \in 1 .. n : longer[k].item = path[k].item
  BY <1>2, <1>3
<1>5. \A k \in 1 .. n : path[k].item # call.item
  BY <1>2 DEF OnPath
<1>6. longer[1].item = root.item
  BY <1>1, <1>2, <1>4
<1>7. ASSUME NEW k \in 1 .. n + 1 PROVE longer[k].item \in DOMAIN more
  <2>1. CASE k = n + 1
    BY <1>3, <2>1
  <2>2. CASE k # n + 1
    BY <1>1, <1>2, <1>4, <2>2
  <2>. QED  BY <2>1, <2>2
<1>8. ASSUME NEW k \in 1 .. n + 1, NEW l \in 1 .. n + 1, longer[k].item = longer[l].item
      PROVE  k = l
  <2>1. CASE k \in 1 .. n /\ l \in 1 .. n
    BY <1>1, <1>2, <1>4, <1>8, <2>1
  <2>2. CASE k = n + 1 /\ l \in 1 .. n
    BY <1>3, <1>4, <1>5, <1>8, <2>2
  <2>3. CASE l = n + 1 /\ k \in 1 .. n
    BY <1>3, <1>4, <1>5, <1>8, <2>3
  <2>. QED  BY <1>2, <2>1, <2>2, <2>3
<1>9. PathForm(longer, root, more)
  BY <1>3, <1>6, <1>7, <1>8 DEF PathForm
<1>. QED  BY <1>9 DEF longer

LEMMA FormReturns ==
    ASSUME NEW root, NEW wants, NEW path, PathForm(path, root, wants), Len(path) > 1
    PROVE  PathForm(Front(path), root, wants)
<1>. DEFINE n == Len(path)
            shorter == Front(path)
<1>1. /\ path \in Seq(Calls) /\ path # <<>> /\ path[1].item = root.item
      /\ \A k \in DOMAIN path : path[k].item \in DOMAIN wants
      /\ \A k, l \in DOMAIN path : path[k].item = path[l].item => k = l
  BY DEF PathForm
<1>2. /\ shorter \in Seq(Calls) /\ shorter # <<>> /\ n \in Nat
      /\ DOMAIN path = 1 .. n
      /\ DOMAIN shorter = 1 .. n - 1
      /\ \A k \in 1 .. n - 1 : shorter[k] = path[k]
  BY <1>1, FrontIs
<1>3. 1 \in 1 .. n - 1
  BY <1>2
<1>. HIDE DEF shorter, n
<1>4. shorter[1].item = root.item
  BY <1>1, <1>2, <1>3
<1>5. \A k \in 1 .. n - 1 : k \in 1 .. n
  BY <1>2
<1>6. PathForm(shorter, root, wants)
  BY <1>1, <1>2, <1>4, <1>5 DEF PathForm
<1>. QED  BY <1>6 DEF shorter

\* Another demand leaves what was chosen of the other items, and keeps to what
\* the others keep to.
LEMMA DemandedIs ==
    ASSUME NEW wants, NEW need, NEW more, more = Demanded(wants, need.item, need.accepts)
    PROVE  /\ DOMAIN more = DOMAIN wants \cup {need.item}
           /\ Met(more, need)
           /\ \A i \in DOMAIN wants : more[i] \subseteq wants[i]
           /\ \A i \in DOMAIN wants \ {need.item} : Chosen(more, i) = Chosen(wants, i)
           /\ \A other : Met(wants, other) => Met(more, other)
<1>1. /\ DOMAIN more = DOMAIN wants \cup {need.item}
      /\ more[need.item] = Admissible(wants, need.item) \cap need.accepts
      /\ \A i \in DOMAIN wants \ {need.item} : more[i] = wants[i]
  BY DEF Demanded
<1>2. \A i \in DOMAIN wants : more[i] \subseteq wants[i]
  BY <1>1 DEF Admissible
<1>3. \A i \in DOMAIN wants \ {need.item} : Admissible(more, i) = Admissible(wants, i)
  BY <1>1 DEF Admissible
<1>4. \A i \in DOMAIN wants \ {need.item} : Chosen(more, i) = Chosen(wants, i)
  BY <1>3, ChosenAlike
<1>5. \A other : Met(wants, other) => Met(more, other)
  BY <1>1, <1>2 DEF Met
<1>. QED  BY <1>1, <1>2, <1>4, <1>5 DEF Met

LEMMA CollectCalls ==
    ASSUME WellFormed(catalog), NEW s, CollectHeld(s), Left(s.path) # <<>>,
           NEW need, need = Head(Left(s.path)),
           NEW wants, wants = Demanded(s.wants, need.item, need.accepts),
           NEW chosen, chosen = Chosen(wants, need.item), chosen # None,
           need.item \notin OnPath(s.path)
    PROVE  CollectHeld([s EXCEPT !.wants = wants,
                                 !.path = Append(PassedOver(s.path), Call(chosen))])
<1>. DEFINE n == Len(s.path)
            passed == PassedOver(s.path)
            path == Append(passed, Call(chosen))
            t == [s EXCEPT !.wants = wants, !.path = path]
<1>1. /\ DOMAIN t = CollectFields /\ t.wants = wants /\ t.path = path /\ t.root = s.root
  BY DEF CollectHeld, CollectFields
<1>2. /\ s.path \in Seq(Calls) /\ s.path # <<>> /\ s.path[1].item = s.root.item
      /\ \A k \in DOMAIN s.path : s.path[k].item \in DOMAIN s.wants
      /\ \A k, l \in DOMAIN s.path : s.path[k].item = s.path[l].item => k = l
  BY DEF CollectHeld, PathForm
<1>3. /\ n \in Nat \ {0}
      /\ DOMAIN s.path = 1 .. n
  BY <1>2
<1>4. /\ passed \in Seq(Calls)
      /\ Len(passed) = n
      /\ DOMAIN passed = 1 .. n
      /\ \A k \in 1 .. n : passed[k].item = s.path[k].item
      /\ \A k \in 1 .. n : k # n => passed[k] = s.path[k]
      /\ Range(s.path[n].left) = {need} \cup Range(passed[n].left)
      /\ need \in Dependencies
  <2>1. /\ passed \in Seq(Calls)
        /\ DOMAIN passed = DOMAIN s.path
        /\ \A k \in DOMAIN s.path : passed[k].item = s.path[k].item
        /\ \A k \in DOMAIN s.path \ {n} : passed[k] = s.path[k]
        /\ Range(s.path[n].left) = {need} \cup Range(passed[n].left)
        /\ need \in Dependencies
    BY <1>2, PassedOverIs
  <2>2. Len(passed) = n
    <3>. HIDE DEF passed
    <3>. QED  BY <1>3, <2>1
  <2>. HIDE DEF passed, n
  <2>. QED  BY <1>3, <2>1, <2>2
<1>. HIDE DEF t, path, passed, n
<1>5. /\ chosen \in Published
      /\ chosen.item = need.item
  BY ChosenIs
<1>6. Call(chosen) \in Calls /\ Call(chosen).item = need.item /\ Call(chosen).left = Needs(chosen)
  BY <1>5, CallIs
<1>7. /\ path \in Seq(Calls)
      /\ path # <<>>
      /\ DOMAIN path = 1 .. n + 1
      /\ path[n + 1] = Call(chosen)
      /\ \A k \in 1 .. n : path[k] = passed[k]
  <2>1. PICK call : call = Call(chosen)
    OBVIOUS
  <2>2. call \in Calls
    BY <1>6, <2>1
  <2>3. path = Append(passed, call)
    BY <2>1 DEF path
  <2>. QED  BY <1>4, <2>1, <2>2, <2>3, Appended
<1>8. /\ DOMAIN wants = DOMAIN s.wants \cup {need.item}
      /\ Met(wants, need)
      /\ \A i \in DOMAIN s.wants : wants[i] \subseteq s.wants[i]
      /\ \A i \in DOMAIN s.wants \ {need.item} : Chosen(wants, i) = Chosen(s.wants, i)
      /\ \A other : Met(s.wants, other) => Met(wants, other)
  <2>1. PICK old : old = s.wants
    OBVIOUS
  <2>2. wants = Demanded(old, need.item, need.accepts)
    BY <2>1
  <2>3. DOMAIN wants = DOMAIN old \cup {need.item}
    BY <2>2 DEF Demanded
  <2>4. Met(wants, need)
    BY <2>2, DemandedIs
  <2>5. \A i \in DOMAIN old : wants[i] \subseteq old[i]
    BY <2>2, DemandedIs
  <2>6. ASSUME NEW i \in DOMAIN old \ {need.item} PROVE Chosen(wants, i) = Chosen(old, i)
    <3>1. Admissible(wants, i) = Admissible(old, i)
      BY <2>2 DEF Demanded, Admissible
    <3>. QED  BY <3>1, ChosenAlike
  <2>7. \A other : Met(old, other) => Met(wants, other)
    BY <2>2, DemandedIs
  <2>. QED  BY <2>1, <2>3, <2>4, <2>5, <2>6, <2>7
<1>9. PathForm(path, s.root, wants)
  <2>1. PathForm(s.path, s.root, s.wants) /\ need.item \in DOMAIN wants
    BY <1>8 DEF CollectHeld
  <2>2. PICK old, prior, root, call : /\ old = s.path /\ prior = s.wants /\ root = s.root
                                      /\ call = Call(chosen)
    OBVIOUS
  <2>3. PathForm(old, root, prior) /\ DOMAIN prior \subseteq DOMAIN wants
    BY <1>8, <2>1, <2>2
  <2>4. DOMAIN passed = DOMAIN old /\ \A k \in DOMAIN old : passed[k].item = old[k].item
    BY <1>3, <1>4, <2>2
  <2>5. call \in Calls /\ call.item \in DOMAIN wants /\ call.item \notin OnPath(old)
    BY <1>6, <2>1, <2>2
  <2>6. PathForm(Append(passed, call), root, wants)
    BY <1>4, <2>3, <2>4, <2>5, FormCalls
  <2>. QED  BY <2>2, <2>6 DEF path
<1>10. WantsForm(wants, s.root)
  <2>1. ASSUME NEW i \in DOMAIN wants PROVE Chosen(wants, i) # None
    <3>1. CASE i = need.item
      BY <3>1
    <3>2. CASE i # need.item
      BY <1>8, <3>2 DEF CollectHeld, WantsForm
    <3>. QED  BY <3>1, <3>2
  <2>. QED  BY <1>8, <2>1 DEF CollectHeld, WantsForm
<1>11. ASSUME NEW i \in DOMAIN wants, NEW other \in Range(Needs(Chosen(wants, i)))
       PROVE  Met(wants, other) \/ Ahead(path, i, other)
  <2>1. CASE i = need.item
    <3>1. other \in Range(path[n + 1].left)
      BY <1>6, <1>7, <2>1
    <3>2. n + 1 \in DOMAIN path
      BY <1>3, <1>7
    <3>3. path[n + 1].item = i
      BY <1>6, <1>7, <2>1
    <3>. QED  BY <3>1, <3>2, <3>3 DEF Ahead
  <2>2. CASE i # need.item
    <3>1. Met(s.wants, other) \/ Ahead(s.path, i, other)
      BY <1>8, <2>2 DEF CollectHeld
    <3>2. CASE Met(s.wants, other)
      BY <1>8, <3>2
    <3>3. ASSUME NEW k \in DOMAIN s.path, s.path[k].item = i, other \in Range(s.path[k].left)
          PROVE  Met(wants, other) \/ Ahead(path, i, other)
      <4>1. other = need \/ other \in Range(passed[k].left)
        BY <1>3, <1>4, <3>3
      <4>2. k \in DOMAIN path /\ path[k].item = i /\ path[k].left = passed[k].left
        BY <1>3, <1>4, <1>7, <3>3
      <4>. QED  BY <1>8, <4>1, <4>2 DEF Ahead
    <3>. QED  BY <3>1, <3>2, <3>3 DEF Ahead
  <2>. QED  BY <2>1, <2>2
<1>12. CollectHeld(t)
  BY <1>1, <1>9, <1>10, <1>11 DEF CollectHeld
<1>. QED  BY <1>12 DEF t, path, passed

LEMMA CollectReturned ==
    ASSUME NEW s, CollectHeld(s), Left(s.path) = <<>>, Len(s.path) > 1
    PROVE  CollectHeld([s EXCEPT !.path = Front(s.path)])
<1>. DEFINE n == Len(s.path)
            path == Front(s.path)
            t == [s EXCEPT !.path = path]
<1>1. DOMAIN t = CollectFields /\ t.wants = s.wants /\ t.path = path /\ t.root = s.root
  BY DEF CollectHeld, CollectFields
<1>2. /\ s.path \in Seq(Calls) /\ s.path # <<>> /\ s.path[1].item = s.root.item
      /\ \A k \in DOMAIN s.path : s.path[k].item \in DOMAIN s.wants
      /\ \A k, l \in DOMAIN s.path : s.path[k].item = s.path[l].item => k = l
  BY DEF CollectHeld, PathForm
<1>3. /\ path \in Seq(Calls) /\ path # <<>> /\ n \in Nat
      /\ DOMAIN s.path = 1 .. n
      /\ DOMAIN path = 1 .. n - 1
      /\ \A k \in 1 .. n - 1 : path[k] = s.path[k]
  BY <1>2, FrontIs
<1>4. PathForm(path, s.root, s.wants)
  BY FormReturns DEF CollectHeld
<1>5. ASSUME NEW i \in DOMAIN s.wants, NEW need \in Range(Needs(Chosen(s.wants, i))),
             ~Met(s.wants, need)
      PROVE  Ahead(path, i, need)
  <2>1. PICK k \in 1 .. n : s.path[k].item = i /\ need \in Range(s.path[k].left)
    BY <1>3, <1>5 DEF CollectHeld, Ahead
  <2>2. Range(s.path[n].left) = {}
    BY DEF Left, Last, Range
  <2>3. k \in DOMAIN path /\ path[k] = s.path[k]
    <3>1. k # n
      BY <2>1, <2>2
    <3>2. k \in 1 .. n - 1
      BY <1>3, <2>1, <3>1
    <3>. HIDE DEF path, n
    <3>. QED  BY <1>3, <3>2
  <2>. HIDE DEF path
  <2>. QED  BY <2>1, <2>3 DEF Ahead
<1>. HIDE DEF t, path
<1>6. CollectHeld(t)
  BY <1>1, <1>4, <1>5 DEF CollectHeld
<1>. QED  BY <1>6 DEF t, path

\* When the first call returns, what is chosen is closed.
LEMMA CollectEnds ==
    ASSUME NEW s, CollectHeld(s), Left(s.path) = <<>>, ~(Len(s.path) > 1)
    PROVE  Closed(s.wants)
<1>1. s.path \in Seq(Calls) /\ s.path # <<>>
  BY DEF CollectHeld, PathForm
<1>2. Len(s.path) = 1 /\ DOMAIN s.path = {1}
  <2>1. PICK n : n = Len(s.path)
    OBVIOUS
  <2>2. n \in Nat \ {0} /\ DOMAIN s.path = 1 .. n
    BY <1>1, <2>1
  <2>3. n = 1
    <3>1. ~(n > 1)
      BY <2>1
    <3>. QED  BY <2>2, <3>1
  <2>. QED  BY <2>1, <2>2, <2>3
<1>3. Range(s.path[1].left) = {}
  BY <1>2 DEF Left, Last, Range
<1>. QED  BY <1>2, <1>3 DEF CollectHeld, Closed, Ahead

-----------------------------------------------------------------------------
(***************************************************************************)
(* Where the path leads, and what works together.                          *)
(***************************************************************************)

\* What a call has left are dependencies of what is chosen, and it made the next
\* call for one of them.
PathLinked(path, wants) ==
    \A k \in DOMAIN path :
       /\ Range(path[k].left) \subseteq Range(Needs(Chosen(wants, path[k].item)))
       /\ k > 1 => \E need \in Range(Needs(Chosen(wants, path[k - 1].item))) :
                      need.item = path[k].item

Workable(root) == {ps \in SUBSET NewestWith(root) : root \in ps /\ WorkTogether(ps)}

\* The demands admit, of each item, the package there is.
Admits(wants, ps) == \A i \in DOMAIN wants : \E p \in ps : p.item = i /\ p.version \in wants[i]

LEMMA LinkedPassed ==
    ASSUME NEW path \in Seq(Calls), path # <<>>, Left(path) # <<>>,
           NEW wants, PathLinked(path, wants)
    PROVE  PathLinked(PassedOver(path), wants)
<1>. DEFINE n == Len(path)
            passed == PassedOver(path)
<1>1. /\ n \in DOMAIN path
      /\ DOMAIN passed = DOMAIN path
      /\ \A k \in DOMAIN path : passed[k].item = path[k].item
      /\ \A k \in DOMAIN path \ {n} : passed[k] = path[k]
      /\ Range(passed[n].left) \subseteq Range(path[n].left)
  BY PassedOverIs
<1>2. DOMAIN path = 1 .. n /\ n \in Nat
  OBVIOUS
<1>. HIDE DEF passed, n
<1>3. ASSUME NEW k \in 1 .. n
      PROVE  Range(passed[k].left) \subseteq Range(Needs(Chosen(wants, passed[k].item)))
  <2>1. Range(passed[k].left) \subseteq Range(path[k].left)
    BY <1>1, <1>2
  <2>. QED  BY <1>1, <1>2, <2>1 DEF PathLinked
<1>4. ASSUME NEW k \in 1 .. n, k > 1
      PROVE  \E need \in Range(Needs(Chosen(wants, passed[k - 1].item))) :
                need.item = passed[k].item
  <2>1. k - 1 \in 1 .. n
    BY <1>2, <1>4
  <2>. QED  BY <1>1, <1>2, <1>4, <2>1 DEF PathLinked
<1>5. PathLinked(passed, wants)
  BY <1>1, <1>2, <1>3, <1>4 DEF PathLinked
<1>. QED  BY <1>5 DEF passed

\* The same calls, with no more left to do.
LessLeft(path, passed) ==
    /\ DOMAIN passed = DOMAIN path
    /\ \A k \in DOMAIN path : /\ passed[k].item = path[k].item
                             /\ Range(passed[k].left) \subseteq Range(path[k].left)

SameChoices(path, wants, more) ==
    \A k \in DOMAIN path : Chosen(more, path[k].item) = Chosen(wants, path[k].item)

LEMMA LinkedCalls ==
    ASSUME WellFormed(catalog), NEW path \in Seq(Calls), path # <<>>, NEW passed \in Seq(Calls),
           LessLeft(path, passed),
           NEW wants, PathLinked(path, wants), NEW more, SameChoices(path, wants, more),
           NEW chosen \in Published, Chosen(more, chosen.item) = chosen,
           \E need \in Range(path[Len(path)].left) : need.item = chosen.item
    PROVE  PathLinked(Append(passed, Call(chosen)), more)
<1>. USE DEF LessLeft, SameChoices
<1>. DEFINE n == Len(path)
            longer == Append(passed, Call(chosen))
<1>1. n \in Nat \ {0} /\ DOMAIN path = 1 .. n
  OBVIOUS
<1>2. PICK need \in Range(path[Len(path)].left) : need.item = chosen.item
  OBVIOUS
<1>3. Call(chosen) \in Calls /\ Call(chosen).item = need.item /\ Call(chosen).left = Needs(chosen)
  BY <1>2, CallIs
<1>4. Len(passed) = n
  BY <1>1
<1>5. /\ DOMAIN longer = 1 .. n + 1
      /\ longer[n + 1] = Call(chosen)
      /\ \A k \in 1 .. n : longer[k] = passed[k]
  BY <1>1, <1>3, <1>4, Appended
<1>6. need \in Range(path[n].left)
  OBVIOUS
<1>. HIDE DEF longer, n
<1>7. \A k \in 1 .. n : longer[k].item = path[k].item
  BY <1>1, <1>5
<1>8. ASSUME NEW k \in 1 .. n + 1
      PROVE  Range(longer[k].left) \subseteq Range(Needs(Chosen(more, longer[k].item)))
  <2>1. CASE k = n + 1
    <3>1. longer[k].item = chosen.item /\ longer[k].left = Needs(chosen)
      BY <1>2, <1>3, <1>5, <2>1
    <3>. QED  BY <3>1
  <2>2. CASE k # n + 1
    <3>1. k \in 1 .. n
      BY <1>1, <2>2
    <3>2. Range(longer[k].left) \subseteq Range(path[k].left)
      BY <1>1, <1>5, <3>1
    <3>. QED  BY <1>1, <1>7, <3>1, <3>2 DEF PathLinked
  <2>. QED  BY <2>1, <2>2
<1>9. ASSUME NEW k \in 1 .. n + 1, k > 1
      PROVE  \E other \in Range(Needs(Chosen(more, longer[k - 1].item))) :
                other.item = longer[k].item
  <2>1. k - 1 \in 1 .. n
    BY <1>1, <1>9
  <2>2. CASE k = n + 1
    <3>1. k - 1 = n /\ n \in 1 .. n
      BY <1>1, <2>2
    <3>2. need \in Range(Needs(Chosen(wants, path[n].item)))
      BY <1>1, <1>6, <3>1 DEF PathLinked
    <3>3. need \in Range(Needs(Chosen(more, longer[n].item)))
      BY <1>1, <1>7, <3>1, <3>2
    <3>4. longer[k].item = need.item
      BY <1>3, <1>5, <2>2
    <3>. QED  BY <3>1, <3>3, <3>4
  <2>3. CASE k # n + 1
    <3>1. k \in 1 .. n
      BY <1>1, <2>3
    <3>2. PICK other \in Range(Needs(Chosen(wants, path[k - 1].item))) :
             other.item = path[k].item
      BY <1>1, <1>9, <3>1 DEF PathLinked
    <3>3. Chosen(more, longer[k - 1].item) = Chosen(wants, path[k - 1].item)
      BY <1>1, <1>7, <2>1
    <3>4. longer[k].item = path[k].item
      BY <1>7, <3>1
    <3>. QED  BY <3>2, <3>3, <3>4
  <2>. QED  BY <2>2, <2>3
<1>10. PathLinked(longer, more)
  BY <1>5, <1>8, <1>9 DEF PathLinked
<1>. QED  BY <1>10 DEF longer

LEMMA LinkedReturns ==
    ASSUME NEW path \in Seq(Calls), Len(path) > 1, NEW wants, PathLinked(path, wants)
    PROVE  PathLinked(Front(path), wants)
<1>. DEFINE n == Len(path)
            shorter == Front(path)
<1>1. /\ n \in Nat /\ DOMAIN path = 1 .. n
      /\ DOMAIN shorter = 1 .. n - 1
      /\ \A k \in 1 .. n - 1 : shorter[k] = path[k]
  BY FrontIs
<1>. HIDE DEF shorter, n
<1>2. ASSUME NEW k \in 1 .. n - 1
      PROVE  /\ Range(shorter[k].left) \subseteq Range(Needs(Chosen(wants, shorter[k].item)))
             /\ k > 1 => \E need \in Range(Needs(Chosen(wants, shorter[k - 1].item))) :
                            need.item = shorter[k].item
  <2>1. k \in 1 .. n /\ shorter[k] = path[k]
    BY <1>1
  <2>2. k > 1 => shorter[k - 1] = path[k - 1]
    BY <1>1
  <2>. QED  BY <1>1, <2>1, <2>2 DEF PathLinked
<1>3. PathLinked(shorter, wants)
  BY <1>1, <1>2 DEF PathLinked
<1>. QED  BY <1>3 DEF shorter

LEMMA LatestIs ==
    ASSUME WellFormed(catalog), NEW i \in DOMAIN catalog
    PROVE  /\ Latest(i) \in Published
           /\ Latest(i).item = i
           /\ \A v \in DOMAIN catalog[i] : v <= Latest(i).version
<1>1. DOMAIN catalog[i] \in SUBSET Versions /\ DOMAIN catalog[i] # {}
  BY DEF WellFormed
<1>2. Max(DOMAIN catalog[i]) \in DOMAIN catalog[i] /\ \A v \in DOMAIN catalog[i] : v <= Max(DOMAIN catalog[i])
  BY <1>1, NewestOf
<1>3. Latest(i).item = i /\ Latest(i).version = Max(DOMAIN catalog[i])
  BY DEF Latest, Package
<1>. QED  BY <1>2, <1>3, PublishedAre DEF Latest

LEMMA OneOfEach ==
    ASSUME WellFormed(catalog), NEW root \in Published,
           NEW p \in NewestWith(root), NEW q \in NewestWith(root), p.item = q.item
    PROVE  p = q
<1>1. \A i \in DOMAIN catalog : Latest(i).item = i
  BY LatestIs
<1>. QED  BY <1>1 DEF NewestWith

\* Of packages at their newest, the one that will do is chosen.
LEMMA ChosenAmong ==
    ASSUME WellFormed(catalog), NEW root \in Published, NEW p \in NewestWith(root),
           NEW wants, p.version \in Admissible(wants, p.item),
           p = root => Admissible(wants, p.item) \subseteq {root.version}
    PROVE  p \in Published /\ Chosen(wants, p.item) = p /\ p # None
<1>. DEFINE fitting == DOMAIN catalog[p.item] \cap Admissible(wants, p.item)
<1>1. p \in Published
  BY LatestIs DEF NewestWith
<1>2. /\ p.item \in DOMAIN catalog
      /\ p.version \in fitting
      /\ p = Package(p.item, p.version)
      /\ p.item \in Items
      /\ p.version \in Versions
  BY <1>1, NeedsAre
<1>3. fitting \in SUBSET Versions
  BY <1>2 DEF WellFormed
<1>4. Max(fitting) \in fitting /\ \A v \in fitting : v <= Max(fitting)
  <2>. HIDE DEF fitting
  <2>. QED  BY <1>2, <1>3, NewestOf
<1>5. Max(fitting) = p.version
  <2>1. CASE p = root
    BY <1>4, <2>1
  <2>2. CASE p # root
    <3>1. PICK i \in DOMAIN catalog : p = Latest(i)
      BY <2>2 DEF NewestWith
    <3>2. \A v \in DOMAIN catalog[p.item] : v <= p.version
      BY <3>1, LatestIs
    <3>3. Max(fitting) <= p.version /\ p.version <= Max(fitting)
      BY <1>2, <1>4, <3>2
    <3>4. Max(fitting) \in Int /\ p.version \in Int
      BY <1>2, <1>3, <1>4 DEF Versions
    <3>. HIDE DEF fitting
    <3>. QED  BY <3>3, <3>4
  <2>. QED  BY <2>1, <2>2
<1>6. Chosen(wants, p.item) = Package(p.item, Max(fitting))
  BY <1>2 DEF Chosen
<1>7. p # None
  BY <1>2, PackagesAssumption
<1>. QED  BY <1>1, <1>2, <1>5, <1>6, <1>7

\* What is chosen are packages that work together.
LEMMA ChosenInside ==
    ASSUME WellFormed(catalog), NEW root, NEW wants, WantsForm(wants, root),
           NEW ps \in Workable(root), Admits(wants, ps), NEW i \in DOMAIN wants
    PROVE  Chosen(wants, i) \in ps /\ Chosen(wants, i).item = i
<1>1. PICK p \in ps : p.item = i /\ p.version \in wants[i]
  BY DEF Admits
<1>2. /\ root \in Published
      /\ wants[root.item] \subseteq {root.version}
      /\ p \in NewestWith(root)
      /\ Admissible(wants, i) = wants[i]
  BY DEF WantsForm, Workable, Admissible
<1>3. Chosen(wants, p.item) = p
  BY <1>1, <1>2, ChosenAmong
<1>. QED  BY <1>1, <1>3

\* The next call has no cycle to meet, and what it is for is there.
LEMMA NothingInTheWay ==
    ASSUME WellFormed(catalog), NEW root, NEW wants, NEW path, WantsForm(wants, root),
           PathForm(path, root, wants), PathLinked(path, wants),
           NEW ps \in Workable(root), Admits(wants, ps),
           NEW need \in Range(path[Len(path)].left)
    PROVE  /\ need.item \notin OnPath(path)
           /\ \E q \in ps : Satisfies(need, q)
<1>. DEFINE n == Len(path)
            at(k) == Chosen(wants, path[k].item)
<1>1. /\ n \in Nat \ {0} /\ DOMAIN path = 1 .. n
      /\ n \in DOMAIN path
      /\ \A k \in DOMAIN path : path[k].item \in DOMAIN wants
  BY DEF PathForm
<1>2. \A k \in DOMAIN path : at(k) \in ps /\ at(k).item = path[k].item
  BY <1>1, ChosenInside
<1>3. need \in Range(Needs(at(n)))
  BY <1>1 DEF PathLinked
<1>4. \E q \in ps : Satisfies(need, q)
  BY <1>1, <1>2, <1>3 DEF Workable, WorkTogether
<1>5. ASSUME NEW m \in DOMAIN path, need.item = path[m].item
      PROVE  FALSE
  <2>. DEFINE some == {at(k) : k \in m .. n}
  <2>1. m .. n \subseteq DOMAIN path /\ m \in m .. n /\ n \in m .. n
    BY <1>1
  <2>2. some \in (SUBSET ps) \ {{}}
    BY <1>2, <2>1
  <2>3. PICK p \in some : \A other \in Range(Needs(p)) : \A q \in some : other.item # q.item
    <3>. HIDE DEF some
    <3>. QED  BY <2>2 DEF Workable, WorkTogether
  <2>4. PICK k \in m .. n : p = at(k)
    BY <2>3
  <2>5. \A l \in m .. n : at(l) \in some /\ at(l).item = path[l].item
    BY <1>2, <2>1
  <2>6. CASE k = n
    <3>1. at(m) \in some /\ at(m).item = need.item
      BY <1>5, <2>1, <2>5
    <3>. HIDE DEF some, at
    <3>. QED  BY <1>3, <2>3, <2>4, <2>6, <3>1
  <2>7. CASE k # n
    <3>1. k + 1 \in m .. n /\ k + 1 > 1 /\ (k + 1) - 1 = k /\ k + 1 \in DOMAIN path
      BY <1>1, <2>1, <2>4, <2>7
    <3>2. PICK other \in Range(Needs(at(k))) : other.item = path[k + 1].item
      BY <3>1 DEF PathLinked
    <3>3. at(k + 1) \in some /\ at(k + 1).item = other.item
      BY <2>5, <3>1, <3>2
    <3>. HIDE DEF some, at
    <3>. QED  BY <2>3, <2>4, <3>2, <3>3
  <2>. QED  BY <2>6, <2>7
<1>. QED  BY <1>4, <1>5 DEF OnPath

\* A demand for what works together is met.
LEMMA StillAdmits ==
    ASSUME WellFormed(catalog), NEW root, NEW wants, WantsForm(wants, root),
           NEW ps \in Workable(root), Admits(wants, ps), NEW need,
           \E q \in ps : Satisfies(need, q), NEW more,
           more = Demanded(wants, need.item, need.accepts)
    PROVE  Admits(more, ps) /\ Chosen(more, need.item) # None
<1>1. PICK q \in ps : q.item = need.item /\ q.version \in need.accepts
  BY DEF Satisfies
<1>2. /\ root \in Published
      /\ root.item \in DOMAIN wants
      /\ wants[root.item] \subseteq {root.version}
      /\ \A p \in ps : p \in NewestWith(root)
  BY DEF WantsForm, Workable
<1>3. q.version \in Admissible(wants, need.item)
  <2>1. CASE need.item \in DOMAIN wants
    <3>1. PICK p \in ps : p.item = need.item /\ p.version \in wants[need.item]
      BY <2>1 DEF Admits
    <3>2. p = q
      BY <1>1, <1>2, <3>1, OneOfEach
    <3>. QED  BY <2>1, <3>1, <3>2 DEF Admissible
  <2>2. CASE need.item \notin DOMAIN wants
    <3>1. q \in Published
      BY <1>2, LatestIs DEF NewestWith
    <3>. QED  BY <2>2, <3>1, NeedsAre DEF Admissible
  <2>. QED  BY <2>1, <2>2
<1>4. /\ DOMAIN more = DOMAIN wants \cup {need.item}
      /\ more[need.item] = Admissible(wants, need.item) \cap need.accepts
      /\ \A i \in DOMAIN wants \ {need.item} : more[i] = wants[i]
  BY DEF Demanded
<1>5. q.version \in more[q.item] /\ Admissible(more, q.item) = more[q.item]
  BY <1>1, <1>3, <1>4 DEF Admissible
<1>6. Admits(more, ps)
  BY <1>1, <1>4, <1>5 DEF Admits
<1>7. q = root => Admissible(more, q.item) \subseteq {root.version}
  BY <1>1, <1>2, <1>4, <1>5 DEF Admissible
<1>8. Chosen(more, q.item) = q /\ q # None
  BY <1>2, <1>5, <1>7, ChosenAmong
<1>. QED  BY <1>1, <1>6, <1>8

-----------------------------------------------------------------------------
(***************************************************************************)
(* The calls of collect and of visit.                                      *)
(***************************************************************************)

CollectLeads(s) ==
    /\ PathLinked(s.path, s.wants)
    /\ \A ps \in Workable(s.root) : Admits(s.wants, ps)

LEMMA CallsLead ==
    ASSUME WellFormed(catalog), NEW s, CollectHeld(s), CollectLeads(s), Left(s.path) # <<>>,
           NEW need, need = Head(Left(s.path)),
           NEW wants, wants = Demanded(s.wants, need.item, need.accepts),
           NEW chosen, chosen = Chosen(wants, need.item), chosen # None,
           need.item \notin OnPath(s.path)
    PROVE  CollectLeads([s EXCEPT !.wants = wants,
                                  !.path = Append(PassedOver(s.path), Call(chosen))])
<1>. DEFINE passed == PassedOver(s.path)
            path == Append(passed, Call(chosen))
            t == [s EXCEPT !.wants = wants, !.path = path]
<1>1. t.wants = wants /\ t.path = path /\ t.root = s.root
  BY DEF CollectHeld, CollectFields
<1>2. /\ s.path \in Seq(Calls) /\ s.path # <<>>
      /\ \A k \in DOMAIN s.path : s.path[k].item \in DOMAIN s.wants
      /\ WantsForm(s.wants, s.root)
      /\ PathForm(s.path, s.root, s.wants)
  BY DEF CollectHeld, PathForm
<1>3. /\ passed \in Seq(Calls)
      /\ DOMAIN passed = DOMAIN s.path
      /\ Len(s.path) \in DOMAIN s.path
      /\ \A k \in DOMAIN s.path : passed[k].item = s.path[k].item
      /\ \A k \in DOMAIN s.path \ {Len(s.path)} : passed[k] = s.path[k]
      /\ Range(s.path[Len(s.path)].left) = {need} \cup Range(passed[Len(s.path)].left)
  BY <1>2, PassedOverIs
<1>. HIDE DEF passed
<1>4. \A k \in DOMAIN s.path : /\ passed[k].item = s.path[k].item
                               /\ Range(passed[k].left) \subseteq Range(s.path[k].left)
  BY <1>3
<1>5. ASSUME NEW k \in DOMAIN s.path
      PROVE  Chosen(wants, s.path[k].item) = Chosen(s.wants, s.path[k].item)
  <2>1. s.path[k].item \in DOMAIN s.wants \ {need.item}
    BY <1>2 DEF OnPath
  <2>2. Admissible(wants, s.path[k].item) = Admissible(s.wants, s.path[k].item)
    BY <2>1 DEF Demanded, Admissible
  <2>. QED  BY <2>2, ChosenAlike
<1>6. PathLinked(s.path, s.wants)
  BY DEF CollectLeads
<1>7. PathLinked(path, wants)
  <2>1. need \in Range(s.path[Len(s.path)].left)
    BY <1>3
  <2>2. PICK old, prior : old = s.path /\ prior = s.wants
    OBVIOUS
  <2>3. /\ old \in Seq(Calls) /\ old # <<>>
        /\ LessLeft(old, passed) /\ PathLinked(old, prior) /\ SameChoices(old, prior, wants)
        /\ need \in Range(old[Len(old)].left)
    <3>1. LessLeft(old, passed)
      BY <1>3, <1>4, <2>2 DEF LessLeft
    <3>2. SameChoices(old, prior, wants)
      BY <1>5, <2>2 DEF SameChoices
    <3>. QED  BY <1>2, <1>6, <2>1, <2>2, <3>1, <3>2
  <2>4. passed \in Seq(Calls)
    BY <1>3
  <2>5. chosen \in Published /\ chosen.item = need.item
    BY ChosenIs
  <2>6. Chosen(wants, chosen.item) = chosen
    BY <2>5
  <2>7. \E other \in Range(old[Len(old)].left) : other.item = chosen.item
    BY <2>3, <2>5
  <2>8. PathLinked(Append(passed, Call(chosen)), wants)
    BY <2>3, <2>4, <2>5, <2>6, <2>7, LinkedCalls
  <2>. QED  BY <2>8
<1>8. ASSUME NEW ps \in Workable(s.root) PROVE Admits(wants, ps)
  <2>1. Admits(s.wants, ps)
    BY DEF CollectLeads
  <2>2. \E q \in ps : Satisfies(need, q)
    BY <1>2, <1>3, <1>6, <2>1, NothingInTheWay
  <2>. QED  BY <1>2, <2>1, <2>2, StillAdmits
<1>. HIDE DEF t, path
<1>9. CollectLeads(t)
  BY <1>1, <1>7, <1>8 DEF CollectLeads
<1>. QED  BY <1>9 DEF t, path, passed

\* What works together is not refused.
LEMMA CallsAnyway ==
    ASSUME WellFormed(catalog), NEW s, CollectHeld(s), CollectLeads(s), Left(s.path) # <<>>,
           NEW need, need = Head(Left(s.path)), Workable(s.root) # {}
    PROVE  /\ need.item \notin OnPath(s.path)
           /\ Chosen(Demanded(s.wants, need.item, need.accepts), need.item) # None
<1>1. PICK ps \in Workable(s.root) : Admits(s.wants, ps)
  BY DEF CollectLeads
<1>2. /\ s.path \in Seq(Calls) /\ s.path # <<>>
      /\ WantsForm(s.wants, s.root)
      /\ PathForm(s.path, s.root, s.wants)
      /\ PathLinked(s.path, s.wants)
  BY DEF CollectHeld, CollectLeads, PathForm
<1>3. need \in Range(s.path[Len(s.path)].left)
  BY <1>2, PassedOverIs
<1>4. need.item \notin OnPath(s.path) /\ \E q \in ps : Satisfies(need, q)
  BY <1>1, <1>2, <1>3, NothingInTheWay
<1>. QED  BY <1>1, <1>2, <1>4, StillAdmits

LEMMA CollectReturnLeads ==
    ASSUME NEW s, CollectHeld(s), CollectLeads(s), Len(s.path) > 1
    PROVE  CollectLeads([s EXCEPT !.path = Front(s.path)])
<1>. DEFINE t == [s EXCEPT !.path = Front(s.path)]
<1>1. t.wants = s.wants /\ t.path = Front(s.path) /\ t.root = s.root
  BY DEF CollectHeld, CollectFields
<1>2. PathLinked(Front(s.path), s.wants)
  BY LinkedReturns DEF CollectHeld, PathForm, CollectLeads
<1>. HIDE DEF t
<1>3. CollectLeads(t)
  BY <1>1, <1>2 DEF CollectLeads
<1>. QED  BY <1>3 DEF t

\* What is in order comes after what it depends on.
OrderHeld(order, wants) ==
    /\ order \in Seq(Items)
    /\ Range(order) \subseteq DOMAIN wants
    /\ \A k \in DOMAIN order :
          /\ \A j \in 1 .. k - 1 : order[j] # order[k]
          /\ \A need \in Range(Needs(Chosen(wants, order[k]))) :
                \E j \in 1 .. k - 1 : order[j] = need.item

\* The calls are about items that are not in order yet, and have left what is
\* not in order before them.
CallsHeld(path, order, wants) ==
    \A k \in DOMAIN path :
       /\ path[k].item \notin Range(order)
       /\ \A need \in Range(Needs(Chosen(wants, path[k].item))) :
             need \in Range(path[k].left) \/ need.item \in Range(order)

VisitFields == CollectFields \cup {"order"}

VisitHeld(s) ==
    /\ DOMAIN s = VisitFields
    /\ WantsForm(s.wants, s.root)
    /\ PathForm(s.path, s.root, s.wants)
    /\ Closed(s.wants)
    /\ OrderHeld(s.order, s.wants)
    /\ CallsHeld(s.path, s.order, s.wants)
    /\ CollectLeads(s)

LEMMA VisitStarts ==
    ASSUME WellFormed(catalog), NEW s, CollectHeld(s), CollectLeads(s),
           Left(s.path) = <<>>, ~(Len(s.path) > 1),
           NEW t, t = [op |-> "visit", root |-> s.root, wants |-> s.wants,
                       path |-> <<Call(Chosen(s.wants, s.root.item))>>, order |-> <<>>,
                       flags |-> s.flags, pending |-> s.pending, applied |-> s.applied]
    PROVE  VisitHeld(t)
<1>. DEFINE p == Chosen(s.wants, s.root.item)
            path == <<Call(p)>>
<1>1. WantsForm(s.wants, s.root) /\ Closed(s.wants)
  BY CollectEnds DEF CollectHeld
<1>2. p \in Published /\ p.item = s.root.item
  BY <1>1, ChosenIs DEF WantsForm
<1>3. Call(p) \in Calls /\ Call(p).item = s.root.item /\ Call(p).left = Needs(p)
  BY <1>2, CallIs
<1>4. path \in Seq(Calls) /\ path # <<>> /\ DOMAIN path = {1} /\ path[1] = Call(p)
  <2>. HIDE DEF p
  <2>. QED  BY <1>3
<1>5. PathForm(path, s.root, s.wants)
  BY <1>1, <1>3, <1>4 DEF PathForm, WantsForm
<1>6. PathLinked(path, s.wants)
  BY <1>3, <1>4 DEF PathLinked
<1>7. OrderHeld(<<>>, s.wants) /\ CallsHeld(path, <<>>, s.wants)
  <2>1. Range(<<>>) = {} /\ <<>> \in Seq(Items) /\ DOMAIN <<>> = {}
    BY DEF Range
  <2>. QED  BY <1>3, <1>4, <2>1 DEF OrderHeld, CallsHeld
<1>8. /\ DOMAIN t = VisitFields /\ t.wants = s.wants /\ t.root = s.root
      /\ t.path = path /\ t.order = <<>>
  BY DEF VisitFields, CollectFields
<1>. HIDE DEF path, p
<1>9. CollectLeads(t)
  BY <1>6, <1>8 DEF CollectLeads
<1>. QED  BY <1>1, <1>5, <1>7, <1>8, <1>9 DEF VisitHeld

\* The next dependency is one of what is chosen, and is chosen too.
LEMMA VisitNeeds ==
    ASSUME NEW s, VisitHeld(s), Left(s.path) # <<>>
    PROVE  /\ s.path \in Seq(Calls) /\ s.path # <<>>
           /\ Len(s.path) \in DOMAIN s.path
           /\ Head(Left(s.path)) \in Range(s.path[Len(s.path)].left)
           /\ Head(Left(s.path)).item \in DOMAIN s.wants
           /\ Chosen(s.wants, Head(Left(s.path)).item) # None
<1>. DEFINE n == Len(s.path)
            need == Head(Left(s.path))
<1>1. /\ s.path \in Seq(Calls) /\ s.path # <<>>
      /\ \A k \in DOMAIN s.path : s.path[k].item \in DOMAIN s.wants
  BY DEF VisitHeld, PathForm
<1>2. n \in DOMAIN s.path /\ need \in Range(s.path[n].left)
  BY <1>1, PassedOverIs
<1>. HIDE DEF n, need
<1>3. need \in Range(Needs(Chosen(s.wants, s.path[n].item)))
  BY <1>2 DEF VisitHeld, CollectLeads, PathLinked
<1>4. Met(s.wants, need)
  BY <1>1, <1>2, <1>3 DEF VisitHeld, Closed
<1>5. need.item \in DOMAIN s.wants /\ Chosen(s.wants, need.item) # None
  BY <1>4 DEF Met, VisitHeld, WantsForm
<1>. QED  BY <1>1, <1>2, <1>5 DEF n, need

LEMMA VisitPasses ==
    ASSUME NEW s, VisitHeld(s), Left(s.path) # <<>>, Head(Left(s.path)).item \in Range(s.order)
    PROVE  VisitHeld([s EXCEPT !.path = PassedOver(s.path)])
<1>. DEFINE n == Len(s.path)
            passed == PassedOver(s.path)
            t == [s EXCEPT !.path = passed]
<1>1. s.path \in Seq(Calls) /\ s.path # <<>> /\ n \in DOMAIN s.path
  BY VisitNeeds
<1>2. /\ passed \in Seq(Calls) /\ passed # <<>>
      /\ DOMAIN passed = DOMAIN s.path
      /\ \A k \in DOMAIN s.path : passed[k].item = s.path[k].item
      /\ \A k \in DOMAIN s.path \ {n} : passed[k] = s.path[k]
      /\ Range(s.path[n].left) = {Head(Left(s.path))} \cup Range(passed[n].left)
  BY <1>1, PassedOverIs
<1>3. PathLinked(passed, s.wants)
  BY <1>1, LinkedPassed DEF VisitHeld, CollectLeads
<1>4. /\ DOMAIN t = VisitFields /\ t.wants = s.wants /\ t.root = s.root
      /\ t.path = passed /\ t.order = s.order
  BY DEF VisitHeld, VisitFields, CollectFields
<1>. HIDE DEF t, passed, n
<1>5. 1 \in DOMAIN s.path
  BY <1>1
<1>6. PathForm(passed, s.root, s.wants)
  BY <1>2, <1>5 DEF VisitHeld, PathForm
<1>7. ASSUME NEW k \in DOMAIN s.path, NEW need \in Range(Needs(Chosen(s.wants, passed[k].item)))
      PROVE  need \in Range(passed[k].left) \/ need.item \in Range(s.order)
  <2>1. need \in Range(s.path[k].left) \/ need.item \in Range(s.order)
    BY <1>2 DEF VisitHeld, CallsHeld
  <2>. QED  BY <1>2, <2>1
<1>8. CallsHeld(passed, s.order, s.wants)
  BY <1>2, <1>7 DEF VisitHeld, CallsHeld
<1>9. CollectLeads(t)
  BY <1>3, <1>4 DEF VisitHeld, CollectLeads
<1>10. VisitHeld(t)
  BY <1>4, <1>6, <1>8, <1>9 DEF VisitHeld
<1>. QED  BY <1>10 DEF t, passed

LEMMA VisitCalls ==
    ASSUME WellFormed(catalog), NEW s, VisitHeld(s), Left(s.path) # <<>>,
           NEW i, i = Head(Left(s.path)).item, i \notin Range(s.order),
           i \notin OnPath(s.path), NEW chosen, chosen = Chosen(s.wants, i)
    PROVE  VisitHeld([s EXCEPT !.path = Append(s.path, Call(chosen))])
<1>. DEFINE n == Len(s.path)
            path == Append(s.path, Call(chosen))
            t == [s EXCEPT !.path = path]
<1>1. /\ s.path \in Seq(Calls) /\ s.path # <<>> /\ n \in DOMAIN s.path
      /\ Head(Left(s.path)) \in Range(s.path[n].left)
      /\ i \in DOMAIN s.wants
      /\ chosen # None
  BY VisitNeeds
<1>2. chosen \in Published /\ chosen.item = i
  BY <1>1, ChosenIs
<1>3. Call(chosen) \in Calls /\ Call(chosen).item = i /\ Call(chosen).left = Needs(chosen)
  BY <1>2, CallIs
<1>4. /\ n \in Nat /\ DOMAIN s.path = 1 .. n
      /\ DOMAIN path = 1 .. n + 1
      /\ path[n + 1] = Call(chosen)
      /\ \A k \in 1 .. n : path[k] = s.path[k]
  BY <1>1, <1>3, Appended
<1>5. PathForm(s.path, s.root, s.wants) /\ PathLinked(s.path, s.wants)
  BY DEF VisitHeld, CollectLeads
<1>6. PathForm(path, s.root, s.wants)
  BY <1>1, <1>3, <1>5, FormCalls
<1>7. PathLinked(path, s.wants)
  <2>1. \E need \in Range(s.path[n].left) : need.item = chosen.item
    BY <1>1, <1>2
  <2>2. LessLeft(s.path, s.path) /\ SameChoices(s.path, s.wants, s.wants)
    BY DEF LessLeft, SameChoices
  <2>3. PICK old, prior : old = s.path /\ prior = s.wants
    OBVIOUS
  <2>4. /\ old \in Seq(Calls) /\ old # <<>> /\ LessLeft(old, old)
        /\ PathLinked(old, prior) /\ SameChoices(old, prior, prior)
    BY <1>1, <1>5, <2>2, <2>3
  <2>5. /\ Chosen(prior, chosen.item) = chosen
        /\ \E need \in Range(old[Len(old)].left) : need.item = chosen.item
    BY <1>2, <2>1, <2>3
  <2>6. PathLinked(Append(old, Call(chosen)), prior)
    BY <1>2, <2>4, <2>5, LinkedCalls
  <2>. QED  BY <2>3, <2>6
<1>8. /\ DOMAIN t = VisitFields /\ t.wants = s.wants /\ t.root = s.root
      /\ t.path = path /\ t.order = s.order
  BY DEF VisitHeld, VisitFields, CollectFields
<1>. HIDE DEF t, path, n
<1>9. CallsHeld(path, s.order, s.wants)
  <2>1. ASSUME NEW k \in 1 .. n + 1
        PROVE  /\ path[k].item \notin Range(s.order)
               /\ \A need \in Range(Needs(Chosen(s.wants, path[k].item))) :
                     need \in Range(path[k].left) \/ need.item \in Range(s.order)
    <3>1. CASE k = n + 1
      BY <1>3, <1>4, <3>1
    <3>2. CASE k # n + 1
      <4>1. k \in DOMAIN s.path /\ path[k] = s.path[k]
        BY <1>4, <3>2
      <4>. QED  BY <4>1 DEF VisitHeld, CallsHeld
    <3>. QED  BY <3>1, <3>2
  <2>. QED  BY <1>4, <2>1 DEF CallsHeld
<1>10. CollectLeads(t)
  BY <1>7, <1>8 DEF VisitHeld, CollectLeads
<1>11. VisitHeld(t)
  BY <1>6, <1>8, <1>9, <1>10 DEF VisitHeld
<1>. QED  BY <1>11 DEF t, path

LEMMA VisitsAnyway ==
    ASSUME WellFormed(catalog), NEW s, VisitHeld(s), Left(s.path) # <<>>, Workable(s.root) # {}
    PROVE  Head(Left(s.path)).item \notin OnPath(s.path)
<1>1. PICK ps \in Workable(s.root) : Admits(s.wants, ps)
  BY DEF VisitHeld, CollectLeads
<1>2. Head(Left(s.path)) \in Range(s.path[Len(s.path)].left)
  BY VisitNeeds
<1>. QED  BY <1>1, <1>2, NothingInTheWay DEF VisitHeld, CollectLeads

LEMMA OrderGrows ==
    ASSUME NEW s, VisitHeld(s), Left(s.path) = <<>>,
           NEW item, item = Last(s.path).item
    PROVE  /\ OrderHeld(Append(s.order, item), s.wants)
           /\ s.order \in Seq(Items)
           /\ item \in Items
           /\ Range(Append(s.order, item)) = Range(s.order) \cup {item}
<1>. DEFINE n == Len(s.path)
            m == Len(s.order)
            order == Append(s.order, item)
<1>1. /\ s.path \in Seq(Calls) /\ s.path # <<>>
      /\ \A k \in DOMAIN s.path : s.path[k].item \in DOMAIN s.wants
      /\ s.order \in Seq(Items)
      /\ Range(s.order) \subseteq DOMAIN s.wants
  BY DEF VisitHeld, PathForm, OrderHeld
<1>2. /\ n \in DOMAIN s.path
      /\ item = s.path[n].item
      /\ s.path[n].left = <<>>
      /\ item \in Items
  <2>1. n \in DOMAIN s.path /\ s.path[n] \in Calls
    BY <1>1
  <2>. QED  BY <2>1 DEF Left, Last, Calls
<1>3. /\ order \in Seq(Items)
      /\ m \in Nat
      /\ DOMAIN s.order = 1 .. m
      /\ DOMAIN order = 1 .. m + 1
      /\ order[m + 1] = item
      /\ \A k \in 1 .. m : order[k] = s.order[k]
      /\ Range(order) = Range(s.order) \cup {item}
  BY <1>1, <1>2, Appended
<1>. HIDE DEF order, m, n
<1>4. item \notin Range(s.order) /\ item \in DOMAIN s.wants
  BY <1>1, <1>2 DEF VisitHeld, CallsHeld
<1>5. ASSUME NEW need \in Range(Needs(Chosen(s.wants, item)))
      PROVE  \E j \in 1 .. m : order[j] = need.item
  <2>1. Range(s.path[n].left) = {}
    BY <1>2 DEF Range
  <2>2. need.item \in Range(s.order)
    BY <1>2, <2>1 DEF VisitHeld, CallsHeld
  <2>. QED  BY <1>3, <2>2 DEF Range
<1>6. ASSUME NEW k \in 1 .. m + 1
      PROVE  /\ \A j \in 1 .. k - 1 : order[j] # order[k]
             /\ \A need \in Range(Needs(Chosen(s.wants, order[k]))) :
                   \E j \in 1 .. k - 1 : order[j] = need.item
  <2>1. CASE k = m + 1
    <3>1. k - 1 = m
      BY <1>3, <2>1
    <3>2. \A j \in 1 .. m : order[j] # item
      BY <1>3, <1>4 DEF Range
    <3>. QED  BY <1>3, <1>5, <2>1, <3>1, <3>2
  <2>2. CASE k # m + 1
    <3>1. k \in 1 .. m
      BY <1>3, <2>2
    <3>2. \A j \in 1 .. k - 1 : j \in 1 .. m
      BY <1>3, <3>1
    <3>3. /\ \A j \in 1 .. k - 1 : s.order[j] # s.order[k]
          /\ \A need \in Range(Needs(Chosen(s.wants, s.order[k]))) :
                \E j \in 1 .. k - 1 : s.order[j] = need.item
      BY <1>3, <3>1 DEF VisitHeld, OrderHeld
    <3>. QED  BY <1>3, <3>1, <3>2, <3>3
  <2>. QED  BY <2>1, <2>2
<1>7. OrderHeld(order, s.wants)
  BY <1>1, <1>3, <1>4, <1>6 DEF OrderHeld
<1>. QED  BY <1>1, <1>2, <1>3, <1>7 DEF order

LEMMA VisitReturned ==
    ASSUME NEW s, VisitHeld(s), Left(s.path) = <<>>, Len(s.path) > 1,
           NEW item, item = Last(s.path).item
    PROVE  VisitHeld([s EXCEPT !.path = Front(s.path), !.order = Append(s.order, item)])
<1>. DEFINE n == Len(s.path)
            path == Front(s.path)
            order == Append(s.order, item)
            t == [s EXCEPT !.path = path, !.order = order]
<1>1. OrderHeld(order, s.wants) /\ Range(order) = Range(s.order) \cup {item}
  BY OrderGrows
<1>2. /\ DOMAIN t = VisitFields /\ t.wants = s.wants /\ t.root = s.root
      /\ t.path = path /\ t.order = order
  BY DEF VisitHeld, VisitFields, CollectFields
<1>3. PathForm(path, s.root, s.wants)
  BY FormReturns DEF VisitHeld
<1>4. PathLinked(path, s.wants)
  BY LinkedReturns DEF VisitHeld, PathForm, CollectLeads
<1>5. /\ n \in Nat /\ DOMAIN s.path = 1 .. n
      /\ DOMAIN path = 1 .. n - 1
      /\ \A k \in 1 .. n - 1 : path[k] = s.path[k]
      /\ \A k, l \in DOMAIN s.path : s.path[k].item = s.path[l].item => k = l
      /\ item = s.path[n].item
  <2>1. s.path \in Seq(Calls)
    BY DEF VisitHeld, PathForm
  <2>2. \A k, l \in DOMAIN s.path : s.path[k].item = s.path[l].item => k = l
    BY DEF VisitHeld, PathForm
  <2>. QED  BY <2>1, <2>2, FrontIs DEF Last
<1>6. n > 1
  OBVIOUS
<1>. HIDE DEF t, path, order, n
<1>7. ASSUME NEW k \in 1 .. n - 1
      PROVE  /\ path[k].item \notin Range(order)
             /\ \A need \in Range(Needs(Chosen(s.wants, path[k].item))) :
                   need \in Range(path[k].left) \/ need.item \in Range(order)
  <2>1. k \in 1 .. n /\ n \in 1 .. n /\ k # n
    BY <1>5, <1>6
  <2>2. s.path[k].item # item
    BY <1>5, <2>1
  <2>. QED  BY <1>1, <1>5, <2>1, <2>2 DEF VisitHeld, CallsHeld
<1>8. CallsHeld(path, order, s.wants)
  BY <1>5, <1>7 DEF CallsHeld
<1>9. CollectLeads(t)
  BY <1>2, <1>4 DEF VisitHeld, CollectLeads
<1>10. VisitHeld(t)
  BY <1>1, <1>2, <1>3, <1>8, <1>9 DEF VisitHeld
<1>. QED  BY <1>10 DEF t, path, order

-----------------------------------------------------------------------------
(***************************************************************************)
(* What resolve answers.                                                   *)
(***************************************************************************)

ChainHeld(chain, root) ==
    /\ Last(chain) = root
    /\ \A k \in DOMAIN chain :
          /\ \A j \in 1 .. k - 1 : chain[j].item # chain[k].item
          /\ \A need \in Range(Needs(chain[k])) :
                \E j \in 1 .. k - 1 : Satisfies(need, chain[j])

GateFields == {"op", "root", "chain", "flags", "pending", "applied"}

GateHeld(s) ==
    /\ DOMAIN s = GateFields
    /\ s.root \in Published
    /\ s.chain \in Seq(Published)
    /\ s.chain # <<>> => ChainHeld(s.chain, s.root)
    /\ \A ps \in Workable(s.root) : s.chain # <<>> /\ Range(s.chain) \subseteq ps

LEMMA RefusedHeld ==
    ASSUME NEW s, s.root \in Published, Workable(s.root) = {}
    PROVE  GateHeld(Refused(s))
<1>1. PICK t : t = Refused(s)
  OBVIOUS
<1>2. DOMAIN t = GateFields /\ t.root = s.root /\ t.chain = <<>>
  BY <1>1 DEF Refused, Resolved, GateFields
<1>3. GateHeld(t)
  BY <1>2 DEF GateHeld
<1>. QED  BY <1>1, <1>3

LEMMA RootChosen ==
    ASSUME WellFormed(catalog), NEW root, NEW wants, WantsForm(wants, root)
    PROVE  Chosen(wants, root.item) = root
<1>1. /\ root \in Published
      /\ root.item \in DOMAIN wants
      /\ wants[root.item] \subseteq {root.version}
      /\ Chosen(wants, root.item) # None
  BY DEF WantsForm
<1>2. /\ Chosen(wants, root.item) \in Published
      /\ Chosen(wants, root.item).item = root.item
      /\ Chosen(wants, root.item).version = root.version
  BY <1>1, ChosenIs DEF Admissible
<1>. QED  BY <1>1, <1>2, NeedsAre

\* When the first call of visit returns, the chain is in order.
LEMMA VisitEnds ==
    ASSUME WellFormed(catalog), NEW s, VisitHeld(s), Left(s.path) = <<>>, ~(Len(s.path) > 1),
           NEW order, order = Append(s.order, Last(s.path).item)
    PROVE  GateHeld(Resolved(s, [k \in DOMAIN order |-> Chosen(s.wants, order[k])]))
<1>. DEFINE chain == [k \in DOMAIN order |-> Chosen(s.wants, order[k])]
            m == Len(s.order) + 1
<1>1. /\ s.path \in Seq(Calls) /\ s.path # <<>> /\ s.path[1].item = s.root.item
      /\ WantsForm(s.wants, s.root)
      /\ Closed(s.wants)
  BY DEF VisitHeld, PathForm
<1>2. Last(s.path).item = s.root.item
  <2>1. PICK n : n = Len(s.path)
    OBVIOUS
  <2>2. n \in Nat \ {0} /\ ~(n > 1)
    BY <1>1, <2>1
  <2>3. n = 1
    BY <2>2
  <2>. QED  BY <1>1, <2>1, <2>3 DEF Last
<1>3. /\ OrderHeld(order, s.wants)
      /\ s.order \in Seq(Items)
      /\ s.root.item \in Items
  BY <1>2, OrderGrows
<1>4. /\ m \in Nat \ {0}
      /\ order \in Seq(Items)
      /\ Len(order) = m
      /\ DOMAIN order = 1 .. m
      /\ order[m] = s.root.item
  BY <1>2, <1>3, Appended
<1>. HIDE DEF m
<1>5. ASSUME NEW k \in 1 .. m
      PROVE  /\ order[k] \in DOMAIN s.wants
             /\ chain[k] = Chosen(s.wants, order[k])
             /\ chain[k] \in Published
             /\ chain[k].item = order[k]
  <2>1. order[k] \in DOMAIN s.wants
    BY <1>3, <1>4 DEF OrderHeld, Range
  <2>2. Chosen(s.wants, order[k]) # None
    BY <1>1, <2>1 DEF WantsForm
  <2>. QED  BY <1>4, <2>1, <2>2, ChosenIs
<1>6. /\ chain \in Seq(Published)
      /\ Len(chain) = m
      /\ DOMAIN chain = 1 .. m
      /\ chain # <<>>
  <2>1. DOMAIN chain = 1 .. m
    BY <1>4
  <2>. HIDE DEF chain
  <2>2. chain = [k \in 1 .. m |-> chain[k]]
    BY <1>4, <2>1 DEF chain
  <2>3. chain \in Seq(Published)
    BY <1>4, <1>5, <2>2
  <2>4. Len(chain) = m
    BY <1>4, <2>1, <2>3
  <2>. QED  BY <1>4, <2>1, <2>3, <2>4
<1>. HIDE DEF chain
<1>7. Last(chain) = s.root
  <2>1. Last(chain) = chain[m]
    BY <1>6 DEF Last
  <2>2. chain[m] = Chosen(s.wants, s.root.item)
    BY <1>4, <1>5
  <2>. QED  BY <1>1, <2>1, <2>2, RootChosen
<1>8. ASSUME NEW k \in 1 .. m
      PROVE  /\ \A j \in 1 .. k - 1 : chain[j].item # chain[k].item
             /\ \A need \in Range(Needs(chain[k])) :
                   \E j \in 1 .. k - 1 : Satisfies(need, chain[j])
  <2>1. \A j \in 1 .. k - 1 : j \in 1 .. m
    BY <1>4
  <2>2. ASSUME NEW j \in 1 .. k - 1 PROVE chain[j].item # chain[k].item
    <3>1. order[j] # order[k]
      BY <1>3, <1>4 DEF OrderHeld
    <3>. QED  BY <1>5, <2>1, <3>1
  <2>3. ASSUME NEW need \in Range(Needs(chain[k]))
        PROVE  \E j \in 1 .. k - 1 : Satisfies(need, chain[j])
    <3>1. need \in Range(Needs(Chosen(s.wants, order[k])))
      BY <1>5
    <3>2. PICK j \in 1 .. k - 1 : order[j] = need.item
      <4>1. k \in DOMAIN order
        BY <1>4
      <4>2. \A other \in Range(Needs(Chosen(s.wants, order[k]))) :
               \E j \in 1 .. k - 1 : order[j] = other.item
        BY <1>3, <4>1 DEF OrderHeld
      <4>. QED  BY <3>1, <4>2
    <3>3. Met(s.wants, need)
      BY <1>1, <1>5, <3>1 DEF Closed
    <3>4. /\ chain[j] = Chosen(s.wants, need.item)
          /\ chain[j].item = need.item
          /\ chain[j] # None
      BY <1>1, <1>5, <2>1, <3>2, <3>3 DEF WantsForm, Met
    <3>5. Chosen(s.wants, need.item).version \in Admissible(s.wants, need.item)
      BY <3>4, ChosenIs
    <3>6. chain[j].version \in need.accepts
      BY <3>3, <3>4, <3>5 DEF Met, Admissible
    <3>. QED  BY <3>4, <3>6 DEF Satisfies
  <2>. QED  BY <2>2, <2>3
<1>9. ChainHeld(chain, s.root)
  BY <1>6, <1>7, <1>8 DEF ChainHeld
<1>10. ASSUME NEW ps \in Workable(s.root) PROVE Range(chain) \subseteq ps
  <2>1. Admits(s.wants, ps)
    BY DEF VisitHeld, CollectLeads
  <2>2. ASSUME NEW k \in 1 .. m PROVE chain[k] \in ps
    <3>1. PICK i, wants : i = order[k] /\ wants = s.wants
      OBVIOUS
    <3>2. i \in DOMAIN wants /\ chain[k] = Chosen(wants, i)
      BY <1>5, <3>1
    <3>3. WantsForm(wants, s.root) /\ Admits(wants, ps)
      BY <1>1, <2>1, <3>1
    <3>. QED  BY <3>2, <3>3, ChosenInside
  <2>. QED  BY <1>6, <2>2 DEF Range
<1>11. PICK t : t = Resolved(s, chain)
  OBVIOUS
<1>12. DOMAIN t = GateFields /\ t.root = s.root /\ t.chain = chain
  BY <1>11 DEF Resolved, GateFields
<1>13. GateHeld(t)
  BY <1>1, <1>6, <1>9, <1>10, <1>12 DEF GateHeld, WantsForm
<1>. QED  BY <1>11, <1>13 DEF chain

-----------------------------------------------------------------------------
(***************************************************************************)
(* The requests for packages. One process serves them, one at a time.      *)
(***************************************************************************)

ResolveOps == {"collect", "visit", "gate"}
StoreOps == {"install", "write", "save", "fill", "remove"}
PackageOps == ResolveOps \cup StoreOps

OneAtATime ==
    /\ \A q, r \in Requests :
          process[q] = process[r] /\ serving[q] # Idle /\ serving[r] # Idle => q = r
    /\ catalog = <<>> \/ \A q, r \in Requests : process[q] = process[r]
    /\ catalog = <<>> => \A r \in Requests : serving[r].op \notin PackageOps

LEMMA OthersIdle ==
    ASSUME OneAtATime, NEW r \in Requests,
           serving[r].op \in PackageOps \/ (catalog # <<>> /\ \E desk : MayStart(r, desk))
    PROVE  /\ \A q \in Requests \ {r} : serving[q] = Idle
           /\ \A q \in Requests : process[q] = process[r]
           /\ catalog # <<>>
<1>1. catalog # <<>> /\ \A q \in Requests : process[q] = process[r]
  BY DEF OneAtATime
<1>2. CASE serving[r].op \in PackageOps
  <2>1. serving[r] # Idle
    BY <1>2 DEF Idle, PackageOps, ResolveOps, StoreOps
  <2>. QED  BY <1>1, <2>1 DEF OneAtATime
<1>3. CASE \E desk : MayStart(r, desk)
  BY <1>1, <1>3 DEF MayStart
<1>. QED  BY <1>1, <1>2, <1>3

\* A request is begun where nothing else is, or goes on.
LEMMA CrowdKept ==
    ASSUME OneAtATime, NEW r \in Requests, Turn(r), UNCHANGED catalog,
           serving[r] # Idle \/ \E desk : MayStart(r, desk),
           catalog = <<>> => serving'[r].op \notin PackageOps
    PROVE  OneAtATime'
<1>1. ASSUME NEW q \in Requests, NEW t \in Requests, process[q] = process[t],
             serving'[q] # Idle, serving'[t] # Idle
      PROVE  q = t
  BY <1>1 DEF OneAtATime, Turn, MayStart
<1>. QED  BY <1>1 DEF OneAtATime, Turn

LEMMA SignInTurns ==
    ASSUME ServingForm, NEW r \in Requests, SignInsStep(r)
    PROVE  /\ Turn(r)
           /\ serving[r] # Idle \/ \E desk : MayStart(r, desk)
           /\ serving[r].op \in SignInOps \cup {"idle"}
           /\ serving'[r].op \in SignInOps \cup {"idle"}
<1>1. \/ \E request : /\ Starts(r, "signins", request)
                      /\ request.op \in SignInOps \cup {"idle"}
      \/ \E request : /\ Continues(r, request)
                      /\ request.op \in SignInOps \cup {"idle"}
                      /\ serving[r].op \in SignInOps
  <2>1. CASE SignInsProgress(r)
    BY <2>1
    DEF SignInsProgress, OpenSession, Burn, Revoke, Answers, Idle, SignInOps
  <2>2. ASSUME \/ Starts(r, "signins", Idle)
               \/ \E u, v : Starts(r, "signins", [op |-> "open", user |-> u, proved |-> v])
               \/ \E u : Starts(r, "signins", [op |-> "burn", user |-> u])
               \/ \E u : Starts(r, "signins", [op |-> "revoke", user |-> u])
        PROVE  \E request : /\ Starts(r, "signins", request)
                            /\ request.op \in SignInOps \cup {"idle"}
    <3>1. CASE Starts(r, "signins", Idle)
      BY <3>1 DEF Idle
    <3>2. ASSUME NEW u, NEW v, Starts(r, "signins", [op |-> "open", user |-> u, proved |-> v])
          PROVE  \E request : /\ Starts(r, "signins", request)
                              /\ request.op \in SignInOps \cup {"idle"}
      BY <3>2 DEF SignInOps
    <3>3. ASSUME NEW u, Starts(r, "signins", [op |-> "burn", user |-> u])
          PROVE  \E request : /\ Starts(r, "signins", request)
                              /\ request.op \in SignInOps \cup {"idle"}
      BY <3>3 DEF SignInOps
    <3>4. ASSUME NEW u, Starts(r, "signins", [op |-> "revoke", user |-> u])
          PROVE  \E request : /\ Starts(r, "signins", request)
                              /\ request.op \in SignInOps \cup {"idle"}
      BY <3>4 DEF SignInOps
    <3>. QED  BY <2>2, <3>1, <3>2, <3>3, <3>4
  <2>3. CASE \E u \in Users : \/ Login(r, u)
                              \/ \E l \in Links : Mint(r, u, l)
                              \/ Deactivate(r, u)
                              \/ Activate(r, u)
                              \/ RemoveMember(r, u)
                              \/ Readmit(r, u)
    BY <2>2, <2>3 DEF Login, Mint, Deactivate, Activate, RemoveMember, Readmit
  <2>4. CASE \/ \E t \in Tokens : Logout(r, t)
             \/ \E l \in Links : Reset(r, l)
    BY <2>2, <2>4 DEF Logout, Reset
  <2>. QED  BY <2>1, <2>3, <2>4 DEF SignInsStep
<1>2. CASE \E request : /\ Starts(r, "signins", request)
                        /\ request.op \in SignInOps \cup {"idle"}
  <2>1. PICK request : Starts(r, "signins", request) /\ request.op \in SignInOps \cup {"idle"}
    BY <1>2
  <2>2. serving[r] = Idle /\ MayStart(r, "signins")
    BY <2>1, IdleBefore DEF Starts
  <2>. QED  BY <2>1, <2>2, Turns DEF Idle
<1>3. CASE \E request : /\ Continues(r, request)
                        /\ request.op \in SignInOps \cup {"idle"}
                        /\ serving[r].op \in SignInOps
  BY <1>3, Turns DEF Idle, SignInOps
<1>. QED  BY <1>1, <1>2, <1>3

-----------------------------------------------------------------------------
(***************************************************************************)
(* What the requests for packages hold.                                    *)
(***************************************************************************)

\* What is recorded is published.
Books == {book \in [Items -> Nat] :
            \A i \in Items : book[i] # 0 => i \in DOMAIN catalog /\ book[i] \in DOMAIN catalog[i]}

\* What there is to install has its dependencies before it, or on record where
\* the rest of it does not touch them.
TodoHeld(todo, book) ==
    /\ todo \in Seq(Published)
    /\ \A k \in DOMAIN todo :
          /\ \A j \in 1 .. k - 1 : todo[j].item # todo[k].item
          /\ \A need \in Range(Needs(todo[k])) :
                \/ \E j \in 1 .. k - 1 : Satisfies(need, todo[j])
                \/ /\ book[need.item] \in need.accepts
                   /\ \A j \in DOMAIN todo : todo[j].item # need.item

\* What the book has new comes with its dependencies.
AfterNeeds(book) ==
    \A i \in Items :
       book[i] \notin {0, records[i]} =>
          \A need \in Range(Needs(Package(i, book[i]))) : book[need.item] \in need.accepts

\* What is pending behind a request are items there are.
Several(s) == "pending" \in DOMAIN s /\ (s.pending = Alone \/ s.pending \subseteq DOMAIN catalog)

StoreHeld(s) ==
    /\ {"op", "root", "todo", "book"} \subseteq DOMAIN s
    /\ s.book \in Books
    /\ TodoHeld(s.todo, s.book)
    /\ s.op \in {"install", "write"} => s.book = Loaded
    /\ s.op = "write" => s.todo # <<>>
    /\ s.op \in {"save", "fill", "remove"} => AfterNeeds(s.book)

PackagesHeld(s) ==
    /\ s.op = "collect" => CollectHeld(s) /\ CollectLeads(s)
    /\ s.op = "visit" => VisitHeld(s)
    /\ s.op = "gate" => GateHeld(s)
    /\ s.op \in StoreOps => StoreHeld(s)
    /\ s.op \in PackageOps => Several(s)
    /\ s.op = "updates" => "pending" \in DOMAIN s /\ s.pending \subseteq DOMAIN catalog

StoreInv ==
    /\ ServingForm
    /\ OneAtATime
    /\ WellFormed(catalog)
    /\ records \in Books
    /\ \A r \in Requests : PackagesHeld(serving[r])

LEMMA HeldIdly ==
    ASSUME NEW s, s.op \notin PackageOps \cup {"updates"}
    PROVE  PackagesHeld(s)
  BY DEF PackagesHeld, PackageOps, ResolveOps, StoreOps

LEMMA LoadedIs ==
    ASSUME records \in Books
    PROVE  Loaded \in Books /\ \A i \in Items : Loaded[i] \in {0, records[i]}
  BY DEF Loaded, Books

LEMMA HeldStays ==
    ASSUME UNCHANGED <<catalog, records, torn>>, NEW s
    PROVE  PackagesHeld(s)' <=> PackagesHeld(s)
<1>1. (CollectHeld(s) /\ CollectLeads(s))' <=> (CollectHeld(s) /\ CollectLeads(s))
  BY DEF CollectHeld, CollectLeads, WantsForm, PathForm, PathLinked, Workable, WorkTogether,
         NewestWith, Latest, Ahead, Met, Chosen, Needs, Published, Admits, Admissible
<1>2. VisitHeld(s)' <=> VisitHeld(s)
  BY DEF VisitHeld, CollectLeads, WantsForm, PathForm, PathLinked, Workable, WorkTogether,
         NewestWith, Latest, Closed, Met, Chosen, Needs, Published, Admits, Admissible,
         OrderHeld, CallsHeld
<1>3. GateHeld(s)' <=> GateHeld(s)
  BY DEF GateHeld, ChainHeld, Workable, WorkTogether, NewestWith, Latest, Needs, Published
<1>4. StoreHeld(s)' <=> StoreHeld(s)
  BY DEF StoreHeld, Books, TodoHeld, AfterNeeds, Loaded, Needs, Published
<1>5. Several(s)' <=> Several(s)
  BY DEF Several
<1>. QED  BY <1>1, <1>2, <1>3, <1>4, <1>5 DEF PackagesHeld

\* A step of a request that changes no record.
LEMMA HeldTurns ==
    ASSUME StoreInv, NEW r \in Requests, Turn(r), UNCHANGED <<catalog, records, torn>>,
           serving[r] # Idle \/ \E desk : MayStart(r, desk),
           NEW request, serving'[r] = request, PackagesHeld(request), Requested(request),
           request.op \in PackageOps => catalog # <<>>
    PROVE  StoreInv'
<1>1. ServingForm'
  BY FormKept DEF StoreInv
<1>2. OneAtATime'
  BY CrowdKept DEF StoreInv
<1>3. WellFormed(catalog)'
  BY DEF StoreInv
<1>4. (records \in Books)'
  BY DEF StoreInv, Books
<1>5. ASSUME NEW q \in Requests PROVE PackagesHeld(serving[q])'
  <2>1. PICK s : s = serving'[q]
    OBVIOUS
  <2>2. PackagesHeld(s)
    <3>1. CASE q = r
      BY <2>1, <3>1
    <3>2. CASE q # r
      BY <2>1, <3>2 DEF Turn, StoreInv
    <3>. QED  BY <3>1, <3>2
  <2>3. PackagesHeld(s)'
    BY <2>2, HeldStays
  <2>. QED  BY <2>1, <2>3
<1>. QED  BY <1>1, <1>2, <1>3, <1>4, <1>5 DEF StoreInv

-----------------------------------------------------------------------------
(***************************************************************************)
(* resolve, step by step.                                                  *)
(***************************************************************************)

LEMMA AsksHeld ==
    ASSUME WellFormed(catalog), NEW p \in Published, NEW flags, NEW applied,
           NEW pending, pending = Alone \/ pending \subseteq DOMAIN catalog,
           NEW t, t = Asks(p, flags, pending, applied)
    PROVE  PackagesHeld(t) /\ t.op = "collect"
<1>. DEFINE wants == Demanded(NoDemands, p.item, {p.version})
            path == <<Call(p)>>
<1>1. /\ DOMAIN t = CollectFields /\ t.op = "collect" /\ t.root = p
      /\ t.wants = wants /\ t.path = path /\ t.pending = pending
  BY DEF Asks, CollectFields
<1>2. /\ p.item \in Items /\ p.version \in Versions
      /\ Call(p) \in Calls /\ Call(p).item = p.item /\ Call(p).left = Needs(p)
  BY NeedsAre, CallIs
<1>3. DOMAIN wants = {p.item} /\ wants[p.item] = {p.version}
  BY <1>2 DEF Demanded, NoDemands, Admissible
<1>4. path \in Seq(Calls) /\ path # <<>> /\ DOMAIN path = {1} /\ path[1] = Call(p)
  BY <1>2
<1>. HIDE DEF wants, path
<1>5. Admissible(wants, p.item) = {p.version}
  BY <1>3 DEF Admissible
<1>6. Chosen(wants, p.item) = p /\ p # None
  <2>1. p \in NewestWith(p) /\ p.version \in Admissible(wants, p.item)
    BY <1>5 DEF NewestWith
  <2>. QED  BY <1>5, <2>1, ChosenAmong
<1>7. WantsForm(wants, p)
  BY <1>3, <1>6 DEF WantsForm
<1>8. PathForm(path, p, wants)
  BY <1>2, <1>3, <1>4 DEF PathForm
<1>9. \A i \in DOMAIN wants : \A need \in Range(Needs(Chosen(wants, i))) : Ahead(path, i, need)
  BY <1>2, <1>3, <1>4, <1>6 DEF Ahead
<1>10. PathLinked(path, wants)
  BY <1>2, <1>4, <1>6 DEF PathLinked
<1>11. \A ps \in Workable(p) : Admits(wants, ps)
  BY <1>3 DEF Workable, Admits
<1>12. CollectHeld(t) /\ CollectLeads(t)
  BY <1>1, <1>7, <1>8, <1>9, <1>10, <1>11 DEF CollectHeld, CollectLeads
<1>13. Several(t)
  BY <1>1 DEF Several, CollectFields
<1>. QED  BY <1>1, <1>12, <1>13 DEF PackagesHeld, StoreOps

\* A request that is refused passes with no chain.
LEMMA GateReached ==
    ASSUME NEW s, Several(s), NEW chain, GateHeld(Resolved(s, chain)),
           NEW t, t = Resolved(s, chain)
    PROVE  PackagesHeld(t) /\ t.op \in ResolveOps
<1>1. t.op = "gate" /\ t.pending = s.pending /\ "pending" \in DOMAIN t
  BY DEF Resolved
<1>2. Several(t)
  BY <1>1 DEF Several
<1>. QED  BY <1>1, <1>2 DEF PackagesHeld, StoreOps, ResolveOps

LEMMA CollectSteps ==
    ASSUME StoreInv, NEW r \in Requests, Collect(r)
    PROVE  \E request : /\ Continues(r, request)
                        /\ PackagesHeld(request) /\ request.op \in ResolveOps
<1>1. PICK s : s = serving[r]
  OBVIOUS
<1>2. PICK need : need = Head(Left(s.path))
  OBVIOUS
<1>3. PICK wants : wants = Demanded(s.wants, need.item, need.accepts)
  OBVIOUS
<1>4. PICK chosen : chosen = Chosen(wants, need.item)
  OBVIOUS
<1>5. /\ s.op = "collect" /\ Left(s.path) # <<>>
      /\ Continues(r, IF need.item \in OnPath(s.path) \/ chosen = None THEN Refused(s)
                      ELSE [s EXCEPT !.wants = wants,
                                     !.path = Append(PassedOver(s.path), Call(chosen))])
  BY <1>1, <1>2, <1>3, <1>4 DEF Collect
<1>6. WellFormed(catalog) /\ CollectHeld(s) /\ CollectLeads(s) /\ Several(s)
  BY <1>1, <1>5 DEF StoreInv, PackagesHeld, PackageOps, ResolveOps
<1>7. CASE need.item \in OnPath(s.path) \/ chosen = None
  <2>1. Workable(s.root) = {}
    BY <1>2, <1>3, <1>4, <1>5, <1>6, <1>7, CallsAnyway
  <2>2. GateHeld(Refused(s))
    BY <1>6, <2>1, RefusedHeld DEF CollectHeld, WantsForm
  <2>3. PackagesHeld(Refused(s)) /\ Refused(s).op \in ResolveOps
    BY <1>6, <2>2, GateReached DEF Refused
  <2>. QED  BY <1>5, <1>7, <2>3
<1>8. CASE ~(need.item \in OnPath(s.path) \/ chosen = None)
  <2>1. PICK t : t = [s EXCEPT !.wants = wants,
                               !.path = Append(PassedOver(s.path), Call(chosen))]
    OBVIOUS
  <2>2. CollectHeld(t)
    BY <1>2, <1>3, <1>4, <1>5, <1>6, <1>8, <2>1, CollectCalls
  <2>3. CollectLeads(t)
    BY <1>2, <1>3, <1>4, <1>5, <1>6, <1>8, <2>1, CallsLead
  <2>4. t.op = "collect" /\ Several(t)
    BY <1>5, <1>6, <2>1 DEF Several, CollectHeld, CollectFields
  <2>5. PackagesHeld(t) /\ t.op \in ResolveOps
    BY <2>2, <2>3, <2>4 DEF PackagesHeld, StoreOps, ResolveOps
  <2>. QED  BY <1>5, <1>8, <2>1, <2>5
<1>. QED  BY <1>7, <1>8

LEMMA CollectReturnSteps ==
    ASSUME StoreInv, NEW r \in Requests, CollectReturns(r)
    PROVE  \E request : /\ Continues(r, request)
                        /\ PackagesHeld(request) /\ request.op \in ResolveOps
<1>1. PICK s : s = serving[r]
  OBVIOUS
<1>2. PICK t : t = [op |-> "visit", root |-> s.root, wants |-> s.wants,
                    path |-> <<Call(Chosen(s.wants, s.root.item))>>, order |-> <<>>,
                    flags |-> s.flags, pending |-> s.pending, applied |-> s.applied]
  OBVIOUS
<1>3. /\ s.op = "collect" /\ Left(s.path) = <<>>
      /\ Continues(r, IF Len(s.path) > 1 THEN [s EXCEPT !.path = Front(s.path)] ELSE t)
  BY <1>1, <1>2 DEF CollectReturns
<1>4. WellFormed(catalog) /\ CollectHeld(s) /\ CollectLeads(s) /\ Several(s)
  BY <1>1, <1>3 DEF StoreInv, PackagesHeld, PackageOps, ResolveOps
<1>5. CASE Len(s.path) > 1
  <2>1. PICK u : u = [s EXCEPT !.path = Front(s.path)]
    OBVIOUS
  <2>2. CollectHeld(u) /\ CollectLeads(u)
    BY <1>3, <1>4, <1>5, <2>1, CollectReturned, CollectReturnLeads
  <2>3. u.op = "collect" /\ Several(u)
    BY <1>3, <1>4, <2>1 DEF Several, CollectHeld, CollectFields
  <2>4. PackagesHeld(u) /\ u.op \in ResolveOps
    BY <2>2, <2>3 DEF PackagesHeld, StoreOps, ResolveOps
  <2>. QED  BY <1>3, <1>5, <2>1, <2>4
<1>6. CASE ~(Len(s.path) > 1)
  <2>1. VisitHeld(t)
    BY <1>2, <1>3, <1>4, <1>6, VisitStarts
  <2>2. t.op = "visit" /\ Several(t)
    BY <1>2, <1>4 DEF Several
  <2>3. PackagesHeld(t) /\ t.op \in ResolveOps
    BY <2>1, <2>2 DEF PackagesHeld, StoreOps, ResolveOps
  <2>. QED  BY <1>3, <1>6, <2>3
<1>. QED  BY <1>5, <1>6

LEMMA VisitSteps ==
    ASSUME StoreInv, NEW r \in Requests, Visit(r)
    PROVE  \E request : /\ Continues(r, request)
                        /\ PackagesHeld(request) /\ request.op \in ResolveOps
<1>1. PICK s : s = serving[r]
  OBVIOUS
<1>2. PICK i : i = Head(Left(s.path)).item
  OBVIOUS
<1>3. PICK chosen : chosen = Chosen(s.wants, i)
  OBVIOUS
<1>4. /\ s.op = "visit" /\ Left(s.path) # <<>>
      /\ Continues(r, IF i \in Range(s.order) THEN [s EXCEPT !.path = PassedOver(s.path)]
                      ELSE IF i \in OnPath(s.path) \/ chosen = None THEN Refused(s)
                      ELSE [s EXCEPT !.path = Append(s.path, Call(chosen))])
  BY <1>1, <1>2, <1>3 DEF Visit
<1>5. WellFormed(catalog) /\ VisitHeld(s) /\ Several(s)
  BY <1>1, <1>4 DEF StoreInv, PackagesHeld, PackageOps, ResolveOps
<1>6. ASSUME NEW path, NEW t, t = [s EXCEPT !.path = path], VisitHeld(t)
      PROVE  PackagesHeld(t) /\ t.op \in ResolveOps
  <2>1. t.op = "visit" /\ Several(t)
    BY <1>4, <1>5, <1>6 DEF Several, VisitHeld, VisitFields, CollectFields
  <2>. QED  BY <1>6, <2>1 DEF PackagesHeld, StoreOps, ResolveOps
<1>7. CASE i \in Range(s.order)
  <2>1. VisitHeld([s EXCEPT !.path = PassedOver(s.path)])
    BY <1>2, <1>4, <1>5, <1>7, VisitPasses
  <2>. QED  BY <1>4, <1>6, <1>7, <2>1
<1>8. CASE i \notin Range(s.order) /\ (i \in OnPath(s.path) \/ chosen = None)
  <2>1. chosen # None
    BY <1>2, <1>3, <1>4, <1>5, VisitNeeds
  <2>2. Workable(s.root) = {}
    BY <1>2, <1>4, <1>5, <1>8, <2>1, VisitsAnyway
  <2>3. GateHeld(Refused(s))
    BY <1>5, <2>2, RefusedHeld DEF VisitHeld, WantsForm
  <2>4. PackagesHeld(Refused(s)) /\ Refused(s).op \in ResolveOps
    BY <1>5, <2>3, GateReached DEF Refused
  <2>. QED  BY <1>4, <1>8, <2>4
<1>9. CASE i \notin Range(s.order) /\ ~(i \in OnPath(s.path) \/ chosen = None)
  <2>1. VisitHeld([s EXCEPT !.path = Append(s.path, Call(chosen))])
    BY <1>2, <1>3, <1>4, <1>5, <1>9, VisitCalls
  <2>. QED  BY <1>4, <1>6, <1>9, <2>1
<1>. QED  BY <1>7, <1>8, <1>9

LEMMA VisitReturnSteps ==
    ASSUME StoreInv, NEW r \in Requests, VisitReturns(r)
    PROVE  \E request : /\ Continues(r, request)
                        /\ PackagesHeld(request) /\ request.op \in ResolveOps
<1>1. PICK s : s = serving[r]
  OBVIOUS
<1>2. PICK order : order = Append(s.order, Last(s.path).item)
  OBVIOUS
<1>3. /\ s.op = "visit" /\ Left(s.path) = <<>>
      /\ Continues(r, IF Len(s.path) > 1 THEN [s EXCEPT !.path = Front(s.path), !.order = order]
                      ELSE Resolved(s, [k \in DOMAIN order |-> Chosen(s.wants, order[k])]))
  BY <1>1, <1>2 DEF VisitReturns
<1>4. WellFormed(catalog) /\ VisitHeld(s) /\ Several(s)
  BY <1>1, <1>3 DEF StoreInv, PackagesHeld, PackageOps, ResolveOps
<1>5. CASE Len(s.path) > 1
  <2>1. PICK t : t = [s EXCEPT !.path = Front(s.path), !.order = order]
    OBVIOUS
  <2>2. VisitHeld(t)
    BY <1>2, <1>3, <1>4, <1>5, <2>1, VisitReturned
  <2>3. t.op = "visit" /\ Several(t)
    BY <1>3, <1>4, <2>1 DEF Several, VisitHeld, VisitFields, CollectFields
  <2>4. PackagesHeld(t) /\ t.op \in ResolveOps
    BY <2>2, <2>3 DEF PackagesHeld, StoreOps, ResolveOps
  <2>. QED  BY <1>3, <1>5, <2>1, <2>4
<1>6. CASE ~(Len(s.path) > 1)
  <2>1. PICK chain : chain = [k \in DOMAIN order |-> Chosen(s.wants, order[k])]
    OBVIOUS
  <2>2. GateHeld(Resolved(s, chain))
    BY <1>2, <1>3, <1>4, <1>6, <2>1, VisitEnds
  <2>3. PackagesHeld(Resolved(s, chain)) /\ Resolved(s, chain).op \in ResolveOps
    BY <1>4, <2>2, GateReached
  <2>. QED  BY <1>3, <1>6, <2>1, <2>3
<1>. QED  BY <1>5, <1>6

-----------------------------------------------------------------------------
(***************************************************************************)
(* install and uninstall, step by step.                                    *)
(***************************************************************************)

\* The first of what there is to install.
LEMMA FirstIs ==
    ASSUME WellFormed(catalog), NEW todo, NEW book, TodoHeld(todo, book), todo # <<>>,
           NEW p, p = Head(todo)
    PROVE  /\ p \in Published
           /\ p.item \in DOMAIN catalog
           /\ p.item \in Items
           /\ p.version \in DOMAIN catalog[p.item]
           /\ p.version \in Nat
           /\ p = Package(p.item, p.version)
           /\ 1 \in DOMAIN todo
           /\ p = todo[1]
           /\ \A need \in Range(Needs(p)) :
                 need.item \in Items /\ need.item # p.item /\ book[need.item] \in need.accepts
<1>1. todo \in Seq(Published) /\ 1 \in DOMAIN todo /\ p = todo[1] /\ p \in Published
  BY DEF TodoHeld
<1>2. /\ p.item \in DOMAIN catalog /\ p.item \in Items
      /\ p.version \in DOMAIN catalog[p.item] /\ p.version \in Versions
      /\ p = Package(p.item, p.version)
      /\ Needs(p) \in Seq(Dependencies)
  BY <1>1, NeedsAre
<1>3. ASSUME NEW need \in Range(Needs(p))
      PROVE  need.item \in Items /\ need.item # p.item /\ book[need.item] \in need.accepts
  <2>1. need \in Dependencies
    BY <1>2 DEF Range
  <2>2. ~ \E j \in 1 .. 1 - 1 : Satisfies(need, todo[j])
    OBVIOUS
  <2>3. book[need.item] \in need.accepts /\ \A j \in DOMAIN todo : todo[j].item # need.item
    BY <1>1, <2>2 DEF TodoHeld
  <2>. QED  BY <1>1, <2>1, <2>3 DEF Dependencies
<1>4. p.version \in Nat
  BY <1>2, PackagesAssumption DEF Versions
<1>. QED  BY <1>1, <1>2, <1>3, <1>4

\* With the first on record, what is left still has its dependencies.
LEMMA TodoRest ==
    ASSUME WellFormed(catalog), NEW todo, NEW book, TodoHeld(todo, book), todo # <<>>,
           NEW p, p = Head(todo),
           NEW more, more[p.item] = p.version, \A i \in Items \ {p.item} : more[i] = book[i]
    PROVE  TodoHeld(Tail(todo), more)
<1>. DEFINE n == Len(todo)
            rest == Tail(todo)
<1>1. /\ todo \in Seq(Published) /\ n \in Nat \ {0}
      /\ DOMAIN todo = 1 .. n
      /\ rest \in Seq(Published)
      /\ DOMAIN rest = 1 .. n - 1
      /\ \A k \in 1 .. n - 1 : rest[k] = todo[k + 1]
  BY DEF TodoHeld
<1>2. p = todo[1]
  BY FirstIs
<1>. HIDE DEF n, rest
<1>3. ASSUME NEW k \in 1 .. n - 1, NEW j \in 1 .. k - 1
      PROVE  rest[j].item # rest[k].item
  <2>1. k + 1 \in DOMAIN todo /\ j + 1 \in 1 .. (k + 1) - 1 /\ j \in 1 .. n - 1
    BY <1>1
  <2>2. todo[j + 1].item # todo[k + 1].item
    BY <2>1 DEF TodoHeld
  <2>. QED  BY <1>1, <2>1, <2>2
<1>4. ASSUME NEW k \in 1 .. n - 1, NEW need \in Range(Needs(rest[k]))
      PROVE  \/ \E j \in 1 .. k - 1 : Satisfies(need, rest[j])
             \/ /\ more[need.item] \in need.accepts
                /\ \A j \in DOMAIN rest : rest[j].item # need.item
  <2>1. k + 1 \in DOMAIN todo /\ rest[k] = todo[k + 1] /\ todo[k + 1] \in Published
    BY <1>1
  <2>2. need.item \in Items
    <3>1. Needs(rest[k]) \in Seq(Dependencies)
      BY <2>1, NeedsAre
    <3>2. need \in Dependencies
      BY <3>1 DEF Range
    <3>. QED  BY <3>2 DEF Dependencies
  <2>3. \/ \E j \in 1 .. (k + 1) - 1 : Satisfies(need, todo[j])
        \/ /\ book[need.item] \in need.accepts
           /\ \A j \in DOMAIN todo : todo[j].item # need.item
    BY <2>1 DEF TodoHeld
  <2>4. CASE Satisfies(need, todo[1])
    <3>1. more[need.item] \in need.accepts
      BY <1>2, <2>4 DEF Satisfies
    <3>2. ASSUME NEW j \in DOMAIN rest PROVE rest[j].item # need.item
      <4>1. j + 1 \in DOMAIN todo /\ 1 \in 1 .. (j + 1) - 1 /\ rest[j] = todo[j + 1]
        BY <1>1
      <4>2. todo[1].item # todo[j + 1].item
        BY <4>1 DEF TodoHeld
      <4>. QED  BY <2>4, <4>1, <4>2 DEF Satisfies
    <3>. QED  BY <3>1, <3>2
  <2>5. ASSUME NEW j \in 1 .. (k + 1) - 1, Satisfies(need, todo[j]), j # 1
        PROVE  \E l \in 1 .. k - 1 : Satisfies(need, rest[l])
    <3>1. j - 1 \in 1 .. k - 1 /\ j - 1 \in 1 .. n - 1 /\ (j - 1) + 1 = j
      BY <1>1, <2>5
    <3>2. rest[j - 1] = todo[j]
      BY <1>1, <3>1
    <3>. QED  BY <2>5, <3>1, <3>2
  <2>6. CASE /\ book[need.item] \in need.accepts
             /\ \A j \in DOMAIN todo : todo[j].item # need.item
    <3>1. more[need.item] = book[need.item]
      BY <1>1, <1>2, <2>2, <2>6
    <3>2. \A j \in DOMAIN rest : rest[j].item # need.item
      BY <1>1, <2>6
    <3>. QED  BY <2>6, <3>1, <3>2
  <2>. QED  BY <2>3, <2>4, <2>5, <2>6
<1>5. TodoHeld(rest, more)
  BY <1>1, <1>3, <1>4 DEF TodoHeld
<1>. QED  BY <1>5 DEF rest

\* A request that serves the store.
LEMMA StoreTells ==
    ASSUME StoreInv, NEW r \in Requests, serving[r].op \in StoreOps
    PROVE  StoreHeld(serving[r]) /\ Several(serving[r])
  BY DEF StoreInv, PackagesHeld, PackageOps

\* The next of several updates, or the answer.
LEMMA EndsHeld ==
    ASSUME NEW r \in Requests, NEW s, NEW applied, Ends(r, s, applied), Several(s)
    PROVE  \E request : Continues(r, request) /\ PackagesHeld(request)
                        /\ request.op \notin PackageOps
<1>1. CASE s.pending = Alone
  <2>1. PackagesHeld(Idle) /\ Idle.op \notin PackageOps
    BY HeldIdly DEF Idle, PackageOps, ResolveOps, StoreOps
  <2>. QED  BY <1>1, <2>1 DEF Ends, Answers
<1>2. CASE s.pending # Alone
  <2>1. PICK t : t = [op |-> "updates", flags |-> s.flags, pending |-> s.pending,
                      applied |-> applied]
    OBVIOUS
  <2>2. PackagesHeld(t) /\ t.op \notin PackageOps
    BY <1>2, <2>1 DEF PackagesHeld, Several, PackageOps, ResolveOps, StoreOps
  <2>. QED  BY <1>2, <2>1, <2>2 DEF Ends
<1>. QED  BY <1>1, <1>2

LEMMA GateSteps ==
    ASSUME StoreInv, NEW r \in Requests, Gate(r)
    PROVE  \E request : Continues(r, request) /\ PackagesHeld(request)
<1>1. PICK s : s = serving[r]
  OBVIOUS
<1>2. s.op = "gate" /\ GateHeld(s) /\ Several(s)
  BY <1>1 DEF Gate, StoreInv, PackagesHeld, PackageOps, ResolveOps
<1>3. CASE Admitted(s)
  <2>1. PICK t : t = [op |-> "install", root |-> s.root, todo |-> s.chain,
                      book |-> Loaded, flags |-> s.flags, pending |-> s.pending,
                      applied |-> s.applied]
    OBVIOUS
  <2>2. /\ t.op = "install" /\ t.todo = s.chain /\ t.book = Loaded
        /\ {"op", "root", "todo", "book"} \subseteq DOMAIN t
        /\ t.pending = s.pending /\ "pending" \in DOMAIN t
    BY <2>1
  <2>3. TodoHeld(s.chain, Loaded)
    <3>1. s.chain \in Seq(Published) /\ ChainHeld(s.chain, s.root)
      BY <1>2, <1>3 DEF GateHeld, Admitted
    <3>. QED  BY <3>1 DEF ChainHeld, TodoHeld
  <2>4. StoreHeld(t)
    BY <2>2, <2>3, LoadedIs DEF StoreInv, StoreHeld
  <2>5. PackagesHeld(t)
    BY <1>2, <2>2, <2>4 DEF PackagesHeld, Several
  <2>6. Continues(r, t)
    BY <1>1, <1>3, <2>1 DEF Gate
  <2>. QED  BY <2>5, <2>6
<1>4. CASE ~Admitted(s)
  <2>1. Ends(r, s, s.applied)
    BY <1>1, <1>4 DEF Gate
  <2>. QED  BY <1>2, <2>1, EndsHeld
<1>. QED  BY <1>3, <1>4

LEMMA SkipSteps ==
    ASSUME StoreInv, NEW r \in Requests, Skip(r)
    PROVE  \E request : Continues(r, request) /\ PackagesHeld(request)
<1>1. PICK s : s = serving[r]
  OBVIOUS
<1>2. s.op = "install" /\ StoreHeld(s) /\ Several(s) /\ s.todo # <<>> /\ OnRecord(s.book, Head(s.todo))
  BY <1>1, StoreTells DEF Skip, StoreOps
<1>3. PICK t : t = [s EXCEPT !.todo = Tail(s.todo)]
  OBVIOUS
<1>4. /\ t.op = "install" /\ t.todo = Tail(s.todo) /\ t.book = s.book
      /\ t.pending = s.pending
      /\ DOMAIN t = DOMAIN s
  BY <1>2, <1>3 DEF StoreHeld, Several
<1>5. TodoHeld(Tail(s.todo), s.book)
  BY <1>2, TodoRest DEF StoreInv, StoreHeld, OnRecord
<1>6. StoreHeld(t)
  BY <1>2, <1>4, <1>5 DEF StoreHeld
<1>7. PackagesHeld(t)
  BY <1>2, <1>4, <1>6 DEF PackagesHeld, Several
<1>. QED  BY <1>1, <1>3, <1>7 DEF Skip

LEMMA ClearSteps ==
    ASSUME StoreInv, NEW r \in Requests, Clear(r)
    PROVE  \E request : Continues(r, request) /\ PackagesHeld(request)
<1>1. PICK s : s = serving[r]
  OBVIOUS
<1>2. s.op = "install" /\ StoreHeld(s) /\ Several(s) /\ s.todo # <<>>
  BY <1>1, StoreTells DEF Clear, StoreOps
<1>3. PICK t : t = [s EXCEPT !.op = "write"]
  OBVIOUS
<1>4. /\ t.op = "write" /\ t.todo = s.todo /\ t.book = s.book
      /\ t.pending = s.pending
      /\ DOMAIN t = DOMAIN s
  BY <1>2, <1>3 DEF StoreHeld, Several
<1>5. StoreHeld(t)
  BY <1>2, <1>4 DEF StoreHeld
<1>6. PackagesHeld(t)
  BY <1>2, <1>4, <1>5 DEF PackagesHeld, Several
<1>. QED  BY <1>1, <1>3, <1>6 DEF Clear

\* The package on record: of what the book has new, it alone; and what it depends
\* on is in the book.
LEMMA WriteSteps ==
    ASSUME StoreInv, NEW r \in Requests, Write(r)
    PROVE  \E request : Continues(r, request) /\ PackagesHeld(request)
<1>1. PICK s : s = serving[r]
  OBVIOUS
<1>2. s.op = "write" /\ StoreHeld(s) /\ Several(s) /\ s.todo # <<>> /\ s.book = Loaded
  BY <1>1, StoreTells DEF Write, StoreHeld, StoreOps
<1>3. PICK p : p = Head(s.todo)
  OBVIOUS
<1>4. PICK book : book = [s.book EXCEPT ![p.item] = p.version]
  OBVIOUS
<1>5. /\ p.item \in DOMAIN catalog /\ p.item \in Items
      /\ p.version \in DOMAIN catalog[p.item] /\ p.version \in Nat
      /\ p = Package(p.item, p.version)
      /\ \A need \in Range(Needs(p)) :
            need.item \in Items /\ need.item # p.item /\ s.book[need.item] \in need.accepts
  BY <1>2, <1>3, FirstIs DEF StoreInv, StoreHeld
<1>6. /\ s.book \in Books
      /\ book \in [Items -> Nat]
      /\ book[p.item] = p.version
      /\ \A i \in Items \ {p.item} : book[i] = s.book[i]
  BY <1>2, <1>4, <1>5 DEF StoreHeld, Books
<1>7. book \in Books
  BY <1>5, <1>6 DEF Books
<1>8. TodoHeld(Tail(s.todo), book)
  BY <1>2, <1>3, <1>6, TodoRest DEF StoreInv, StoreHeld
<1>9. ASSUME NEW i \in Items, book[i] \notin {0, records[i]},
             NEW need \in Range(Needs(Package(i, book[i])))
      PROVE  book[need.item] \in need.accepts
  <2>1. CASE i = p.item
    <3>1. Package(i, book[i]) = p
      BY <1>5, <1>6, <2>1
    <3>. QED  BY <1>5, <1>6, <1>9, <3>1
  <2>2. CASE i # p.item
    BY <1>2, <1>6, <1>9, <2>2, LoadedIs DEF StoreInv
  <2>. QED  BY <2>1, <2>2
<1>10. PICK t : t = [s EXCEPT !.op = "save", !.todo = Tail(s.todo), !.book = book]
  OBVIOUS
<1>11. /\ t.op = "save" /\ t.todo = Tail(s.todo) /\ t.book = book
       /\ t.pending = s.pending
       /\ DOMAIN t = DOMAIN s
  BY <1>2, <1>10 DEF StoreHeld, Several
<1>12. StoreHeld(t)
  BY <1>2, <1>7, <1>8, <1>9, <1>11 DEF StoreHeld, AfterNeeds
<1>13. PackagesHeld(t)
  BY <1>2, <1>11, <1>12 DEF PackagesHeld, Several
<1>14. Continues(r, t)
  BY <1>1, <1>3, <1>4, <1>10 DEF Write
<1>. QED  BY <1>13, <1>14

LEMMA DeleteSteps ==
    ASSUME StoreInv, NEW r \in Requests, Delete(r)
    PROVE  \E request : Continues(r, request) /\ PackagesHeld(request)
<1>1. PICK s : s = serving[r]
  OBVIOUS
<1>2. s.op = "remove" /\ StoreHeld(s) /\ Several(s)
  BY <1>1, StoreTells DEF Delete, StoreOps
<1>3. PICK t : t = [s EXCEPT !.op = "save"]
  OBVIOUS
<1>4. /\ t.op = "save" /\ t.todo = s.todo /\ t.book = s.book
      /\ t.pending = s.pending
      /\ DOMAIN t = DOMAIN s
  BY <1>2, <1>3 DEF StoreHeld, Several
<1>5. StoreHeld(t)
  BY <1>2, <1>4 DEF StoreHeld
<1>6. PackagesHeld(t)
  BY <1>2, <1>4, <1>5 DEF PackagesHeld, Several
<1>. QED  BY <1>1, <1>3, <1>6 DEF Delete

LEMMA UninstallSteps ==
    ASSUME StoreInv, NEW r \in Requests, NEW i \in DOMAIN catalog, Uninstall(r, i)
    PROVE  \E request : Starts(r, "packages", request) /\ PackagesHeld(request)
<1>1. PICK book : book = [Loaded EXCEPT ![i] = 0]
  OBVIOUS
<1>2. PICK t : t = [op |-> "remove", root |-> Package(i, Loaded[i]), todo |-> <<>>,
                    book |-> book, pending |-> Alone, applied |-> {}]
  OBVIOUS
<1>3. /\ t.op = "remove" /\ t.todo = <<>> /\ t.book = book
      /\ {"op", "root", "todo", "book"} \subseteq DOMAIN t
      /\ t.pending = Alone /\ "pending" \in DOMAIN t
  BY <1>2
<1>4. /\ Loaded \in Books
      /\ i \in Items
      /\ book[i] = 0
      /\ \A j \in Items \ {i} : book[j] = Loaded[j]
      /\ book \in [Items -> Nat]
  BY <1>1, LoadedIs DEF StoreInv, WellFormed, Books
<1>5. book \in Books
  BY <1>4 DEF Books
<1>6. AfterNeeds(book)
  BY <1>4, LoadedIs DEF StoreInv, AfterNeeds
<1>7. TodoHeld(<<>>, book)
  BY DEF TodoHeld
<1>8. StoreHeld(t)
  BY <1>3, <1>5, <1>6, <1>7 DEF StoreHeld
<1>9. PackagesHeld(t)
  BY <1>3, <1>8 DEF PackagesHeld, Several
<1>. QED  BY <1>1, <1>2, <1>9 DEF Uninstall

LEMMA UpdateSteps ==
    ASSUME StoreInv, NEW r \in Requests, UpdateNext(r)
    PROVE  \E request : Continues(r, request) /\ PackagesHeld(request) /\ catalog # <<>>
<1>1. PICK s : s = serving[r]
  OBVIOUS
<1>2. /\ s.op = "updates" /\ "op" \in DOMAIN s
      /\ "pending" \in DOMAIN s /\ s.pending \subseteq DOMAIN catalog
  BY <1>1 DEF UpdateNext, StoreInv, ServingForm, Requested, PackagesHeld
<1>3. PICK i \in s.pending :
         Continues(r, IF Loaded[i] = 0 THEN [s EXCEPT !.pending = s.pending \ {i}]
                      ELSE Asks(Latest(i), s.flags, s.pending \ {i}, s.applied))
  BY <1>1 DEF UpdateNext
<1>4. i \in DOMAIN catalog /\ catalog # <<>> /\ s.pending \ {i} \subseteq DOMAIN catalog
  BY <1>2
<1>5. CASE Loaded[i] = 0
  <2>1. PICK t : t = [s EXCEPT !.pending = s.pending \ {i}]
    OBVIOUS
  <2>2. /\ t.op = "updates" /\ t.pending = s.pending \ {i} /\ "pending" \in DOMAIN t
    BY <1>2, <2>1
  <2>3. PackagesHeld(t)
    BY <1>4, <2>2 DEF PackagesHeld, PackageOps, ResolveOps, StoreOps
  <2>. QED  BY <1>3, <1>4, <1>5, <2>1, <2>3
<1>6. CASE Loaded[i] # 0
  <2>1. PICK t : t = Asks(Latest(i), s.flags, s.pending \ {i}, s.applied)
    OBVIOUS
  <2>2. WellFormed(catalog) /\ Latest(i) \in Published
    BY <1>4, LatestIs DEF StoreInv
  <2>3. PackagesHeld(t)
    BY <1>4, <2>1, <2>2, AsksHeld
  <2>. QED  BY <1>3, <1>4, <1>6, <2>1, <2>3
<1>. QED  BY <1>5, <1>6

\* A step of a request that serves packages, when it changes the file of records.
LEMMA FileTurns ==
    ASSUME StoreInv, NEW r \in Requests, Turn(r), UNCHANGED catalog,
           serving[r].op \in PackageOps, records' \in Books,
           NEW t, serving'[r] = t, PackagesHeld(t)', Requested(t)
    PROVE  StoreInv'
<1>1. ServingForm'
  BY FormKept DEF StoreInv
<1>2. catalog # <<>> /\ \A q \in Requests \ {r} : serving[q] = Idle
  BY OthersIdle DEF StoreInv
<1>3. OneAtATime'
  <2>1. serving[r] # Idle
    BY DEF Idle, PackageOps, ResolveOps, StoreOps
  <2>. QED  BY <1>2, <2>1, CrowdKept DEF StoreInv
<1>4. WellFormed(catalog)'
  BY DEF StoreInv
<1>5. (records \in Books)'
  BY DEF Books
<1>6. ASSUME NEW q \in Requests PROVE PackagesHeld(serving[q])'
  <2>1. PICK s : s = serving'[q]
    OBVIOUS
  <2>2. PackagesHeld(s)'
    <3>1. CASE q = r
      BY <2>1, <3>1
    <3>2. CASE q # r
      <4>1. s.op \notin PackageOps \cup {"updates"}
        BY <1>2, <2>1, <3>2 DEF Turn, Idle, PackageOps, ResolveOps, StoreOps
      <4>. QED  BY <4>1 DEF PackagesHeld, PackageOps, ResolveOps, StoreOps
    <3>. QED  BY <3>1, <3>2
  <2>. QED  BY <2>1, <2>2
<1>. QED  BY <1>1, <1>3, <1>4, <1>5, <1>6 DEF StoreInv

LEMMA EmptySteps ==
    ASSUME StoreInv, NEW r \in Requests, Empty(r)
    PROVE  StoreInv'
<1>1. PICK s : s = serving[r]
  OBVIOUS
<1>2. s.op = "save" /\ StoreHeld(s) /\ Several(s)
  BY <1>1, StoreTells DEF Empty, StoreOps
<1>3. PICK t : t = [s EXCEPT !.op = "fill"]
  OBVIOUS
<1>4. /\ t.op = "fill" /\ t.todo = s.todo /\ t.book = s.book
      /\ t.pending = s.pending
      /\ DOMAIN t = DOMAIN s
  BY <1>2, <1>3 DEF StoreHeld, Several
<1>5. StoreHeld(t)
  BY <1>2, <1>4 DEF StoreHeld
<1>6. UNCHANGED <<catalog, records>> /\ Turn(r) /\ serving'[r] = t
  BY <1>1, <1>3, Turns DEF Empty, StoreInv
<1>7. StoreHeld(t)'
  BY <1>4, <1>5, <1>6 DEF StoreHeld, Books, TodoHeld, AfterNeeds, Needs, Published
<1>8. PackagesHeld(t)'
  BY <1>2, <1>4, <1>6, <1>7 DEF PackagesHeld, Several
<1>9. Requested(t)
  BY <1>2, <1>4 DEF StoreHeld, Requested, SignInOps
<1>10. serving[r].op \in PackageOps
  BY <1>1, <1>2 DEF PackageOps, StoreOps
<1>11. records' \in Books
  BY <1>6 DEF StoreInv
<1>. QED  BY <1>6, <1>8, <1>9, <1>10, <1>11, FileTurns

\* What RecordedAfterNeeds says of a step.
Recorded ==
    \A i \in Items :
       records'[i] \notin {0, records[i]} =>
         \A need \in Range(Needs(Package(i, records'[i]))) : records'[need.item] \in need.accepts

LEMMA FillSteps ==
    ASSUME StoreInv, NEW r \in Requests, Fill(r)
    PROVE  StoreInv' /\ Recorded
<1>1. PICK s : s = serving[r]
  OBVIOUS
<1>2. s.op = "fill" /\ StoreHeld(s) /\ Several(s)
  BY <1>1, StoreTells DEF Fill, StoreOps
<1>3. PICK t : t = [s EXCEPT !.op = "install"]
  OBVIOUS
<1>4. /\ t.op = "install" /\ t.todo = s.todo /\ t.book = s.book
      /\ t.pending = s.pending
      /\ DOMAIN t = DOMAIN s
  BY <1>2, <1>3 DEF StoreHeld, Several
<1>5. UNCHANGED catalog /\ records' = s.book /\ torn' = FALSE /\ Turn(r) /\ serving'[r] = t
  BY <1>1, <1>3, Turns DEF Fill, StoreInv
<1>6. Loaded' = s.book
  BY <1>5 DEF Loaded
<1>7. StoreHeld(t)'
  <2>1. (s.book \in Books)' /\ TodoHeld(s.todo, s.book)'
    <3>1. s.book \in Books /\ TodoHeld(s.todo, s.book)
      BY <1>2 DEF StoreHeld
    <3>2. Books' = Books
      BY <1>5 DEF Books
    <3>3. TodoHeld(s.todo, s.book)'
      BY <1>5, <3>1 DEF TodoHeld, Needs, Published
    <3>. QED  BY <3>1, <3>2, <3>3
  <2>. QED  BY <1>2, <1>4, <1>6, <2>1 DEF StoreHeld
<1>8. PackagesHeld(t)'
  BY <1>2, <1>4, <1>5, <1>7 DEF PackagesHeld, Several
<1>9. Requested(t)
  BY <1>2, <1>4 DEF StoreHeld, Requested, SignInOps
<1>10. serving[r].op \in PackageOps
  BY <1>1, <1>2 DEF PackageOps, StoreOps
<1>11. records' \in Books
  BY <1>2, <1>5 DEF StoreHeld
<1>12. StoreInv'
  BY <1>5, <1>8, <1>9, <1>10, <1>11, FileTurns
<1>13. Recorded
  BY <1>2, <1>5 DEF StoreHeld, AfterNeeds, Recorded
<1>. QED  BY <1>12, <1>13

LEMMA StoreTurns ==
    ASSUME StoreInv, NEW r \in Requests, MarketplaceStep(r), ~Empty(r), ~Fill(r)
    PROVE  StoreInv' /\ UNCHANGED records
<1>1. /\ Turn(r)
      /\ Requested(serving'[r])
      /\ UNCHANGED <<catalog, records, torn>>
  <2>1. UNCHANGED <<catalog, records, torn>>
    BY DEF MarketplaceStep, Install, Uninstall, AutoUpdate, ResolveStep, Gate, Skip, Clear, Write,
           Break, SaveFails, Finish, Delete, UpdateNext, Report, Answer, marketplaceVars,
           installerVars
  <2>. QED  BY <2>1, StoreElsewhere DEF StoreInv, ElsewhereOps, Requested, SignInOps
<1>2. ASSUME NEW request, PackagesHeld(request),
             \/ /\ Continues(r, request)
                /\ serving[r].op \in PackageOps \cup {"updates", "updated"}
                /\ serving[r].op \in PackageOps \/ request.op \notin PackageOps \/ catalog # <<>>
             \/ /\ Starts(r, "packages", request)
                /\ request.op \notin PackageOps \/ catalog # <<>>
      PROVE  StoreInv' /\ UNCHANGED records
  <2>1. serving'[r] = request
    BY <1>2, Turns DEF StoreInv
  <2>2. serving[r] # Idle \/ \E desk : MayStart(r, desk)
    BY <1>2 DEF Starts, Idle, PackageOps, ResolveOps, StoreOps
  <2>3. request.op \in PackageOps => catalog # <<>>
    BY <1>2 DEF StoreInv, OneAtATime
  <2>. QED  BY <1>1, <1>2, <2>1, <2>2, <2>3, HeldTurns
<1>3. CASE \E p \in Published, flags \in Flags : Install(r, p, flags)
  <2>1. PICK p \in Published : \E flags \in Flags : Install(r, p, flags)
    BY <1>3
  <2>2. PICK flags \in Flags : Install(r, p, flags)
    BY <2>1
  <2>3. PICK t : t = Asks(p, flags, Alone, {})
    OBVIOUS
  <2>4. PackagesHeld(t)
    BY <2>3, AsksHeld DEF StoreInv
  <2>5. Starts(r, "packages", t) /\ catalog # <<>>
    BY <2>2, <2>3 DEF Install, Published
  <2>. QED  BY <1>2, <2>4, <2>5
<1>4. CASE \E i \in DOMAIN catalog : Uninstall(r, i)
  <2>1. catalog # <<>>
    BY <1>4
  <2>. QED  BY <1>2, <1>4, <2>1, UninstallSteps
<1>5. CASE \E flags \in Flags : AutoUpdate(r, [flags EXCEPT !.unverified = FALSE])
  <2>1. PICK flags : AutoUpdate(r, flags)
    BY <1>5
  <2>2. PICK t : t = [op |-> "updates", flags |-> flags, applied |-> {},
                      pending |-> {i \in DOMAIN catalog :
                                     Loaded[i] # 0 /\ Loaded[i] < Latest(i).version}]
    OBVIOUS
  <2>3. PackagesHeld(t) /\ t.op \notin PackageOps
    BY <2>2 DEF PackagesHeld, PackageOps, ResolveOps, StoreOps
  <2>4. Starts(r, "packages", t)
    BY <2>1, <2>2 DEF AutoUpdate
  <2>. QED  BY <1>2, <2>3, <2>4
<1>6. CASE ResolveStep(r)
  <2>1. serving[r].op \in PackageOps
    BY <1>6
    DEF ResolveStep, Collect, CollectReturns, Visit, VisitReturns, PackageOps, ResolveOps
  <2>2. \E request : Continues(r, request) /\ PackagesHeld(request)
    BY <1>6, CollectSteps, CollectReturnSteps, VisitSteps, VisitReturnSteps DEF ResolveStep
  <2>. QED  BY <1>2, <2>1, <2>2
<1>7. CASE Gate(r) \/ Skip(r) \/ Clear(r) \/ Write(r) \/ Delete(r)
  <2>1. serving[r].op \in PackageOps
    BY <1>7 DEF Gate, Skip, Clear, Write, Delete, PackageOps, ResolveOps, StoreOps
  <2>2. \E request : Continues(r, request) /\ PackagesHeld(request)
    BY <1>7, GateSteps, SkipSteps, ClearSteps, WriteSteps, DeleteSteps
  <2>. QED  BY <1>2, <2>1, <2>2
<1>8. CASE Break(r) \/ SaveFails(r) \/ Finish(r)
  <2>1. serving[r].op \in StoreOps
    BY <1>8 DEF Break, SaveFails, Finish, StoreOps
  <2>2. Answers(r) \/ \E applied : Ends(r, serving[r], applied)
    BY <1>8 DEF Break, SaveFails, Finish
  <2>3. Several(serving[r])
    BY <2>1, StoreTells
  <2>4. CASE Answers(r)
    BY <1>2, <2>1, <2>4, HeldIdly DEF Answers, Idle, PackageOps, ResolveOps, StoreOps
  <2>5. CASE \E applied : Ends(r, serving[r], applied)
    <3>1. \E request : Continues(r, request) /\ PackagesHeld(request)
      BY <2>3, <2>5, EndsHeld
    <3>. QED  BY <1>2, <2>1, <3>1 DEF PackageOps
  <2>. QED  BY <2>2, <2>4, <2>5
<1>9. CASE UpdateNext(r)
  <2>1. serving[r].op = "updates"
    BY <1>9 DEF UpdateNext
  <2>. QED  BY <1>2, <1>9, <2>1, UpdateSteps
<1>10. CASE Report(r) \/ Answer(r)
  <2>1. serving[r].op \in {"updates", "updated"}
    BY <1>10 DEF Report, Answer
  <2>2. PICK request : Continues(r, request) /\ request.op \in {"updated", "idle"}
    BY <1>10 DEF Report, Answer, Answers, Idle
  <2>3. PackagesHeld(request) /\ request.op \notin PackageOps
    BY <2>2, HeldIdly DEF PackageOps, ResolveOps, StoreOps
  <2>. QED  BY <1>2, <2>1, <2>2, <2>3
<1>. QED
  BY <1>3, <1>4, <1>5, <1>6, <1>7, <1>8, <1>9, <1>10 DEF MarketplaceStep

\* Steps that change no record, and no request but to end it or to sign in.
LEMMA StoreApart ==
    ASSUME StoreInv, ServingForm', UNCHANGED <<process, catalog, records, torn>>,
           \A q \in Requests : \/ serving'[q] = serving[q]
                               \/ serving'[q].op \notin PackageOps \cup {"updates"},
           \A q, r \in Requests :
              process[q] = process[r] /\ serving'[q] # Idle /\ serving'[r] # Idle => q = r
    PROVE  StoreInv'
<1>1. ASSUME NEW q \in Requests PROVE PackagesHeld(serving[q])'
  <2>1. PICK s : s = serving'[q]
    OBVIOUS
  <2>2. PackagesHeld(s)
    BY <2>1, HeldIdly DEF StoreInv
  <2>3. PackagesHeld(s)'
    BY <2>2, HeldStays
  <2>. QED  BY <2>1, <2>3
<1>2. OneAtATime'
  BY DEF StoreInv, OneAtATime
<1>3. WellFormed(catalog)' /\ (records \in Books)'
  BY DEF StoreInv, Books
<1>. QED  BY <1>1, <1>2, <1>3 DEF StoreInv

LEMMA StoreNext ==
    ASSUME StoreInv, AccountsInv', [Next]_vars
    PROVE  StoreInv' /\ Recorded
<1>1. UNCHANGED records => Recorded
  BY DEF Recorded
<1>2. ServingForm'
  BY DEF AccountsInv
<1>3. CASE \E r \in Requests : MarketplaceStep(r)
  <2>1. PICK r \in Requests : MarketplaceStep(r)
    BY <1>3
  <2>2. CASE Empty(r)
    BY <1>1, <2>2, EmptySteps DEF Empty
  <2>3. CASE Fill(r)
    BY <2>3, FillSteps
  <2>4. CASE ~Empty(r) /\ ~Fill(r)
    BY <1>1, <2>1, <2>4, StoreTurns
  <2>. QED  BY <2>2, <2>3, <2>4
<1>4. CASE \E r \in Requests : SignInsStep(r) /\ UNCHANGED marketplaceVars
  <2>1. PICK r \in Requests : SignInsStep(r) /\ UNCHANGED marketplaceVars
    BY <1>4
  <2>2. /\ Turn(r)
        /\ serving[r] # Idle \/ \E desk : MayStart(r, desk)
        /\ serving'[r].op \in SignInOps \cup {"idle"}
    BY <2>1, SignInTurns DEF StoreInv
  <2>3. \A q, t \in Requests :
           process[q] = process[t] /\ serving'[q] # Idle /\ serving'[t] # Idle => q = t
    BY <2>2 DEF StoreInv, OneAtATime, Turn, MayStart
  <2>4. \A q \in Requests : \/ serving'[q] = serving[q]
                            \/ serving'[q].op \notin PackageOps \cup {"updates"}
    BY <2>2 DEF Turn, SignInOps, PackageOps, ResolveOps, StoreOps
  <2>5. UNCHANGED <<process, catalog, records, torn>>
    BY <2>1, <2>2 DEF Turn, marketplaceVars, installerVars
  <2>. QED  BY <1>1, <1>2, <2>3, <2>4, <2>5, StoreApart
<1>5. CASE (Lapses /\ UNCHANGED marketplaceVars) \/ UNCHANGED vars
  <2>1. UNCHANGED <<process, serving, catalog, records, torn>>
    BY <1>5 DEF Lapses, SessionLapses, LinkLapses, vars, marketplaceVars, installerVars
  <2>. QED  BY <1>1, <1>2, <2>1, StoreApart DEF StoreInv, OneAtATime
<1>6. CASE \E p \in Processes : Dies(p) /\ Forgets(p)
  <2>1. /\ UNCHANGED <<process, catalog, records, torn>>
        /\ \A q \in Requests : serving'[q] \in {Idle, serving[q]}
    BY <1>6 DEF Dies, Forgets
  <2>2. \A q \in Requests : \/ serving'[q] = serving[q]
                            \/ serving'[q].op \notin PackageOps \cup {"updates"}
    BY <2>1 DEF Idle, PackageOps, ResolveOps, StoreOps
  <2>. QED  BY <1>1, <1>2, <2>1, <2>2, StoreApart DEF StoreInv, OneAtATime
<1>. QED  BY <1>3, <1>4, <1>5, <1>6 DEF Next

LEMMA StoreStart == Init => StoreInv
<1>. SUFFICES ASSUME Init PROVE StoreInv
  OBVIOUS
<1>1. ServingForm
  BY AccountsStart DEF AccountsInv
<1>2. serving = [r \in Requests |-> Idle]
  BY DEF Init, WorkersInit
<1>3. OneAtATime
  <2>1. catalog = <<>> \/ \A q, r \in Requests : process[q] = process[r]
    BY DEF Init, Stocked, Signing
  <2>. QED  BY <1>2, <2>1 DEF OneAtATime, Idle, PackageOps, ResolveOps, StoreOps
<1>4. WellFormed(catalog)
  <2>1. CASE Stocked
    BY <2>1, AdministrationAssumption DEF Stocked
  <2>2. CASE Signing
    BY <2>2 DEF Signing, WellFormed
  <2>. QED  BY <2>1, <2>2 DEF Init
<1>5. records \in Books
  BY DEF Init, NothingInstalled, Books
<1>6. \A r \in Requests : PackagesHeld(serving[r])
  BY <1>2, HeldIdly DEF Idle, PackageOps, ResolveOps, StoreOps
<1>. QED  BY <1>1, <1>3, <1>4, <1>5, <1>6 DEF StoreInv

LEMMA StoreAlways == Spec => []StoreInv
<1>1. StoreInv /\ AccountsInv' /\ [Next]_vars => StoreInv'
  BY StoreNext
<1>. QED  BY <1>1, StoreStart, AccountsAlways, PTL DEF Spec

\* resolve: whatever demands meet on an item, and whatever was chosen and given
\* up on the way, the chain it answers ends in what was asked for, names each
\* item once, and has every package after what satisfies its dependencies - for
\* catalogs of any size.
THEOREM ChainsInOrder == Spec => []ChainsSatisfy
<1>1. StoreInv => ChainsSatisfy
  <2>. SUFFICES ASSUME StoreInv, NEW r \in Resolving, NEW chain, chain = serving[r].chain,
                       chain # <<>>
                PROVE  ChainHeld(chain, serving[r].root)
    BY DEF ChainsSatisfy, ChainHeld
  <2>. QED  BY DEF StoreInv, PackagesHeld, GateHeld, Resolving
<1>. QED  BY <1>1, StoreAlways, PTL

\* resolve: where the newest versions work together, it refuses nothing and
\* chooses among them only.
THEOREM NewestChosen == Spec => []NewestWherePossible
<1>1. StoreInv => NewestWherePossible
  BY DEF StoreInv, PackagesHeld, GateHeld, Resolving, NewestWherePossible, Workable
<1>. QED  BY <1>1, StoreAlways, PTL

\* install: a package comes on record only with what it depends on, however the
\* packages before it fared, and whatever was lost with the file or a worker.
THEOREM RecordsFollowNeeds == Spec => RecordedAfterNeeds
<1>1. StoreInv /\ AccountsInv' /\ [Next]_vars =>
        [\A i \in Items :
            records'[i] \notin {0, records[i]} =>
              \A need \in Range(Needs(Package(i, records'[i]))) :
                 records'[need.item] \in need.accepts]_vars
  BY StoreNext DEF Recorded
<1>. QED  BY <1>1, StoreAlways, AccountsAlways, PTL DEF Spec, RecordedAfterNeeds

-----------------------------------------------------------------------------
(***************************************************************************)
(* What is installed. A plugin or an item is out of what is claimed only   *)
(* from the step that broke it; to write an item again puts it right, as   *)
(* what else it has live is stranded from then on.                         *)
(***************************************************************************)

\* Uninstalling what the book records of an item drops the plugin.
LiveIn(book) ==
    \A proc \in Processes : \A g \in Plugins \ stranded[proc] :
       live[proc][g] # None /\ live[proc][g].item \notin lost =>
         LET i == live[proc][g].item IN
         book[i] # 0 /\ PluginOf(Package(i, book[i])) = g

FilesIn(is, book) == \A i \in is \ lost : files[i] # 0 => book[i] = files[i]

\* Plugins are live where the requests are served.
LiveAtHome ==
    \A proc \in Processes : \A g \in Plugins :
       live[proc][g] # None => g # None /\ \A r \in Requests : process[r] = proc

SaveOps == {"save", "fill", "remove"}

\* No change of the book is on its way to the file.
AtRest == \A r \in Requests : serving[r].op \notin SaveOps

Agreed == LiveIn(Loaded) /\ FilesIn(Items, Loaded)

Pending(s) ==
    /\ s.op = "write" => files[Head(s.todo).item] = 0
    /\ s.op \in SaveOps => LiveIn(s.book)
    /\ s.op \in {"save", "fill"} => FilesIn(Items, s.book)
    /\ s.op = "remove" => /\ s.book[s.root.item] # Loaded[s.root.item]
                          /\ FilesIn(Items \ {s.root.item}, s.book)

KeptForm ==
    /\ live \in [Processes -> [Plugins -> Published \cup {None}]]
    /\ stranded \in [Processes -> SUBSET Plugins]
    /\ files \in [Items -> Nat]
    /\ LiveAtHome

KeptInv ==
    /\ KeptForm
    /\ AtRest => Agreed
    /\ \A r \in Requests : Pending(serving[r])

LEMMA LiveStays ==
    ASSUME UNCHANGED <<catalog, live, lost, stranded>>, NEW book
    PROVE  LiveIn(book)' <=> LiveIn(book)
  BY DEF LiveIn, PluginOf, Package

\* Steps that install nothing.
LEMMA KeptApart ==
    ASSUME KeptInv, UNCHANGED <<process, catalog, installerVars>>,
           \A q \in Requests : \/ serving'[q] = serving[q]
                               \/ /\ serving[q].op \notin SaveOps
                                  /\ serving'[q].op \notin SaveOps \cup {"write"}
    PROVE  KeptInv'
<1>. USE DEF installerVars
<1>1. KeptForm'
  BY DEF KeptInv, KeptForm, LiveAtHome, Published
<1>2. AtRest' => Agreed'
  <2>1. AtRest' => AtRest
    BY DEF AtRest
  <2>2. PICK book : book = Loaded
    OBVIOUS
  <2>3. Loaded' = book
    BY <2>2 DEF Loaded
  <2>4. AtRest => LiveIn(book)'
    BY <2>2, LiveStays DEF KeptInv, Agreed
  <2>5. LiveIn(Loaded)' <=> LiveIn(book)'
    BY <2>3 DEF LiveIn
  <2>6. AtRest => FilesIn(Items, Loaded)'
    BY <2>2, <2>3 DEF KeptInv, Agreed, FilesIn
  <2>. QED  BY <2>1, <2>4, <2>5, <2>6 DEF Agreed
<1>3. ASSUME NEW q \in Requests PROVE Pending(serving[q])'
  <2>1. CASE serving'[q] = serving[q]
    <3>1. PICK s : s = serving[q] /\ s = serving'[q]
      BY <2>1
    <3>2. LiveIn(s.book)' <=> LiveIn(s.book)
      BY LiveStays
    <3>3. Loaded' = Loaded
      BY DEF Loaded
    <3>4. Pending(s)'
      BY <3>1, <3>2, <3>3 DEF KeptInv, Pending, FilesIn
    <3>. QED  BY <3>1, <3>4
  <2>2. CASE serving'[q].op \notin SaveOps \cup {"write"}
    BY <2>2 DEF Pending, SaveOps
  <2>. QED  BY <2>1, <2>2
<1>. QED  BY <1>1, <1>2, <1>3 DEF KeptInv

\* A step of the one request that installs or uninstalls.
LEMMA KeptTurns ==
    ASSUME NEW r \in Requests, Turn(r), \A q \in Requests \ {r} : serving[q] = Idle,
           KeptForm', NEW t, serving'[r] = t, Pending(t)',
           t.op \notin SaveOps => Agreed'
    PROVE  KeptInv'
<1>1. ASSUME NEW q \in Requests PROVE Pending(serving[q])'
  <2>1. CASE q = r
    <3>1. PICK s : s = serving'[q]
      OBVIOUS
    <3>2. Pending(s)'
      BY <2>1, <3>1
    <3>. QED  BY <3>1, <3>2
  <2>2. CASE q # r
    BY <2>2 DEF Turn, Idle, Pending, SaveOps
  <2>. QED  BY <2>1, <2>2
<1>2. AtRest' => Agreed'
  BY DEF AtRest
<1>. QED  BY <1>1, <1>2 DEF KeptInv

LEMMA InstallTells ==
    ASSUME StoreInv, KeptInv, NEW r \in Requests, serving[r].op \in StoreOps
    PROVE  /\ StoreHeld(serving[r])
           /\ \A q \in Requests \ {r} : serving[q] = Idle
           /\ \A q \in Requests : process[q] = process[r]
           /\ serving[r].op \notin SaveOps => Agreed
<1>1. /\ \A q \in Requests \ {r} : serving[q] = Idle
      /\ \A q \in Requests : process[q] = process[r]
  BY OthersIdle DEF StoreInv, PackageOps
<1>2. serving[r].op \notin SaveOps => AtRest
  BY <1>1 DEF AtRest, Idle, SaveOps
<1>. QED  BY <1>1, <1>2, StoreTells DEF KeptInv

LEMMA ClearKeeps ==
    ASSUME StoreInv, KeptInv, NEW r \in Requests, Clear(r)
    PROVE  KeptInv'
<1>1. PICK s : s = serving[r]
  OBVIOUS
<1>2. s.op = "install" /\ s.todo # <<>>
  BY <1>1 DEF Clear
<1>3. /\ StoreHeld(s) /\ Agreed
      /\ \A q \in Requests \ {r} : serving[q] = Idle
  BY <1>1, <1>2, InstallTells DEF StoreOps, SaveOps
<1>4. PICK p : p = Head(s.todo)
  OBVIOUS
<1>5. p.item \in Items
  BY <1>2, <1>3, <1>4, FirstIs DEF StoreInv, StoreHeld
<1>6. PICK t : t = [s EXCEPT !.op = "write"]
  OBVIOUS
<1>7. /\ files' = [files EXCEPT ![p.item] = 0]
      /\ UNCHANGED <<catalog, records, torn, live, lost, stranded>>
      /\ Turn(r) /\ serving'[r] = t
  BY <1>1, <1>4, <1>6, Turns DEF Clear, StoreInv
<1>8. t.op = "write" /\ t.todo = s.todo
  BY <1>3, <1>6 DEF StoreHeld
<1>9. /\ files' \in [Items -> Nat] /\ files'[p.item] = 0
      /\ \A i \in Items \ {p.item} : files'[i] = files[i]
  BY <1>5, <1>7 DEF KeptInv, KeptForm
<1>10. KeptForm'
  BY <1>7, <1>9 DEF KeptInv, KeptForm, LiveAtHome, Published, Turn
<1>11. Agreed'
  <2>1. PICK book : book = Loaded
    OBVIOUS
  <2>2. Loaded' = book
    BY <1>7, <2>1 DEF Loaded
  <2>3. LiveIn(book)'
    BY <1>3, <1>7, <2>1, LiveStays DEF Agreed
  <2>4. LiveIn(Loaded)'
    BY <2>2, <2>3 DEF LiveIn
  <2>5. FilesIn(Items, Loaded)'
    BY <1>3, <1>7, <1>9, <2>1, <2>2 DEF Agreed, FilesIn
  <2>. QED  BY <2>4, <2>5 DEF Agreed
<1>12. Pending(t)'
  BY <1>4, <1>8, <1>9 DEF Pending, SaveOps
<1>. QED  BY <1>3, <1>7, <1>10, <1>11, <1>12, KeptTurns

LEMMA WriteKeeps ==
    ASSUME StoreInv, KeptInv, NEW r \in Requests, Write(r)
    PROVE  KeptInv'
<1>1. PICK s : s = serving[r]
  OBVIOUS
<1>2. s.op = "write"
  BY <1>1 DEF Write
<1>3. /\ StoreHeld(s) /\ Agreed
      /\ \A q \in Requests \ {r} : serving[q] = Idle
      /\ \A q \in Requests : process[q] = process[r]
  BY <1>1, <1>2, InstallTells DEF StoreOps, SaveOps
<1>4. s.todo # <<>> /\ s.book = Loaded /\ s.book \in Books
  BY <1>2, <1>3 DEF StoreHeld
<1>5. PICK p : p = Head(s.todo)
  OBVIOUS
<1>6. /\ p \in Published /\ p.item \in DOMAIN catalog /\ p.item \in Items
      /\ p.version \in DOMAIN catalog[p.item] /\ p.version \in Nat
  BY <1>3, <1>4, <1>5, FirstIs DEF StoreInv, StoreHeld
<1>7. PICK book : book = [s.book EXCEPT ![p.item] = p.version]
  OBVIOUS
<1>8. /\ book[p.item] = p.version
      /\ \A i \in Items \ {p.item} : book[i] = s.book[i]
  BY <1>4, <1>6, <1>7 DEF Books
<1>9. PICK t : t = [s EXCEPT !.op = "save", !.todo = Tail(s.todo), !.book = book]
  OBVIOUS
<1>10. /\ files' = [files EXCEPT ![p.item] = p.version]
       /\ Registers(process[r], PluginOf(p), p)
       /\ Strands(process[r], p)
       /\ lost' = lost \ {p.item}
       /\ UNCHANGED <<catalog, records, torn>>
       /\ Turn(r) /\ serving'[r] = t
  BY <1>1, <1>5, <1>7, <1>9, Turns DEF Write, StoreInv
<1>11. t.op = "save" /\ t.book = book
  BY <1>3, <1>9 DEF StoreHeld
<1>12. /\ files' \in [Items -> Nat] /\ files'[p.item] = p.version
       /\ \A i \in Items \ {p.item} : files'[i] = files[i]
  BY <1>6, <1>10 DEF KeptInv, KeptForm
<1>13. /\ live' \in [Processes -> [Plugins -> Published \cup {None}]]
       /\ \A proc \in Processes : \A g \in Plugins :
             live'[proc][g] = IF proc = process[r] /\ g = PluginOf(p) /\ g # None
                              THEN p ELSE live[proc][g]
  BY <1>6, <1>10 DEF Registers, KeptInv, KeptForm
<1>14. /\ stranded' \in [Processes -> SUBSET Plugins]
       /\ \A proc \in Processes : \A g \in Plugins \ stranded'[proc] :
             proc = process[r] /\ g # PluginOf(p) =>
               /\ g \notin stranded[proc]
               /\ live[proc][g] # None => live[proc][g].item # p.item
       /\ \A proc \in Processes \ {process[r]} : stranded'[proc] = stranded[proc]
  BY <1>10 DEF Strands, KeptInv, KeptForm
<1>15. LiveAtHome'
  BY <1>3, <1>10, <1>13 DEF KeptInv, KeptForm, LiveAtHome, Turn
<1>16. KeptForm'
  BY <1>10, <1>12, <1>13, <1>14, <1>15 DEF KeptForm, Published
<1>17. ASSUME NEW proc \in Processes, NEW g \in Plugins \ stranded'[proc],
              live'[proc][g] # None, NEW i, i = live'[proc][g].item, i \notin lost'
       PROVE  book[i] # 0 /\ PluginOf(Package(i, book[i])) = g
  <2>1. g # None /\ proc = process[r]
    BY <1>3, <1>10, <1>15, <1>17 DEF LiveAtHome, Turn
  <2>2. CASE g = PluginOf(p)
    <3>1. i = p.item
      BY <1>13, <1>17, <2>1, <2>2
    <3>2. p.version # 0
      BY <1>6, NeedsAre DEF StoreInv, Versions
    <3>3. PluginOf(Package(i, p.version)) = PluginOf(p)
      BY <3>1 DEF PluginOf, Package
    <3>. QED  BY <1>8, <2>2, <3>1, <3>2, <3>3
  <2>3. CASE g # PluginOf(p)
    <3>1. live'[proc][g] = live[proc][g]
      BY <1>13, <2>3
    <3>2. i \in Items
      <4>1. live[proc][g] \in Published
        BY <1>17, <3>1 DEF KeptInv, KeptForm
      <4>. QED  BY <1>17, <3>1, <4>1, NeedsAre DEF StoreInv
    <3>3. g \notin stranded[proc] /\ i # p.item
      BY <1>14, <1>17, <2>1, <2>3, <3>1
    <3>4. i \notin lost
      BY <1>10, <1>17, <3>3
    <3>5. s.book[i] # 0 /\ PluginOf(Package(i, s.book[i])) = g
      BY <1>3, <1>4, <1>17, <3>1, <3>3, <3>4 DEF Agreed, LiveIn
    <3>. QED  BY <1>8, <3>2, <3>3, <3>5
  <2>. QED  BY <2>2, <2>3
<1>18. LiveIn(book)'
  BY <1>10, <1>17 DEF LiveIn, PluginOf, Package
<1>19. FilesIn(Items, book)'
  <2>1. ASSUME NEW i \in Items \ lost', files'[i] # 0 PROVE book[i] = files'[i]
    <3>1. CASE i = p.item
      BY <1>8, <1>12, <3>1
    <3>2. CASE i # p.item
      BY <1>3, <1>4, <1>8, <1>10, <1>12, <2>1, <3>2 DEF Agreed, FilesIn
    <3>. QED  BY <3>1, <3>2
  <2>. QED  BY <2>1 DEF FilesIn
<1>20. Pending(t)'
  BY <1>11, <1>18, <1>19 DEF Pending, SaveOps
<1>21. t.op \in SaveOps
  BY <1>11 DEF SaveOps
<1>. QED  BY <1>3, <1>10, <1>16, <1>20, <1>21, KeptTurns

LEMMA EmptyKeeps ==
    ASSUME StoreInv, KeptInv, NEW r \in Requests, Empty(r)
    PROVE  KeptInv'
<1>1. PICK s : s = serving[r]
  OBVIOUS
<1>2. s.op = "save"
  BY <1>1 DEF Empty
<1>3. StoreHeld(s) /\ Pending(s) /\ \A q \in Requests \ {r} : serving[q] = Idle
  BY <1>1, <1>2, InstallTells DEF StoreOps, KeptInv
<1>4. PICK t : t = [s EXCEPT !.op = "fill"]
  OBVIOUS
<1>5. UNCHANGED <<catalog, records, files, live, lost, stranded>> /\ Turn(r) /\ serving'[r] = t
  BY <1>1, <1>4, Turns DEF Empty, StoreInv
<1>6. t.op = "fill" /\ t.book = s.book
  BY <1>3, <1>4 DEF StoreHeld
<1>7. KeptForm'
  BY <1>5 DEF KeptInv, KeptForm, LiveAtHome, Published, Turn
<1>8. LiveIn(s.book)'
  BY <1>2, <1>3, <1>5, LiveStays DEF Pending, SaveOps
<1>9. Pending(t)'
  BY <1>2, <1>3, <1>5, <1>6, <1>8 DEF Pending, FilesIn
<1>10. t.op \in SaveOps
  BY <1>6 DEF SaveOps
<1>. QED  BY <1>3, <1>5, <1>7, <1>9, <1>10, KeptTurns

LEMMA FillKeeps ==
    ASSUME StoreInv, KeptInv, NEW r \in Requests, Fill(r)
    PROVE  KeptInv'
<1>1. PICK s : s = serving[r]
  OBVIOUS
<1>2. s.op = "fill"
  BY <1>1 DEF Fill
<1>3. StoreHeld(s) /\ Pending(s) /\ \A q \in Requests \ {r} : serving[q] = Idle
  BY <1>1, <1>2, InstallTells DEF StoreOps, KeptInv
<1>4. PICK t : t = [s EXCEPT !.op = "install"]
  OBVIOUS
<1>5. /\ records' = s.book /\ torn' = FALSE
      /\ UNCHANGED <<catalog, files, live, lost, stranded>> /\ Turn(r) /\ serving'[r] = t
  BY <1>1, <1>4, Turns DEF Fill, StoreInv
<1>6. t.op = "install" /\ t.book = s.book
  BY <1>3, <1>4 DEF StoreHeld
<1>7. KeptForm'
  BY <1>5 DEF KeptInv, KeptForm, LiveAtHome, Published, Turn
<1>8. PICK book : book = s.book
  OBVIOUS
<1>9. Loaded' = book
  BY <1>5, <1>8 DEF Loaded
<1>10. LiveIn(book)'
  BY <1>2, <1>3, <1>5, <1>8, LiveStays DEF Pending, SaveOps
<1>11. LiveIn(Loaded)'
  BY <1>9, <1>10 DEF LiveIn
<1>12. Agreed'
  BY <1>2, <1>3, <1>5, <1>8, <1>9, <1>11 DEF Agreed, Pending, FilesIn
<1>13. Pending(t)'
  BY <1>6 DEF Pending, SaveOps
<1>. QED  BY <1>3, <1>5, <1>7, <1>12, <1>13, KeptTurns

LEMMA DeleteKeeps ==
    ASSUME StoreInv, KeptInv, NEW r \in Requests, Delete(r)
    PROVE  KeptInv'
<1>1. PICK s : s = serving[r]
  OBVIOUS
<1>2. s.op = "remove"
  BY <1>1 DEF Delete
<1>3. StoreHeld(s) /\ Pending(s) /\ \A q \in Requests \ {r} : serving[q] = Idle
  BY <1>1, <1>2, InstallTells DEF StoreOps, KeptInv
<1>4. PICK t : t = [s EXCEPT !.op = "save"]
  OBVIOUS
<1>5. /\ files' = [files EXCEPT ![s.root.item] = 0]
      /\ UNCHANGED <<catalog, records, torn, live, lost, stranded>> /\ Turn(r) /\ serving'[r] = t
  BY <1>1, <1>4, Turns DEF Delete, StoreInv
<1>6. t.op = "save" /\ t.book = s.book
  BY <1>3, <1>4 DEF StoreHeld
<1>7. /\ files' \in [Items -> Nat]
      /\ \A i \in Items : files'[i] = IF i = s.root.item THEN 0 ELSE files[i]
  BY <1>5 DEF KeptInv, KeptForm
<1>8. KeptForm'
  BY <1>5, <1>7 DEF KeptInv, KeptForm, LiveAtHome, Published, Turn
<1>9. LiveIn(s.book)'
  BY <1>2, <1>3, <1>5, LiveStays DEF Pending, SaveOps
<1>10. FilesIn(Items, s.book)'
  BY <1>2, <1>3, <1>5, <1>7 DEF Pending, FilesIn
<1>11. Pending(t)'
  BY <1>6, <1>9, <1>10 DEF Pending, FilesIn, SaveOps
<1>12. t.op \in SaveOps
  BY <1>6 DEF SaveOps
<1>. QED  BY <1>3, <1>5, <1>8, <1>11, <1>12, KeptTurns

LEMMA UninstallKeeps ==
    ASSUME StoreInv, KeptInv, NEW r \in Requests, NEW i \in DOMAIN catalog, Uninstall(r, i)
    PROVE  KeptInv'
<1>1. PICK before : before = Loaded
  OBVIOUS
<1>2. PICK book : book = [before EXCEPT ![i] = 0]
  OBVIOUS
<1>3. PICK p : p = Package(i, before[i])
  OBVIOUS
<1>4. PICK t : t = [op |-> "remove", root |-> p, todo |-> <<>>, book |-> book,
                    pending |-> Alone, applied |-> {}]
  OBVIOUS
<1>5. /\ Unregisters(process[r], PluginOf(p))
      /\ Starts(r, "packages", t)
      /\ UNCHANGED <<catalog, records, torn, files, lost, stranded>>
  BY <1>1, <1>2, <1>3, <1>4 DEF Uninstall
<1>6. Turn(r) /\ serving'[r] = t
  BY <1>5, Turns DEF StoreInv
<1>7. /\ \A q \in Requests \ {r} : serving[q] = Idle
      /\ \A q \in Requests : process[q] = process[r]
      /\ serving[r] = Idle
  <2>1. catalog # <<>> /\ MayStart(r, "packages")
    BY <1>5 DEF Starts
  <2>. QED  BY <1>5, <2>1, OthersIdle, IdleBefore DEF StoreInv
<1>8. LiveIn(before) /\ FilesIn(Items, before)
  <2>1. AtRest
    BY <1>7 DEF AtRest, Idle, SaveOps
  <2>. QED  BY <1>1, <2>1 DEF KeptInv, Agreed
<1>9. /\ before \in Books /\ i \in Items
      /\ book[i] = 0 /\ before[i] # 0
      /\ \A j \in Items \ {i} : book[j] = before[j]
  BY <1>1, <1>2, LoadedIs DEF StoreInv, WellFormed, Books, Uninstall
<1>10. /\ t.op = "remove" /\ t.book = book /\ t.root.item = i
  BY <1>3, <1>4 DEF Package
<1>11. /\ live' \in [Processes -> [Plugins -> Published \cup {None}]]
       /\ \A proc \in Processes : \A g \in Plugins :
             /\ live'[proc][g] \in {None, live[proc][g]}
             /\ proc = process[r] /\ g = PluginOf(p) /\ g # None => live'[proc][g] = None
  BY <1>5 DEF Unregisters, Registers, KeptInv, KeptForm
<1>12. LiveAtHome'
  BY <1>6, <1>11 DEF KeptInv, KeptForm, LiveAtHome, Turn
<1>13. KeptForm'
  BY <1>5, <1>11, <1>12 DEF KeptInv, KeptForm, Published
<1>14. ASSUME NEW proc \in Processes, NEW g \in Plugins \ stranded[proc],
              live'[proc][g] # None, NEW j, j = live'[proc][g].item, j \notin lost
       PROVE  book[j] # 0 /\ PluginOf(Package(j, book[j])) = g
  <2>1. live[proc][g] = live'[proc][g] /\ live[proc][g] \in Published
    BY <1>11, <1>14 DEF KeptInv, KeptForm
  <2>2. j \in Items
    BY <1>14, <2>1, NeedsAre DEF StoreInv
  <2>3. proc = process[r] /\ g # None
    BY <1>14, <2>1 DEF KeptInv, KeptForm, LiveAtHome
  <2>4. before[j] # 0 /\ PluginOf(Package(j, before[j])) = g
    BY <1>8, <1>14, <2>1 DEF LiveIn
  <2>5. j # i
    BY <1>3, <1>11, <1>14, <2>3, <2>4
  <2>. QED  BY <1>9, <2>2, <2>4, <2>5
<1>15. LiveIn(book)'
  BY <1>5, <1>14 DEF LiveIn, PluginOf, Package
<1>16. /\ FilesIn(Items \ {i}, book)'
       /\ book[i] # Loaded'[i]
  <2>1. Loaded' = before
    BY <1>1, <1>5 DEF Loaded
  <2>. QED  BY <1>5, <1>8, <1>9, <2>1 DEF FilesIn
<1>17. Pending(t)'
  BY <1>10, <1>15, <1>16 DEF Pending, FilesIn, SaveOps
<1>18. t.op \in SaveOps
  BY <1>10 DEF SaveOps
<1>. QED  BY <1>6, <1>7, <1>13, <1>17, <1>18, KeptTurns

\* Where the file does not tell what the book does, nothing is claimed any more.
LEMMA LessIsAgreed ==
    ASSUME NEW book, LiveIn(book), FilesIn(Items, book), NEW more,
           \A i \in Items \ more : book[i] = Loaded[i],
           lost' = lost \cup more, UNCHANGED <<catalog, records, torn, files, live, stranded>>,
           KeptForm, StoreInv
    PROVE  Agreed'
<1>1. PICK before : before = Loaded
  OBVIOUS
<1>2. Loaded' = before
  BY <1>1 DEF Loaded
<1>3. ASSUME NEW proc \in Processes, NEW g \in Plugins \ stranded[proc], live[proc][g] # None,
             NEW i, i = live[proc][g].item, i \notin lost'
      PROVE  before[i] # 0 /\ PluginOf(Package(i, before[i])) = g
  <2>1. i \in Items
    <3>1. live[proc][g] \in Published
      BY <1>3 DEF KeptForm
    <3>. QED  BY <1>3, <3>1, NeedsAre DEF StoreInv
  <2>2. book[i] # 0 /\ PluginOf(Package(i, book[i])) = g
    BY <1>3 DEF LiveIn
  <2>. QED  BY <1>1, <1>3, <2>1, <2>2
<1>4. LiveIn(Loaded)'
  BY <1>2, <1>3 DEF LiveIn, PluginOf, Package
<1>5. FilesIn(Items, Loaded)'
  BY <1>1, <1>2 DEF FilesIn
<1>. QED  BY <1>4, <1>5 DEF Agreed

LEMMA SaveFailsKeeps ==
    ASSUME StoreInv, KeptInv, NEW r \in Requests, SaveFails(r)
    PROVE  KeptInv'
<1>1. PICK s : s = serving[r]
  OBVIOUS
<1>2. s.op \in {"save", "fill"}
  BY <1>1 DEF SaveFails
<1>3. StoreHeld(s) /\ Pending(s) /\ \A q \in Requests \ {r} : serving[q] = Idle
  BY <1>1, <1>2, InstallTells DEF StoreOps, KeptInv
<1>4. /\ UNCHANGED <<catalog, records, torn, files, live, stranded>>
      /\ lost' = lost \cup Unrecorded(s)
      /\ Turn(r) /\ serving'[r] = Idle
  BY <1>1, Turns DEF SaveFails, Answers, StoreInv
<1>5. KeptForm'
  BY <1>4 DEF KeptInv, KeptForm, LiveAtHome, Published, Turn
<1>6. Agreed'
  <2>1. LiveIn(s.book) /\ FilesIn(Items, s.book)
    BY <1>2, <1>3 DEF Pending, SaveOps
  <2>2. \A i \in Items \ Unrecorded(s) : s.book[i] = Loaded[i]
    BY DEF Unrecorded
  <2>. QED  BY <1>4, <2>1, <2>2, LessIsAgreed DEF KeptInv
<1>7. Pending(Idle)'
  BY DEF Pending, Idle, SaveOps
<1>. QED  BY <1>3, <1>4, <1>5, <1>6, <1>7, KeptTurns

LEMMA DeathKeepsStore ==
    ASSUME StoreInv, KeptInv, NEW p \in Processes, Dies(p), Forgets(p)
    PROVE  KeptInv'
<1>1. /\ UNCHANGED <<process, catalog, records, torn, files>>
      /\ \A q \in Requests : serving'[q] = IF process[q] = p THEN Idle ELSE serving[q]
      /\ \E q \in Requests : process[q] = p
  BY DEF Dies, Forgets
<1>2. /\ live' \in [Processes -> [Plugins -> Published \cup {None}]]
      /\ \A proc \in Processes : \A g \in Plugins :
            live'[proc][g] = IF proc = p THEN None ELSE live[proc][g]
      /\ stranded' \in [Processes -> SUBSET Plugins]
      /\ \A proc \in Processes \ {p} : stranded'[proc] = stranded[proc]
  BY DEF Forgets, KeptInv, KeptForm
<1>3. /\ lost \subseteq lost'
      /\ \A q \in Requests :
            process[q] = p /\ serving[q].op \in SaveOps => Unrecorded(serving[q]) \subseteq lost'
  BY DEF Forgets, SaveOps
<1>4. KeptForm'
  BY <1>1, <1>2 DEF KeptInv, KeptForm, LiveAtHome, Published
<1>5. PICK before : before = Loaded
  OBVIOUS
<1>6. Loaded' = before
  BY <1>1, <1>5 DEF Loaded
<1>7. \A q \in Requests : serving[q].op \in SaveOps => process[q] = p
  <2>1. ASSUME NEW q \in Requests, serving[q].op \in SaveOps PROVE process[q] = p
    <3>1. \A t \in Requests : process[t] = process[q]
      BY <2>1, OthersIdle DEF StoreInv, SaveOps, PackageOps, StoreOps
    <3>. QED  BY <1>1, <3>1
  <2>. QED  BY <2>1
<1>8. Agreed'
  <2>1. CASE AtRest
    <3>1. LiveIn(before) /\ FilesIn(Items, before)
      BY <1>5, <2>1 DEF KeptInv, Agreed
    <3>2. LiveIn(before)'
      BY <1>1, <1>2, <1>3, <3>1 DEF LiveIn, PluginOf, Package
    <3>3. LiveIn(Loaded)'
      BY <1>6, <3>2 DEF LiveIn
    <3>4. FilesIn(Items, Loaded)'
      BY <1>1, <1>3, <1>6, <3>1 DEF FilesIn
    <3>. QED  BY <3>3, <3>4 DEF Agreed
  <2>2. CASE ~AtRest
    <3>1. PICK q \in Requests : serving[q].op \in SaveOps
      BY <2>2 DEF AtRest
    <3>2. PICK s : s = serving[q]
      OBVIOUS
    <3>3. Pending(s) /\ Unrecorded(s) \subseteq lost' /\ s.op \in SaveOps
      BY <1>3, <1>7, <3>1, <3>2 DEF KeptInv
    <3>4. \A proc \in Processes : \A g \in Plugins : live'[proc][g] = None
      BY <1>2, <1>7, <3>1 DEF KeptInv, KeptForm, LiveAtHome
    <3>5. LiveIn(Loaded)'
      BY <3>4 DEF LiveIn
    <3>6. ASSUME NEW i \in Items \ lost', files[i] # 0 PROVE before[i] = files[i]
      <4>1. s.book[i] = before[i] /\ i \notin lost
        BY <1>3, <1>5, <3>3, <3>6 DEF Unrecorded
      <4>2. CASE s.op = "remove"
        <5>1. i # s.root.item
          BY <1>5, <3>3, <4>1, <4>2 DEF Pending
        <5>. QED  BY <3>3, <3>6, <4>1, <4>2, <5>1 DEF Pending, FilesIn
      <4>3. CASE s.op # "remove"
        BY <3>3, <3>6, <4>1, <4>3 DEF Pending, FilesIn, SaveOps
      <4>. QED  BY <4>2, <4>3
    <3>7. FilesIn(Items, Loaded)'
      BY <1>1, <1>6, <3>6 DEF FilesIn
    <3>. QED  BY <3>5, <3>7 DEF Agreed
  <2>. QED  BY <2>1, <2>2
<1>9. ASSUME NEW q \in Requests PROVE Pending(serving[q])'
  <2>1. CASE process[q] = p
    BY <1>1, <2>1 DEF Pending, Idle, SaveOps
  <2>2. CASE process[q] # p
    <3>1. serving'[q] = serving[q] /\ serving[q].op \notin SaveOps
      BY <1>1, <1>7, <2>2
    <3>. QED  BY <1>1, <3>1 DEF KeptInv, Pending, SaveOps
  <2>. QED  BY <2>1, <2>2
<1>. QED  BY <1>4, <1>8, <1>9 DEF KeptInv

\* Steps of the marketplace that change none of its variables.
LEMMA OtherwiseKept ==
    ASSUME StoreInv, KeptInv, NEW r \in Requests, MarketplaceStep(r),
           ~Clear(r), ~Write(r), ~Empty(r), ~Fill(r), ~SaveFails(r), ~Delete(r),
           \A i \in DOMAIN catalog : ~Uninstall(r, i)
    PROVE  KeptInv'
<1>1. UNCHANGED <<catalog, installerVars>> /\ Turn(r)
  <2>1. UNCHANGED <<catalog, installerVars>>
    BY DEF MarketplaceStep, Install, AutoUpdate, ResolveStep, Gate, Skip, Break, Finish,
           UpdateNext, Report, Answer, marketplaceVars
  <2>. QED  BY <2>1, StoreElsewhere DEF StoreInv
<1>2. ASSUME NEW request, \/ Continues(r, request)
                          \/ Starts(r, "packages", request),
             request.op \notin SaveOps \cup {"write"}, serving[r].op \notin SaveOps
      PROVE  KeptInv'
  <2>1. serving'[r] = request
    BY <1>2, Turns DEF StoreInv
  <2>. QED  BY <1>1, <1>2, <2>1, KeptApart DEF Turn
<1>3. CASE \/ \E p \in Published, flags \in Flags : Install(r, p, flags)
           \/ \E flags \in Flags : AutoUpdate(r, [flags EXCEPT !.unverified = FALSE])
  <2>1. \A p, flags : Asks(p, flags, Alone, {}).op = "collect"
    BY DEF Asks
  <2>2. PICK request : Starts(r, "packages", request) /\ request.op \in {"collect", "updates"}
    <3>1. CASE \E p \in Published, flags \in Flags : Install(r, p, flags)
      BY <2>1, <3>1 DEF Install
    <3>2. CASE \E flags \in Flags : AutoUpdate(r, [flags EXCEPT !.unverified = FALSE])
      BY <3>2 DEF AutoUpdate
    <3>. QED  BY <1>3, <3>1, <3>2
  <2>3. serving[r] = Idle
    BY <2>2, IdleBefore
  <2>. QED  BY <1>2, <2>2, <2>3 DEF Idle, SaveOps
<1>4. CASE ResolveStep(r)
  <2>1. serving[r].op \in ResolveOps
    BY <1>4 DEF ResolveStep, Collect, CollectReturns, Visit, VisitReturns, ResolveOps
  <2>2. \E request : Continues(r, request) /\ request.op \in ResolveOps
    BY <1>4, CollectSteps, CollectReturnSteps, VisitSteps, VisitReturnSteps DEF ResolveStep
  <2>. QED  BY <1>2, <2>1, <2>2 DEF ResolveOps, SaveOps
<1>5. CASE Gate(r) \/ Break(r) \/ Finish(r)
  <2>1. serving[r].op \in {"gate", "write", "install"}
    BY <1>5 DEF Gate, Break, Finish
  <2>2. \E request : Continues(r, request) /\ request.op \in {"install", "updates", "idle"}
    BY <1>5 DEF Gate, Break, Finish, Ends, Answers, Idle
  <2>. QED  BY <1>2, <2>1, <2>2 DEF SaveOps
<1>6. CASE Skip(r)
  <2>1. "op" \in DOMAIN serving[r] /\ serving[r].op = "install"
    BY <1>6 DEF Skip, StoreInv, ServingForm, Requested
  <2>2. \E request : Continues(r, request) /\ request.op = "install"
    BY <1>6, <2>1 DEF Skip
  <2>. QED  BY <1>2, <2>1, <2>2 DEF SaveOps
<1>7. CASE UpdateNext(r) \/ Report(r) \/ Answer(r)
  <2>1. "op" \in DOMAIN serving[r] /\ serving[r].op \in {"updates", "updated"}
    BY <1>7 DEF UpdateNext, Report, Answer, StoreInv, ServingForm, Requested
  <2>2. \E request : Continues(r, request) /\ request.op \in {"collect", "updates", "updated", "idle"}
    <3>1. \A p, flags, pending, applied : Asks(p, flags, pending, applied).op = "collect"
      BY DEF Asks
    <3>2. CASE UpdateNext(r)
      BY <2>1, <3>1, <3>2 DEF UpdateNext
    <3>3. CASE Report(r) \/ Answer(r)
      BY <3>3 DEF Report, Answer, Answers, Idle
    <3>. QED  BY <1>7, <3>2, <3>3
  <2>. QED  BY <1>2, <2>1, <2>2 DEF SaveOps
<1>. QED  BY <1>3, <1>4, <1>5, <1>6, <1>7 DEF MarketplaceStep

LEMMA KeptNext ==
    ASSUME StoreInv, KeptInv, [Next]_vars
    PROVE  KeptInv'
<1>1. CASE \E r \in Requests : MarketplaceStep(r)
  <2>1. PICK r \in Requests : MarketplaceStep(r)
    BY <1>1
  <2>. QED
    BY <2>1, ClearKeeps, WriteKeeps, EmptyKeeps, FillKeeps, SaveFailsKeeps, DeleteKeeps,
       UninstallKeeps, OtherwiseKept
<1>2. CASE \E r \in Requests : SignInsStep(r) /\ UNCHANGED marketplaceVars
  <2>1. PICK r \in Requests : SignInsStep(r) /\ UNCHANGED marketplaceVars
    BY <1>2
  <2>2. /\ Turn(r)
        /\ serving[r].op \in SignInOps \cup {"idle"}
        /\ serving'[r].op \in SignInOps \cup {"idle"}
    BY <2>1, SignInTurns DEF StoreInv
  <2>3. UNCHANGED <<process, catalog, installerVars>>
    BY <2>1, <2>2 DEF Turn, marketplaceVars
  <2>. QED  BY <2>2, <2>3, KeptApart DEF Turn, SignInOps, SaveOps
<1>3. CASE (Lapses /\ UNCHANGED marketplaceVars) \/ UNCHANGED vars
  <2>1. UNCHANGED <<process, serving, catalog, installerVars>>
    BY <1>3 DEF Lapses, SessionLapses, LinkLapses, vars, marketplaceVars
  <2>. QED  BY <2>1, KeptApart
<1>4. CASE \E p \in Processes : Dies(p) /\ Forgets(p)
  BY <1>4, DeathKeepsStore
<1>. QED  BY <1>1, <1>2, <1>3, <1>4 DEF Next

LEMMA KeptStart == Init => KeptInv
<1>. SUFFICES ASSUME Init PROVE KeptInv
  OBVIOUS
<1>1. serving = [r \in Requests |-> Idle]
  BY DEF Init, WorkersInit
<1>2. /\ live = [proc \in Processes |-> [g \in Plugins |-> None]]
      /\ stranded = [proc \in Processes |-> {}]
      /\ files = [i \in Items |-> 0]
  BY DEF Init, NothingInstalled
<1>3. KeptForm
  BY <1>2 DEF KeptForm, LiveAtHome
<1>4. Agreed
  BY <1>2 DEF Agreed, LiveIn, FilesIn
<1>5. \A r \in Requests : Pending(serving[r])
  BY <1>1 DEF Pending, Idle, SaveOps
<1>. QED  BY <1>3, <1>4, <1>5 DEF KeptInv

\* install, uninstall: when no request is served, every live plugin has a record
\* that uninstalls it, and files have one that names their version, but for the
\* items whose record a save that failed or a worker that died kept from the
\* file, and the plugins that an update to another plugin left - whichever
\* packages failed, for catalogs of any size, whatever their versions register.
THEOREM InstalledStaysRecorded == Spec => []InstalledIsRecorded
<1>1. KeptInv => InstalledIsRecorded
  <2>. SUFFICES ASSUME KeptInv, Quiet PROVE Agreed
    BY DEF InstalledIsRecorded, Agreed, LiveIn, FilesIn
  <2>. QED  BY DEF KeptInv, Quiet, AtRest, Idle, SaveOps
<1>2. StoreInv /\ KeptInv /\ [Next]_vars => KeptInv'
  BY KeptNext
<1>. QED  BY <1>1, <1>2, KeptStart, StoreAlways, PTL DEF Spec
=============================================================================
