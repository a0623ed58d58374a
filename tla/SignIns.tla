--------------------------------- MODULE SignIns ---------------------------------
(***************************************************************************)
(* Signing in to the console: passwords, the sessions opened with them,    *)
(* and the links that reset a password. Each file is changed under one     *)
(* lock, but a handler changes several, one after the other, and a sign-in *)
(* checks the password without it.                                         *)
(***************************************************************************)
EXTENDS Workers, SequencesExt

CONSTANTS
    Users,      \* the accounts that are looked at
    Owners,     \* whose accounts are not deactivated
    Tokens,     \* Bound: one session each
    Links       \* Bound: the links that may be handed out

ASSUME SignInsAssumption == Owners \subseteq Users /\ "nobody" \notin Users

VARIABLES
    standing,   \* users.json: which password an account has; how often it was
                \* deactivated, and removed from the workspace
    active,     \* users.json: the accounts that are not deactivated
    members,    \* workspaces.json: the members of the workspace
    sessions,   \* sessions.json: by token
    links,      \* reset_tokens.json: whose password a link resets
    handed,     \* history: the links handed out
    resets,     \* history: the links that have changed a password
    interrupted \* history: whose reset or deactivation died with its process

accountFiles == <<standing, active, members, sessions, links>>
history == <<handed, resets, interrupted>>
signInsVars == <<accountFiles, history>>

\* proved: the password that opened it; under: how the account stood then.
NoSession == [user |-> "nobody"]
Session(u, proved) == [user |-> u, proved |-> proved, under |-> standing[u]]
SessionsOf(u) == {t \in Tokens : sessions[t].user = u}

NoLink == "nobody"

\* Faulty: it keeps the lock while it revokes the sessions, for which it takes it.
LockedThroughout == \E r \in Requests : serving[r].op \in {"burn", "revoke"}

\* A reset keeps the lock from the new password to the end of the link.
Locked == \E r \in Requests : serving[r].op = "burn"

(***************************************************************************)
(* auth_login, auth_logout.                                                *)
(***************************************************************************)
Login(r, u) ==
    /\ u \in active
    /\ Starts(r, "signins", [op |-> "open", user |-> u, proved |-> standing[u].password])
    /\ UNCHANGED signInsVars

\* create_session.
OpenSession(r) ==
    LET s == serving[r] IN
    /\ s.op = "open"
    /\ ~Locked
    /\ \E t \in Tokens :
         /\ sessions[t] = NoSession
         /\ sessions' = [sessions EXCEPT ![t] = Session(s.user, s.proved)]
    /\ Answers(r)
    /\ UNCHANGED <<standing, active, members, links, history>>

Logout(r, t) ==
    /\ sessions[t] # NoSession
    /\ ~Locked
    /\ Starts(r, "signins", Idle)
    /\ sessions' = [sessions EXCEPT ![t] = NoSession]
    /\ UNCHANGED <<standing, active, members, links, history>>

(***************************************************************************)
(* Reset links: asked for by the account, minted by an admin or sent with  *)
(* an invitation, each by create_reset_token.                              *)
(***************************************************************************)
\* Faulty: earlier links stay.
EarlierLinksStay(u) == links

\* The links without those of the account.
WithoutLinks(u) == [l \in Links |-> IF links[l] = u THEN NoLink ELSE links[l]]

Unused(l) == \A i \in DOMAIN handed : handed[i].link # l

Mint(r, u, l) ==
    /\ Unused(l)
    /\ ~Locked
    /\ Starts(r, "signins", Idle)
    /\ links' = [WithoutLinks(u) EXCEPT ![l] = u]
    /\ handed' = Append(handed, [user |-> u, link |-> l])
    /\ UNCHANGED <<standing, active, members, sessions, resets, interrupted>>

\* Faulty: the lock is left between the new password and the end of the link.
ResetUnlocked(r, l) ==
    /\ links[l] # NoLink
    /\ standing' = [standing EXCEPT ![links[l]].password = @ + 1]
    /\ resets' = Append(resets, l)
    /\ Starts(r, "signins", [op |-> "burn", user |-> links[l]])
    /\ UNCHANGED <<active, members, sessions, links, handed, interrupted>>

\* reset_password, of a link that is live under the lock.
Reset(r, l) ==
    /\ links[l] # NoLink
    /\ ~Locked
    /\ standing' = [standing EXCEPT ![links[l]].password = @ + 1]
    /\ resets' = Append(resets, l)
    /\ Starts(r, "signins", [op |-> "burn", user |-> links[l]])
    /\ UNCHANGED <<active, members, sessions, links, handed, interrupted>>

Burn(r) ==
    LET s == serving[r] IN
    /\ s.op = "burn"
    /\ links' = WithoutLinks(s.user)
    /\ Continues(r, [op |-> "revoke", user |-> s.user])
    /\ UNCHANGED <<standing, active, members, sessions, history>>

\* Faulty: one session ends, the others stay.
RevokesOne(u) ==
    LET t == IF SessionsOf(u) = {} THEN {} ELSE {CHOOSE t \in SessionsOf(u) : TRUE} IN
    sessions' = [k \in Tokens |-> IF k \in t THEN NoSession ELSE sessions[k]]

\* revoke_sessions.
Revokes(u) ==
    sessions' = [t \in Tokens |-> IF sessions[t].user = u THEN NoSession ELSE sessions[t]]

Revoke(r) ==
    LET s == serving[r] IN
    /\ s.op = "revoke"
    /\ ~Locked
    /\ Revokes(s.user)
    /\ Answers(r)
    /\ UNCHANGED <<standing, active, members, links, history>>

(***************************************************************************)
(* deactivate_user, activate_user, delete_user, create_user of one who has *)
(* an account.                                                             *)
(***************************************************************************)
Deactivate(r, u) ==
    /\ u \in members \ Owners
    /\ ~Locked
    /\ active' = active \ {u}
    /\ standing' = [standing EXCEPT ![u].blocks = @ + 1]
    /\ Starts(r, "signins", [op |-> "revoke", user |-> u])
    /\ UNCHANGED <<members, sessions, links, history>>

Activate(r, u) ==
    /\ u \in members
    /\ ~Locked
    /\ active' = active \cup {u}
    /\ Starts(r, "signins", Idle)
    /\ UNCHANGED <<standing, members, sessions, links, history>>

\* The roster has a lock of its own. Whether an owner may go is for Workspaces.
RemoveMember(r, u) ==
    /\ u \in members \ Owners
    /\ members' = members \ {u}
    /\ standing' = [standing EXCEPT ![u].removals = @ + 1]
    /\ Starts(r, "signins", Idle)
    /\ UNCHANGED <<active, sessions, links, history>>

Readmit(r, u) ==
    /\ u \notin members
    /\ members' = members \cup {u}
    /\ Starts(r, "signins", Idle)
    /\ UNCHANGED <<standing, active, sessions, links, history>>

(***************************************************************************)
(* Time, and workers that die. An entry past its time is ignored by every  *)
(* reader, as if it were gone.                                             *)
(***************************************************************************)
SessionLapses(t) ==
    /\ sessions[t] # NoSession
    /\ sessions' = [sessions EXCEPT ![t] = NoSession]
    /\ UNCHANGED <<process, serving, spare, standing, active, members, links, history>>

LinkLapses(l) ==
    /\ links[l] # NoLink
    /\ ~Locked
    /\ links' = [links EXCEPT ![l] = NoLink]
    /\ UNCHANGED <<process, serving, spare, standing, active, members, sessions, history>>

\* The lock goes with the process that holds it.
Interrupts(p) ==
    /\ interrupted' = interrupted \cup
         {serving[r].user : r \in {q \in Requests : process[q] = p /\ serving[q].op \in {"burn", "revoke"}}}
    /\ UNCHANGED <<accountFiles, handed, resets>>

SignInsProgress(r) == OpenSession(r) \/ Burn(r) \/ Revoke(r)

SignInsStep(r) ==
    \/ \E u \in Users :
         \/ Login(r, u)
         \/ \E l \in Links : Mint(r, u, l)
         \/ Deactivate(r, u)
         \/ Activate(r, u)
         \/ RemoveMember(r, u)
         \/ Readmit(r, u)
    \/ \E t \in Tokens : Logout(r, t)
    \/ \E l \in Links : Reset(r, l)
    \/ SignInsProgress(r)

Lapses ==
    \/ \E t \in Tokens : SessionLapses(t)
    \/ \E l \in Links : LinkLapses(l)

NobodySignedIn ==
    /\ standing = [u \in Users |-> [password |-> 0, blocks |-> 0, removals |-> 0]]
    /\ active = Users
    /\ members = Users
    /\ sessions = [t \in Tokens |-> NoSession]
    /\ links = [l \in Links |-> NoLink]
    /\ handed = <<>>
    /\ resets = <<>>
    /\ interrupted = {}
=============================================================================
