------------------------------- MODULE Workspaces -------------------------------
(***************************************************************************)
(* Accounts of one instance and the members of its workspaces: signing up, *)
(* inviting, changing roles, removing, deactivating. A handler checks what *)
(* it reads, then changes one file under its lock; another process may     *)
(* have changed it in between, and only what is checked under the lock is  *)
(* sure.                                                                   *)
(***************************************************************************)
EXTENDS Workers, TLC

CONSTANTS
    Users,
    Spaces,     \* the workspaces there may be
    Default     \* the one that is the root data directory

ASSUME WorkspacesAssumption == Default \in Spaces

VARIABLES
    accounts,   \* users.json
    members     \* workspaces.json: the roster of each workspace that was made

workspacesVars == <<accounts, members>>

Roles == {"owner", "admin", "engineer", "viewer"}
NoAccount == [role |-> "none", active |-> FALSE]

Known == {u \in Users : accounts[u] # NoAccount}
Made == DOMAIN members

\* The role in the workspace; the account owner is an owner of every one.
Role(u, w) ==
    IF w \in Made /\ members[w][u] # "none" THEN members[w][u]
    ELSE IF accounts[u].role = "owner" THEN "owner" ELSE "none"

\* Signed in, and let into the workspace.
Acts(u, w, roles) == accounts[u].active /\ Role(u, w) \in roles

Owners(w) == {u \in Users : members[w][u] = "owner"}

(***************************************************************************)
(* auth_signup: the first account of an instance is its owner, and gets    *)
(* the default workspace; later ones are made by those who may invite.     *)
(***************************************************************************)
SignUp(r, u) ==
    /\ \/ Known = {}
       \/ \E v \in Users, w \in Spaces : Acts(v, w, {"owner", "admin"})
    /\ Starts(r, "people", [op |-> "signup", user |-> u, first |-> Known = {}])
    /\ UNCHANGED workspacesVars

\* Faulty: whether it is the first is not looked at again under the lock.
AccountRoleAsSeen(r) == IF serving[r].first THEN "owner" ELSE "engineer"

AccountRole(r) == IF Known = {} THEN "owner" ELSE "engineer"

SignUpAccount(r) ==
    LET s == serving[r] IN
    /\ s.op = "signup"
    /\ IF s.user \in Known
       THEN Answers(r) /\ UNCHANGED accounts
       ELSE /\ accounts' = [accounts EXCEPT ![s.user] =
                              [role |-> AccountRole(r), active |-> TRUE]]
            /\ Continues(r, [s EXCEPT !.op = "signup_space"])
    /\ UNCHANGED members

OwnedBy(u) == [v \in Users |-> IF v = u THEN "owner" ELSE "none"]

\* A workspace that there is already stays as it is.
WithSpace(w, roster) ==
    [v \in Made \cup {w} |-> IF v \in Made THEN members[v] ELSE roster]

SignUpSpace(r) ==
    LET s == serving[r] IN
    /\ s.op = "signup_space"
    /\ members' = IF s.first \/ Made = {}
                  THEN WithSpace(Default, OwnedBy(s.user)) ELSE members
    /\ Answers(r)
    /\ UNCHANGED accounts

\* A worker that restarts registers the default workspace if there is none,
\* with every account in it at the role of the account.
Restart(p) ==
    /\ Dies(p)
    /\ members' = IF Made = {} /\ Known # {}
                  THEN WithSpace(Default, [u \in Users |-> accounts[u].role]) ELSE members
    /\ UNCHANGED accounts

\* Only the account owner; the name of a workspace is taken once.
CreateSpace(r, v, w) ==
    /\ accounts[v].role = "owner"
    /\ w # Default
    /\ w \notin Made
    /\ Starts(r, "people", Idle)
    /\ members' = WithSpace(w, OwnedBy(v))
    /\ UNCHANGED accounts

(***************************************************************************)
(* create_user: an account if there is none, then the membership.          *)
(***************************************************************************)
InviteStep(u) == IF u \in Known THEN "invite" ELSE "invite_account"

Invite(r, v, w, u, role) ==
    /\ w \in Made
    /\ Acts(v, w, IF role = "owner" THEN {"owner"} ELSE {"owner", "admin"})
    /\ members[w][u] = "none"
    /\ Starts(r, "people", [op |-> InviteStep(u),
                            space |-> w, user |-> u, role |-> role])
    /\ UNCHANGED workspacesVars

InviteAccount(r) ==
    LET s == serving[r] IN
    /\ s.op = "invite_account"
    /\ IF s.user \in Known
       THEN Answers(r) /\ UNCHANGED accounts
       ELSE /\ accounts' = [accounts EXCEPT ![s.user] = [role |-> "viewer", active |-> TRUE]]
            /\ Continues(r, [s EXCEPT !.op = "invite"])
    /\ UNCHANGED members

\* add_member writes the role whatever the member has become.
InviteMember(r) ==
    LET s == serving[r] IN
    /\ s.op = "invite"
    /\ members' = [members EXCEPT ![s.space][s.user] = s.role]
    /\ Answers(r)
    /\ UNCHANGED accounts

(***************************************************************************)
(* change_role and delete_user: "none" is the role of one who is removed.  *)
(***************************************************************************)
ChangeRole(r, v, w, u, role) ==
    /\ w \in Made
    /\ members[w][u] \notin {"none", role}
    /\ v # u
    /\ Acts(v, w, IF "owner" \in {role, members[w][u]} THEN {"owner"}
                  ELSE {"owner", "admin"})
    /\ Starts(r, "people", [op |-> "role", space |-> w, user |-> u, role |-> role])
    /\ UNCHANGED workspacesVars

\* Faulty: the last owner is demoted like any other.
KeepsOwnerAlways(w, u, role) == TRUE

\* Checked under the lock.
KeepsOwner(w, u, role) == role = "owner" \/ Owners(w) # {u}

SetRole(r) ==
    LET s == serving[r] IN
    /\ s.op = "role"
    /\ members' = IF members[s.space][s.user] # "none" /\ KeepsOwner(s.space, s.user, s.role)
                  THEN [members EXCEPT ![s.space][s.user] = s.role] ELSE members
    /\ Answers(r)
    /\ UNCHANGED accounts

(***************************************************************************)
(* deactivate_user and activate_user.                                      *)
(***************************************************************************)
ChangeStatus(r, v, w, u, active) ==
    /\ w \in Made
    /\ Acts(v, w, {"owner"})
    /\ members[w][u] # "none"
    /\ ~active => v # u /\ members[w][u] # "owner"
    /\ Starts(r, "people", [op |-> "status", user |-> u, active |-> active])
    /\ UNCHANGED workspacesVars

SetStatus(r) ==
    LET s == serving[r] IN
    /\ s.op = "status"
    /\ accounts' = IF s.active \/ accounts[s.user].role # "owner"
                   THEN [accounts EXCEPT ![s.user].active = s.active] ELSE accounts
    /\ Answers(r)
    /\ UNCHANGED members

WorkspacesStep(r) ==
    \/ \E u \in Users : SignUp(r, u)
    \/ \E v \in Users, w \in Spaces :
          \/ CreateSpace(r, v, w)
          \/ \E u \in Users :
                \/ \E role \in Roles : Invite(r, v, w, u, role)
                \/ \E role \in Roles \cup {"none"} : ChangeRole(r, v, w, u, role)
                \/ \E active \in BOOLEAN : ChangeStatus(r, v, w, u, active)
    \/ SignUpAccount(r)
    \/ SignUpSpace(r)
    \/ InviteAccount(r)
    \/ InviteMember(r)
    \/ SetRole(r)
    \/ SetStatus(r)
=============================================================================
