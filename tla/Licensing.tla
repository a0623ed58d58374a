------------------------------- MODULE Licensing -------------------------------
(***************************************************************************)
(* Licenses of one tenant, the files signed for them, and the enrollment   *)
(* of instances by one-time tokens. A file is signed from the row of its   *)
(* license as it is then, whatever its state; a license is bound to the    *)
(* instance it was last activated for.                                     *)
(***************************************************************************)
EXTENDS Sessions, Sequences, FiniteSets

CONSTANTS
    Tokens,     \* enrollment tokens
    Days,       \* the ends of term a license is issued with or renewed to
    LastDay,    \* bound: time stops here
    TokenDays   \* how many days a token is good for

ASSUME LicensingAssumption ==
    /\ IsFiniteSet(Tokens)
    /\ Days \subseteq Nat
    /\ {LastDay, TokenDays} \subseteq Nat

VARIABLES
    today,
    tokens,         \* instance_enrollment_tokens
    instances,      \* in order of enrollment
    licenses,       \* in order of issue
    files           \* license_files, in order

licensingVars == <<today, tokens, instances, licenses, files>>

NoToken == [state |-> "none", expires |-> 0]
EnrollmentTokens == [state : {"none", "PENDING", "CONSUMED"}, expires : Nat]
Instances == [token : Tokens, state : {"ACTIVE", "REVOKED"}]

\* instance 0: bound to none.
Licenses == [state : {"ISSUED", "ACTIVE", "REVOKED"}, instance : Nat, ends : Nat]

CreateToken(c, t) ==
    /\ tokens[t] = NoToken
    /\ Begins(c, "licensing", [op |-> "token", token |-> t, expires |-> today + TokenDays])
    /\ UNCHANGED licensingVars

CommitToken(c) ==
    LET s == session[c] IN
    /\ s.op = "token"
    /\ tokens' = [tokens EXCEPT ![s.token] = [state |-> "PENDING", expires |-> s.expires]]
    /\ Commits(c, "licensing")
    /\ UNCHANGED <<today, instances, licenses, files>>

\* An expired token is refused and the EXPIRED mark rolls back with the refusal.
EnrollInstance(c, t) ==
    /\ tokens[t].state = "PENDING"
    /\ tokens[t].expires > today
    /\ Begins(c, "licensing", [op |-> "enroll", token |-> t])
    /\ UNCHANGED licensingVars

\* Faulty: the token is left as it was.
CommitEnrollmentKeepingToken(c) ==
    /\ session[c].op = "enroll"
    /\ instances' = Append(instances, [token |-> session[c].token, state |-> "ACTIVE"])
    /\ Commits(c, "licensing")
    /\ UNCHANGED <<today, tokens, licenses, files>>

CommitEnrollment(c) ==
    /\ session[c].op = "enroll"
    /\ instances' = Append(instances, [token |-> session[c].token, state |-> "ACTIVE"])
    /\ tokens' = [tokens EXCEPT ![session[c].token].state = "CONSUMED"]
    /\ Commits(c, "licensing")
    /\ UNCHANGED <<today, licenses, files>>

RevokeInstance(c, i) ==
    /\ Begins(c, "licensing", [op |-> "revoke_instance", id |-> i])
    /\ UNCHANGED licensingVars

CommitInstanceRevocation(c) ==
    /\ session[c].op = "revoke_instance"
    /\ instances' = [instances EXCEPT ![session[c].id].state = "REVOKED"]
    /\ Commits(c, "licensing")
    /\ UNCHANGED <<today, tokens, licenses, files>>

\* The end is the term_end of the subscription, and an instance may be named.
IssueLicense(c, i, ends) ==
    /\ Begins(c, "licensing", [op |-> "issue", instance |-> i, ends |-> ends])
    /\ UNCHANGED licensingVars

CommitIssue(c) ==
    /\ session[c].op = "issue"
    /\ licenses' = Append(licenses, [state |-> "ISSUED", ends |-> session[c].ends,
                                     instance |-> session[c].instance])
    /\ Commits(c, "licensing")
    /\ UNCHANGED <<today, tokens, instances, files>>

FilesOf(l) == {f \in DOMAIN files : files[f].license = l}

\* The payload is the license as the transaction read it, whatever its state.
\* The serial is one more than the last, and the last is how many there are.
SignFile(c, l) ==
    /\ Begins(c, "licensing",
              [op |-> "sign",
               file |-> [license |-> l, serial |-> Cardinality(FilesOf(l)) + 1,
                         instance |-> licenses[l].instance, ends |-> licenses[l].ends]])
    /\ UNCHANGED licensingVars

\* A serial that is taken by now breaks the unique constraint.
CommitFile(c) ==
    LET file == session[c].file IN
    /\ session[c].op = "sign"
    /\ files' = IF \E f \in FilesOf(file.license) : files[f].serial = file.serial
                THEN files ELSE Append(files, file)
    /\ Commits(c, "licensing")
    /\ UNCHANGED <<today, tokens, instances, licenses>>

ActivateLicense(c, l, i) ==
    /\ licenses[l].state \in {"ISSUED", "ACTIVE"}
    /\ Begins(c, "licensing", [op |-> "activate_license", id |-> l, instance |-> i])
    /\ UNCHANGED licensingVars

CommitLicenseActivation(c) ==
    LET s == session[c] IN
    /\ s.op = "activate_license"
    /\ licenses' = [licenses EXCEPT ![s.id].state = "ACTIVE", ![s.id].instance = s.instance]
    /\ Commits(c, "licensing")
    /\ UNCHANGED <<today, tokens, instances, files>>

RevokeLicense(c, l) ==
    /\ Begins(c, "licensing", [op |-> "revoke_license", id |-> l])
    /\ UNCHANGED licensingVars

CommitLicenseRevocation(c) ==
    /\ session[c].op = "revoke_license"
    /\ licenses' = [licenses EXCEPT ![session[c].id].state = "REVOKED"]
    /\ Commits(c, "licensing")
    /\ UNCHANGED <<today, tokens, instances, files>>

\* Faulty: a revoked license is renewed like any other.
RenewableAlways(l) == TRUE

Renewable(l) == licenses[l].state # "REVOKED"

RenewLicense(c, l, ends) ==
    /\ Renewable(l)
    /\ Begins(c, "licensing", [op |-> "renew", id |-> l, ends |-> ends])
    /\ UNCHANGED licensingVars

CommitRenewal(c) ==
    LET s == session[c] IN
    /\ s.op = "renew"
    /\ licenses' = [licenses EXCEPT ![s.id].state = "ACTIVE", ![s.id].ends = s.ends]
    /\ Commits(c, "licensing")
    /\ UNCHANGED <<today, tokens, instances, files>>

\* Bound: days pass while requests about licensing may still come.
DayPasses ==
    /\ today < LastDay
    /\ budget["licensing"] > 0
    /\ today' = today + 1
    /\ UNCHANGED <<tokens, instances, licenses, files>>

LicensingInit ==
    /\ today = 0
    /\ tokens = [t \in Tokens |-> NoToken]
    /\ instances = <<>>
    /\ licenses = <<>>
    /\ files = <<>>

LicensingStep(c) ==
    \/ \E t \in Tokens : CreateToken(c, t) \/ EnrollInstance(c, t)
    \/ \E i \in DOMAIN instances : RevokeInstance(c, i)
    \/ \E i \in DOMAIN instances \cup {0}, ends \in Days : IssueLicense(c, i, ends)
    \/ \E l \in DOMAIN licenses :
          \/ SignFile(c, l)
          \/ RevokeLicense(c, l)
          \/ \E i \in DOMAIN instances : ActivateLicense(c, l, i)
          \/ \E ends \in Days : RenewLicense(c, l, ends)
    \/ CommitToken(c)
    \/ CommitEnrollment(c)
    \/ CommitInstanceRevocation(c)
    \/ CommitIssue(c)
    \/ CommitFile(c)
    \/ CommitLicenseActivation(c)
    \/ CommitLicenseRevocation(c)
    \/ CommitRenewal(c)
=============================================================================
