------------------------------ MODULE Credentials ------------------------------
(***************************************************************************)
(* CredentialManager: credentials that are issued for a fixed time, found  *)
(* by their token and revoked by their id.  Each method is one step under  *)
(* the lock.  What issue and validate return is a clone, on which a holder *)
(* calls is_valid later without asking the manager.  A credential, its id  *)
(* and its token stand for each other.  Rotated and Expired are never set. *)
(***************************************************************************)
EXTENDS Clock

CONSTANTS Cred, Holder,
          Lifetime  \* default_ttl in ticks

Status == {"Active", "Revoked"}

ASSUME CredentialAssumption ==
  /\ Lifetime \in Nat /\ None \notin Cred /\ \A S \in SUBSET Holder : S # None
  /\ None \notin [expires : Nat, status : Status]
  /\ None \notin [cred : Cred, expires : Nat, status : Status]

VARIABLES
  credentials,  \* credential -> [expires, status] as the manager has it, or None
  clone,        \* holder -> [cred, expires, status], its clone, or None
  \* History, to state the property:
  exempt        \* credential -> the holders of a clone when it was revoked, or None

credentialVars == <<credentials, clone, exempt>>

CredentialInit == /\ credentials = [c \in Cred |-> None]
                  /\ clone = [h \in Holder |-> None]
                  /\ exempt = [c \in Cred |-> None]

\* is_valid of a credential or a clone.
IsValid(x) == x.status = "Active" /\ now < x.expires

CloneOf(c, x) == [cred |-> c, expires |-> x.expires, status |-> x.status]

Issue(c, h) ==
  /\ credentials[c] = None
  /\ LET x == [expires |-> now + Lifetime, status |-> "Active"]
     IN  /\ credentials' = [credentials EXCEPT ![c] = x]
         /\ clone' = [clone EXCEPT ![h] = CloneOf(c, x)]
  /\ UNCHANGED <<exempt, now>>

\* Mutant: validate does not look at the status.
ValidateByTime(c, h) ==
  /\ credentials[c] # None /\ now < credentials[c].expires
  /\ clone' = [clone EXCEPT ![h] = CloneOf(c, [credentials[c] EXCEPT !.status = "Active"])]
  /\ UNCHANGED <<credentials, exempt, now>>

\* validate finds the token among the credentials (and returns None otherwise).
Validate(c, h) ==
  /\ credentials[c] # None /\ IsValid(credentials[c])
  /\ clone' = [clone EXCEPT ![h] = CloneOf(c, credentials[c])]
  /\ UNCHANGED <<credentials, exempt, now>>

\* revoke returns true for a known id, also if it is revoked or expired.
Revoke(c) ==
  /\ credentials[c] # None
  /\ credentials' = [credentials EXCEPT ![c].status = "Revoked"]
  /\ exempt' = [exempt EXCEPT ![c] =
                   IF @ = None THEN {h \in Holder : clone[h] # None /\ clone[h].cred = c} ELSE @]
  /\ UNCHANGED <<clone, now>>

CredentialTick == Advance /\ UNCHANGED credentialVars

CredentialNext ==
  \/ \E c \in Cred : \/ \E h \in Holder : Issue(c, h) \/ Validate(c, h)
                     \/ Revoke(c)
  \/ CredentialTick

CredentialSpec == ClockInit /\ CredentialInit /\ [][CredentialNext]_<<credentialVars, now>>

-------------------------------------------------------------------------------
(* Property *)

\* A revocation that has returned true takes hold, though nobody tells the holders:
\* from then on only they, of the clone they had, find the credential valid, and not
\* beyond the lifetime the manager gave it.
RevocationTakesHold ==
  \A h \in Holder : clone[h] # None /\ IsValid(clone[h]) =>
    LET c == clone[h].cred
    IN  /\ credentials[c] # None /\ clone[h].expires = credentials[c].expires
        /\ credentials[c].status = "Revoked" => exempt[c] # None /\ h \in exempt[c]
===============================================================================
