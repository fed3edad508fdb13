----------------------------- MODULE StateBackend -----------------------------
(***************************************************************************)
(* MemoryBackend of agent-os-core, a map whose entries may have a deadline,*)
(* and StatelessKernel::execute, which reads the state of an agent from    *)
(* it.  Each method of the backend is one step under the write lock; an    *)
(* entry past its deadline stays until somebody reads it.                  *)
(*                                                                         *)
(* set adds the time to live to the clock while it holds the lock.  If the *)
(* sum is out of the clock's range, it panics there: the lock is poisoned  *)
(* and every later call panics in turn.                                    *)
(*                                                                         *)
(* The placeholder execute_action never returns a state_update, so the     *)
(* kernel never writes; others set and delete.                             *)
(***************************************************************************)
EXTENDS Clock

CONSTANTS StateKey, Value, Exec,
          Ttl,         \* the times to live in use
          MaxInstant   \* the range of the clock

ASSUME BackendAssumption == /\ Ttl \subseteq Nat /\ MaxInstant \in Nat /\ MaxTime <= MaxInstant
                            /\ None \notin Value /\ None \notin StateKey

Entry == [value : Value, expires : Nat \cup {None}]

ASSUME EntryAssumption == /\ None \notin Entry
                          /\ None \notin [value : Value, left : Nat \cup {None}]

VARIABLES
  store,    \* key -> its entry, or None
  poisoned, \* the lock is poisoned
  exec,     \* execution -> "free", "check", "done", "killed" or "panicked"
  external  \* execution -> external_state: the value it read, or None

backendVars == <<store, poisoned, exec, external>>

BackendInit == /\ store = [k \in StateKey |-> None] /\ poisoned = FALSE
               /\ exec = [e \in Exec |-> "free"] /\ external = [e \in Exec |-> None]

\* Mutant: an entry is still there at its deadline.
ExpiredLate(k) == store[k] # None /\ store[k].expires # None /\ now > store[k].expires
Expired(k) == store[k] # None /\ store[k].expires # None /\ now >= store[k].expires

\* get: an expired entry is removed and not found.
Found(k) == IF store[k] = None \/ Expired(k) THEN None ELSE store[k].value
Collect(k) == store' = [store EXCEPT ![k] = IF Expired(k) THEN None ELSE @]

Set(k, v, ttl) ==
  /\ ~ poisoned
  /\ IF ttl # None /\ now + ttl > MaxInstant
     THEN poisoned' = TRUE /\ UNCHANGED store
     ELSE /\ store' = [store EXCEPT ![k] =
                         [value |-> v, expires |-> IF ttl = None THEN None ELSE now + ttl]]
          /\ UNCHANGED poisoned
  /\ UNCHANGED <<exec, external, now>>

Delete(k) == /\ ~ poisoned /\ store' = [store EXCEPT ![k] = None]
             /\ UNCHANGED <<poisoned, exec, external, now>>

\* execute loads the state that the context refers to, if it refers to one.
Load(e, k) ==
  /\ exec[e] = "free" /\ ~ poisoned /\ Collect(k)
  /\ exec' = [exec EXCEPT ![e] = "check"]
  /\ external' = [external EXCEPT ![e] = Found(k)]
  /\ UNCHANGED <<poisoned, now>>

LoadNothing(e) ==
  /\ exec[e] = "free" /\ exec' = [exec EXCEPT ![e] = "check"]
  /\ UNCHANGED <<store, poisoned, external, now>>

LoadPanics(e) ==
  /\ exec[e] = "free" /\ poisoned /\ exec' = [exec EXCEPT ![e] = "panicked"]
  /\ UNCHANGED <<store, poisoned, external, now>>

\* set, delete and get of others panic too, once the lock is poisoned.
CallPanics == poisoned /\ UNCHANGED <<store, poisoned, exec, external, now>>

\* check_policies: one of the named policies blocks the action, or none does.
Blocked(e) == /\ exec[e] = "check" /\ exec' = [exec EXCEPT ![e] = "killed"]
              /\ UNCHANGED <<store, poisoned, external, now>>
Executed(e) == /\ exec[e] = "check" /\ exec' = [exec EXCEPT ![e] = "done"]
               /\ UNCHANGED <<store, poisoned, external, now>>

BackendTick == Advance /\ UNCHANGED backendVars

BackendNext ==
  \/ \E k \in StateKey : \/ \E v \in Value, ttl \in Ttl \cup {None} : Set(k, v, ttl)
                         \/ Delete(k)
                         \/ \E e \in Exec : Load(e, k)
  \/ \E e \in Exec : LoadNothing(e) \/ LoadPanics(e) \/ Blocked(e) \/ Executed(e)
  \/ CallPanics \/ BackendTick

BackendSpec == ClockInit /\ BackendInit /\ [][BackendNext]_<<backendVars, now>>

-------------------------------------------------------------------------------
(* Properties *)

BackendTypeOK ==
  /\ store \in [StateKey -> Entry \cup {None}] /\ poisoned \in BOOLEAN
  /\ exec \in [Exec -> {"free", "check", "done", "killed", "panicked"}]
  /\ external \in [Exec -> Value \cup {None}] /\ now \in Time

\* What the entries come to: the value of each key and for how much longer it lives.
Live == [k \in StateKey |->
           IF store[k] = None \/ Expired(k) THEN None
           ELSE [value |-> store[k].value,
                 left |-> IF store[k].expires = None THEN None ELSE store[k].expires - now]]

Map == INSTANCE TtlMap WITH map <- Live, stopped <- poisoned, read <- external

\* The backend implements a map whose entries vanish when their time is up: nobody
\* can tell when an expired entry is removed, an entry set anew lives for its new
\* time, and a call that panics changes nothing.
RefinesTtlMap == Map!Spec
===============================================================================
