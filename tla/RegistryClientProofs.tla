------------------------- MODULE RegistryClientProofs -------------------------
(***************************************************************************)
(* AcceptedRecent, DeniedExplained and LoadedCurrent for any number of     *)
(* tasks and keys and any times that the assumption on them admits.        *)
(*                                                                         *)
(* An attestation is sound: its key was registered when it was issued, and *)
(* a key that has replaced it since was not registered earlier than that.  *)
(* What a task holds is sound and, if the task is to decide by it, was     *)
(* young enough when the call began, whether it came from the cache or     *)
(* from the registry.                                                      *)
(***************************************************************************)
EXTENDS RegistryClient, TLAPS

Registration ==
  /\ since <= now
  /\ \A k \in Key : held[k] # None => held[k] <= now
  /\ registered # None => held[registered] = now

Sound(a) == /\ a.issued <= now
            /\ held[a.key] # None /\ a.issued <= held[a.key]
            /\ a.key # registered => a.issued <= since

CallInv(c) ==
  /\ begun[c] # None => begun[c] <= now
  /\ att[c] # None => Sound(att[c])
  /\ call[c] = "verify" => att[c] # None /\ begun[c] < att[c].issued + CacheAge
  /\ call[c] \in {"answer", "loaded"} =>
       IF att[c] = None THEN registered = None \/ begun[c] <= since
       ELSE begun[c] <= att[c].issued

IInv == /\ TypeOK /\ Registration
        /\ cache # None => Sound(cache)
        /\ \A c \in Call : CallInv(c)

-------------------------------------------------------------------------------
(* Lemmas *)

LEMMA TimeNat == Time \subseteq Nat /\ CacheAge \in Nat /\ CacheAge > 0
BY ClientAssumption DEF Time, CacheAge

\* A task that is in a call has begun it.
LEMMA BegunNat == ASSUME TypeOK, NEW c \in Call, call[c] # "free" PROVE begun[c] \in Nat
BY TimeNat DEF TypeOK

\* What the registry attests is sound.
LEMMA AttestSound == ASSUME TypeOK, Registration, Attest # None
                     PROVE  Attest \in Attestation /\ Sound(Attest) /\ Attest.issued = now
<1>1. registered # None /\ Attest = [key |-> registered, issued |-> now]
  BY DEF Attest
<1>2. registered \in Key /\ now \in Time
  BY <1>1 DEF TypeOK
<1>3. held[registered] = now
  BY <1>1 DEF Registration
<1>4. now # None
  BY <1>2, NoneAssumption
<1> QED BY <1>1, <1>2, <1>3, <1>4, TimeNat DEF Attestation, Sound

\* Only a task's own step changes what it holds; a step that registers nothing keeps
\* attestations sound.
LEMMA TaskInv ==
  ASSUME IInv, NEW c \in Call, UNCHANGED <<remote, now>>, TypeOK',
         cache' = cache \/ (att[c] # None /\ cache' = att[c]),
         \A d \in Call : d # c => /\ call'[d] = call[d] /\ att'[d] = att[d]
                                  /\ begun'[d] = begun[d],
         CallInv(c)'
  PROVE  IInv'
<1> USE DEF remote
<1>1. Registration'
  BY DEF IInv, Registration
<1>2. (cache # None => Sound(cache))'
  BY DEF IInv, CallInv, Sound
<1>3. ASSUME NEW d \in Call PROVE CallInv(d)'
  <2>1. CASE d = c
    BY <2>1
  <2>2. CASE d # c
    BY <2>2 DEF IInv, CallInv, Sound
  <2> QED BY <2>1, <2>2
<1> QED BY <1>1, <1>2, <1>3 DEF IInv

\* A task whose call ends holds nothing.
LEMMA LeaveInv ==
  ASSUME IInv, NEW c \in Call, Leave(c), UNCHANGED <<remote, now, cache>>,
         result' \in [Call -> {None, "accepted", "denied", "unknown", "key", "err"}]
  PROVE  IInv'
<1> USE DEF Leave, remote
<1>1. TypeOK'
  BY DEF IInv, TypeOK
<1>2. call'[c] = "free" /\ att'[c] = None /\ begun'[c] = None
  BY DEF IInv, TypeOK
<1>3. CallInv(c)'
  BY <1>2 DEF CallInv
<1>4. \A d \in Call : d # c => call'[d] = call[d] /\ att'[d] = att[d] /\ begun'[d] = begun[d]
  BY DEF IInv, TypeOK
<1> QED BY <1>1, <1>3, <1>4, TaskInv

LEMMA EndInv ==
  ASSUME IInv, NEW c \in Call,
         NEW outcome \in {"accepted", "denied", "unknown", "key", "err"},
         End(c, outcome), UNCHANGED <<remote, now, cache>>
  PROVE  IInv'
<1>1. result' \in [Call -> {None, "accepted", "denied", "unknown", "key", "err"}]
  BY DEF IInv, TypeOK, End
<1> QED BY <1>1, LeaveInv DEF End

-------------------------------------------------------------------------------
(* The steps *)

LEMMA InitIInv == Init => IInv
BY ClientAssumption DEF Init, IInv, TypeOK, Time, Registration, CallInv

\* A cached attestation is used only if it is fresh for any jitter, and so for the
\* least.
LEMMA RequestInv == ASSUME IInv, NEW c \in Call, NEW k \in Key, Request(c, k) PROVE IInv'
<1> USE DEF Request, Begin, At
<1>1. PICK j \in Jitter :
        IF cache # None /\ Fresh(cache, j)
        THEN Begin(c, "verify") /\ att' = [att EXCEPT ![c] = cache]
        ELSE Begin(c, "ask") /\ UNCHANGED att
  BY DEF Request
<1>2. \A d \in Call : d # c => call'[d] = call[d] /\ att'[d] = att[d] /\ begun'[d] = begun[d]
  BY <1>1 DEF IInv, TypeOK
<1>3. TypeOK'
  <2>1. /\ call' \in [Call -> {"free", "ask", "answer", "verify", "load", "attest", "loaded"}]
        /\ att' \in [Call -> Attestation \cup {None}] /\ key' \in [Call -> Key \cup {None}]
        /\ begun' \in [Call -> Time \cup {None}] /\ begun'[c] = now /\ call'[c] # "free"
        /\ result' \in [Call -> {None, "accepted", "denied", "unknown", "key", "err"}]
    BY <1>1 DEF IInv, TypeOK
  <2>2. now # None
    BY NoneAssumption DEF IInv, TypeOK
  <2> QED BY <1>2, <2>1, <2>2 DEF IInv, TypeOK, remote
<1>4. CallInv(c)'
  <2>1. begun'[c] = now /\ now' = now /\ now \in Nat
    BY <1>1, TimeNat DEF IInv, TypeOK
  <2>2. CASE cache # None /\ Fresh(cache, j)
    <3>1. call'[c] = "verify" /\ att'[c] = cache
      BY <1>1, <2>2 DEF IInv, TypeOK
    <3>2. cache \in Attestation /\ cache.issued \in Nat
      BY <2>2, TimeNat DEF IInv, TypeOK, Attestation
    <3>3. now < cache.issued + CacheAge
      BY <2>1, <2>2, <3>2, ClientAssumption DEF Fresh, Jitter, CacheAge
    <3>4. Sound(att[c])'
      BY <2>2, <3>1 DEF IInv, Sound, remote
    <3> QED BY <2>1, <3>1, <3>3, <3>4, <2>2 DEF CallInv, CacheAge
  <2>3. CASE ~ (cache # None /\ Fresh(cache, j))
    <3>1. call'[c] = "ask" /\ att'[c] = att[c]
      BY <1>1, <2>3 DEF IInv, TypeOK
    <3> QED BY <2>1, <3>1 DEF CallInv, IInv, Sound, remote
  <2> QED BY <2>2, <2>3
<1> QED BY <1>2, <1>3, <1>4, TaskInv

\* The registry's answer is not older than the call.
LEMMA ServeInv ==
  ASSUME IInv, NEW c \in Call, Serve(c) \/ ServeAttested(c) PROVE IInv'
<1> USE DEF Serve, ServeAttested, At
<1>1. /\ call[c] # "free" /\ att' = [att EXCEPT ![c] = Attest]
      /\ UNCHANGED <<remote, cache, now, key, begun, result>>
      /\ \E s \in {"answer", "loaded"} : call' = [call EXCEPT ![c] = s]
  OBVIOUS
<1>2. Attest \in Attestation \cup {None}
  BY AttestSound DEF IInv
<1>3. TypeOK'
  <2>1. att' \in [Call -> Attestation \cup {None}]
    BY <1>1, <1>2 DEF IInv, TypeOK
  <2> QED BY <1>1, <2>1 DEF IInv, TypeOK, remote
<1>4. \A d \in Call : d # c => call'[d] = call[d] /\ att'[d] = att[d] /\ begun'[d] = begun[d]
  BY <1>1 DEF IInv, TypeOK
<1>5. CallInv(c)'
  <2>1. /\ att'[c] = Attest /\ call'[c] \in {"answer", "loaded"} /\ begun'[c] = begun[c]
        /\ begun[c] # None => begun[c] <= now
    BY <1>1 DEF IInv, TypeOK, CallInv
  <2>2. begun[c] \in Nat /\ begun[c] # None /\ begun[c] <= now
    BY <1>1, <2>1, BegunNat, NoneAssumption DEF IInv, TypeOK
  <2>3. CASE Attest = None
    <3>1. registered = None
      <4>1. ASSUME registered # None PROVE Attest \in Attestation
        BY <4>1 DEF Attest, Attestation, IInv, TypeOK
      <4> QED BY <2>3, <4>1, NoneAssumption
    <3> QED BY <1>1, <2>1, <2>2, <2>3, <3>1 DEF CallInv, remote
  <2>4. CASE Attest # None
    <3>1. Sound(Attest) /\ Attest.issued = now
      BY <2>4, AttestSound DEF IInv
    <3>2. Sound(att[c])'
      BY <1>1, <2>1, <3>1 DEF Sound, remote
    <3> QED BY <1>1, <2>1, <2>2, <2>4, <3>1, <3>2 DEF CallInv
  <2> QED BY <2>3, <2>4
<1> QED BY <1>1, <1>3, <1>4, <1>5, TaskInv

LEMMA ReceiveInv == ASSUME IInv, NEW c \in Call, Receive(c) PROVE IInv'
<1>1. CASE att[c] = None \/ Expired(att[c])
  <2>1. \E outcome \in {"unknown", "err"} :
          End(c, outcome) /\ UNCHANGED <<remote, now, cache>>
    BY <1>1 DEF Receive
  <2> QED BY <2>1, EndInv
<1>2. CASE att[c] # None /\ ~ Expired(att[c])
  <2>1. /\ call[c] = "answer" /\ call' = [call EXCEPT ![c] = "verify"] /\ cache' = att[c]
        /\ UNCHANGED <<remote, now, local, result>>
    BY <1>2 DEF Receive, At
  <2> USE DEF local
  <2>2. TypeOK'
    BY <1>2, <2>1 DEF IInv, TypeOK, remote
  <2>3. call'[c] = "verify" /\ \A d \in Call : d # c => call'[d] = call[d]
    BY <2>1 DEF IInv, TypeOK
  <2>4. CallInv(c)'
    <3>1. begun[c] \in Nat /\ att[c].issued \in Nat /\ begun[c] <= att[c].issued
      BY <1>2, <2>1, BegunNat, TimeNat DEF IInv, TypeOK, Attestation, CallInv
    <3>2. begun[c] < att[c].issued + CacheAge
      BY <3>1, TimeNat
    <3> QED BY <1>2, <2>1, <2>3, <3>2 DEF IInv, CallInv, Sound, remote, CacheAge
  <2> QED BY <1>2, <2>1, <2>2, <2>3, <2>4, TaskInv
<1> QED BY <1>1, <1>2

LEMMA LoadInv == ASSUME IInv, NEW c \in Call, Load(c) \/ ServeKey(c) PROVE IInv'
<1> USE DEF Load, ServeKey, Begin, At
<1>1. TypeOK'
  <2>1. now # None
    BY NoneAssumption DEF IInv, TypeOK
  <2> QED BY <2>1 DEF IInv, TypeOK, remote
<1>2. /\ call'[c] \in {"load", "attest"} /\ att'[c] = att[c] /\ begun'[c] \in {now, begun[c]}
      /\ \A d \in Call : d # c => call'[d] = call[d] /\ att'[d] = att[d] /\ begun'[d] = begun[d]
      /\ UNCHANGED <<remote, cache, now>> /\ now \in Nat
  BY TimeNat DEF IInv, TypeOK
<1>3. CallInv(c)'
  BY <1>2 DEF IInv, CallInv, Sound, remote
<1> QED BY <1>1, <1>2, <1>3, TaskInv

\* The steps that end a call.
LEMMA EndsInv ==
  ASSUME IInv, NEW c \in Call,
         Verify(c) \/ ReceiveKey(c) \/ NetworkFails(c) \/ Cancel(c)
  PROVE  IInv'
<1>1. CASE Verify(c) \/ ReceiveKey(c) \/ NetworkFails(c)
  <2>1. \E outcome \in {"accepted", "denied", "unknown", "key", "err"} :
          End(c, outcome) /\ UNCHANGED <<remote, now, cache>>
    BY <1>1 DEF Verify, ReceiveKey, NetworkFails
  <2> QED BY <2>1, EndInv
<1>2. CASE Cancel(c)
  BY <1>2, LeaveInv DEF Cancel, IInv, TypeOK
<1> QED BY <1>1, <1>2

\* Registering and the passing of time keep attestations sound.
LEMMA RemoteInv ==
  ASSUME IInv, UNCHANGED <<cache, call, local, result>>, TypeOK', Registration',
         now <= now', since <= since', registered' # registered => since' = now,
         UNCHANGED registered => UNCHANGED since,
         \A k \in Key : held[k] # None => held'[k] # None /\ held[k] <= held'[k]
  PROVE  IInv'
<1> USE DEF local
<1>1. ASSUME NEW a \in Attestation, Sound(a) PROVE Sound(a)'
  <2>1. /\ a.issued \in Nat /\ a.key \in Key /\ now \in Nat /\ now' \in Nat
        /\ since \in Nat /\ since' \in Nat /\ held[a.key] # None /\ held'[a.key] # None
    BY <1>1, TimeNat DEF Attestation, IInv, TypeOK, Sound
  <2>2. held[a.key] \in Nat /\ held'[a.key] \in Nat
    <3>1. /\ held \in [Key -> Time \cup {None}] /\ held' \in [Key -> Time \cup {None}]
          /\ a.key \in Key
      BY <2>1 DEF IInv, TypeOK
    <3>2. held[a.key] \in Time /\ held'[a.key] \in Time
      BY <2>1, <3>1
    <3> QED BY <3>2, TimeNat
  <2> QED BY <1>1, <2>1, <2>2 DEF Sound
<1>2. (cache # None => Sound(cache))'
  BY <1>1 DEF IInv, TypeOK, Sound
<1>3. ASSUME NEW c \in Call PROVE CallInv(c)'
  <2>1. att[c] # None => Sound(att[c])'
    BY <1>1 DEF IInv, TypeOK, CallInv, Sound
  <2>2. begun[c] # None => begun[c] <= now'
    <3>1. begun[c] # None => begun[c] \in Nat /\ now \in Nat /\ now' \in Nat
      BY TimeNat DEF IInv, TypeOK
    <3> QED BY <3>1 DEF IInv, CallInv
  <2>3. call[c] \in {"answer", "loaded"} /\ att[c] = None =>
          registered' = None \/ begun[c] <= since'
    <3>1. call[c] # "free" => begun[c] \in Nat /\ begun[c] # None
      BY BegunNat DEF IInv, TypeOK
    <3> QED BY <3>1 DEF IInv, CallInv
  <2> QED BY <2>1, <2>2, <2>3 DEF IInv, CallInv, CacheAge
<1> QED BY <1>2, <1>3 DEF IInv

LEMMA RegisterInv == ASSUME IInv, NEW k \in Key, Register(k) PROVE IInv'
<1> USE DEF Register
<1>1. now \in Time /\ now \in Nat /\ now # None /\ since \in Nat /\ since <= now
  BY TimeNat, NoneAssumption DEF IInv, TypeOK, Registration
<1>2. \A j \in Key : held'[j] = IF j = k THEN now ELSE held[j]
  BY DEF Held
<1>3. TypeOK'
  <2>1. held' \in [Key -> Time \cup {None}]
    BY <1>1 DEF IInv, TypeOK, Held
  <2> QED BY <1>1, <2>1 DEF IInv, TypeOK, local
<1>4. Registration'
  BY <1>1, <1>2 DEF IInv, Registration
<1>5. \A j \in Key : held[j] # None => held'[j] # None /\ held[j] <= held'[j]
  <2>1. \A j \in Key : held[j] # None => held[j] \in Nat /\ held[j] <= now
    BY TimeNat DEF IInv, TypeOK, Registration
  <2> QED BY <1>1, <1>2, <2>1
<1> QED BY <1>1, <1>3, <1>4, <1>5, RemoteInv

LEMMA TickInv == ASSUME IInv, Tick PROVE IInv'
<1> USE DEF Tick
<1>1. /\ now \in Time /\ now \in Nat /\ now' \in Time /\ now' \in Nat /\ now' # None
      /\ since \in Nat /\ since <= now /\ now' = now + 1
  BY TimeNat, NoneAssumption, ClientAssumption DEF IInv, TypeOK, Registration, Time
<1>2. \A j \in Key : held'[j] = IF j = registered THEN now' ELSE held[j]
  BY DEF Held
<1>3. TypeOK'
  <2>1. held' \in [Key -> Time \cup {None}]
    BY <1>1 DEF IInv, TypeOK, Held
  <2> QED BY <1>1, <2>1 DEF IInv, TypeOK, local
<1>4. \A j \in Key : held[j] # None => held[j] \in Nat /\ held[j] <= now
  BY TimeNat DEF IInv, TypeOK, Registration
<1>5. Registration'
  BY <1>1, <1>2, <1>4, NoneAssumption DEF IInv, TypeOK, Registration
<1>6. \A j \in Key : held[j] # None => held'[j] # None /\ held[j] <= held'[j]
  BY <1>1, <1>2, <1>4
<1> QED BY <1>1, <1>3, <1>5, <1>6, RemoteInv

LEMMA SaveKeyInv == ASSUME IInv, NEW k \in Key, SaveKey(k) PROVE IInv'
BY DEF SaveKey, local, IInv, TypeOK, Registration, Sound, CallInv, CacheAge

LEMMA NextInv == IInv /\ [Next]_vars => IInv'
<1> SUFFICES ASSUME IInv, [Next]_vars PROVE IInv'
  OBVIOUS
<1>1. ASSUME NEW c \in Call,
             \/ \E k \in Key : Request(c, k)
             \/ Serve(c) \/ Receive(c) \/ Verify(c)
             \/ Load(c) \/ ServeKey(c) \/ ServeAttested(c) \/ ReceiveKey(c)
             \/ NetworkFails(c) \/ Cancel(c)
      PROVE  IInv'
  BY <1>1, RequestInv, ServeInv, ReceiveInv, LoadInv, EndsInv
<1>2. CASE \E k \in Key : Register(k) \/ SaveKey(k)
  BY <1>2, RegisterInv, SaveKeyInv
<1>3. CASE Tick
  BY <1>3, TickInv
<1>4. CASE UNCHANGED vars
  BY <1>4 DEF vars, remote, local, IInv, TypeOK, Registration, Sound, CallInv, CacheAge
<1> QED BY <1>1, <1>2, <1>3, <1>4 DEF Next

LEMMA Invariant == Spec => []IInv
<1> QED BY InitIInv, NextInv, PTL DEF Spec

-------------------------------------------------------------------------------
(* Theorems *)

\* A step in which a call ends with a result that it did not have is Receive, Verify,
\* ReceiveKey or NetworkFails of that call.
LEMMA EndsBy ==
  ASSUME IInv, [Next]_vars, NEW c \in Call, NEW o \in {"accepted", "denied", "unknown", "key"},
         call[c] # "free", result'[c] # result[c], result'[c] = o
  PROVE  /\ End(c, o)
         /\ \/ Verify(c) /\ o \in {"accepted", "denied"}
            \/ Receive(c) /\ o = "unknown" /\ att[c] = None
            \/ ReceiveKey(c) /\ o \in {"unknown", "key"}
<1>1. result \in [Call -> {None, "accepted", "denied", "unknown", "key", "err"}]
  BY DEF IInv, TypeOK
<1>2. PICK d \in Call : \/ \E k \in Key : Request(d, k)
                        \/ Serve(d) \/ Receive(d) \/ Verify(d)
                        \/ Load(d) \/ ServeKey(d) \/ ServeAttested(d) \/ ReceiveKey(d)
                        \/ NetworkFails(d) \/ Cancel(d)
  BY DEF Next, vars, Register, SaveKey, Tick
<1>3. result' # result
  OBVIOUS
<1>4. ~ (Serve(d) \/ ServeKey(d) \/ ServeAttested(d) \/ Cancel(d))
  BY <1>3 DEF Serve, ServeKey, ServeAttested, Cancel
<1>5. ~ ((\E k \in Key : Request(d, k)) \/ Load(d))
  <2>1. ASSUME \/ (\E k \in Key : Request(d, k)) \/ Load(d) PROVE FALSE
    <3>1. call[d] = "free" /\ result' = [result EXCEPT ![d] = None]
      BY <2>1 DEF Request, Load, Begin, At
    <3> QED BY <1>1, <3>1
  <2> QED BY <2>1
<1>6. CASE Verify(d)
  <2>1. PICK x \in {"err", "accepted", "denied"} : End(d, x)
    BY <1>6 DEF Verify
  <2>2. d = c /\ x = o
    BY <1>1, <2>1 DEF End
  <2> QED BY <1>6, <2>1, <2>2
<1>7. CASE ReceiveKey(d)
  <2>1. PICK x \in {"err", "unknown", "key"} : End(d, x)
    BY <1>7 DEF ReceiveKey
  <2>2. d = c /\ x = o
    BY <1>1, <2>1 DEF End
  <2> QED BY <1>7, <2>1, <2>2
<1>8. CASE Receive(d)
  <2>1. \/ att[d] = None /\ End(d, "unknown")
        \/ End(d, "err")
    BY <1>3, <1>8 DEF Receive
  <2>2. d = c
    BY <1>1, <2>1 DEF End
  <2>3. CASE att[d] = None /\ End(d, "unknown")
    BY <1>1, <1>8, <2>2, <2>3 DEF End
  <2>4. CASE End(d, "err")
    BY <1>1, <2>2, <2>4 DEF End
  <2> QED BY <2>1, <2>3, <2>4
<1>9. CASE NetworkFails(d)
  <2>1. End(d, "err")
    BY <1>9 DEF NetworkFails
  <2> QED BY <1>1, <2>1 DEF End
<1> QED BY <1>2, <1>4, <1>5, <1>6, <1>7, <1>8, <1>9

\* What a task holds when it decides, in numbers.
LEMMA HeldWhenDecided ==
  ASSUME IInv, NEW c \in Call, call[c] \in {"verify", "loaded"}, att[c] # None
  PROVE  /\ begun[c] \in Nat /\ now \in Nat /\ since \in Nat /\ att[c].issued \in Nat
         /\ att[c].key \in Key /\ held[att[c].key] \in Nat /\ held[att[c].key] # None
         /\ att[c].issued <= held[att[c].key]
         /\ begun[c] < att[c].issued + CacheAge
         /\ call[c] = "loaded" => begun[c] <= att[c].issued
         /\ att[c].key # registered => att[c].issued <= since
<1>1. /\ att[c] \in Attestation /\ begun[c] \in Nat /\ Sound(att[c])
      /\ now \in Nat /\ since \in Nat
  BY BegunNat, TimeNat DEF IInv, TypeOK, CallInv
<1>2. att[c].issued \in Nat /\ att[c].key \in Key
  BY <1>1, TimeNat DEF Attestation
<1>3. held[att[c].key] \in Time \cup {None} /\ held[att[c].key] # None
  BY <1>1, <1>2 DEF IInv, TypeOK, Sound
<1>4. held[att[c].key] \in Nat
  BY <1>3, TimeNat
<1>5. CASE call[c] = "verify"
  BY <1>1, <1>2, <1>3, <1>4, <1>5 DEF IInv, CallInv, Sound
<1>6. CASE call[c] = "loaded"
  <2>1. begun[c] <= att[c].issued
    BY <1>6 DEF IInv, CallInv
  <2> QED BY <1>1, <1>2, <1>3, <1>4, <1>6, <2>1, TimeNat DEF Sound
<1> QED BY <1>5, <1>6

\* A request is accepted only by a key that was registered within the life of an
\* attestation and the reach of the cache.
THEOREM AcceptedTheorem == Spec => AcceptedRecent
<1>1. ASSUME IInv, [Next]_vars, NEW c \in Call, Ends(c, {"accepted"})
      PROVE  RegisteredWithin(c, Ttl) /\ RegisteredWithin(c, CacheAge + Took(c) - 1)
  <2>1. call[c] = "verify" /\ End(c, "accepted") /\ Verify(c)
    BY <1>1, EndsBy DEF Ends, Verify
  <2>2. att[c] # None
    BY <1>1, <2>1 DEF IInv, CallInv
  <2>3. ~ Expired(att[c]) /\ att[c].key = key[c]
    BY <1>1, <2>1 DEF Verify, End, IInv, TypeOK
  <2>4. /\ begun[c] \in Nat /\ now \in Nat /\ att[c].issued \in Nat /\ key[c] \in Key
        /\ held[key[c]] \in Nat /\ held[key[c]] # None /\ att[c].issued <= held[key[c]]
        /\ begun[c] < att[c].issued + CacheAge
    BY <1>1, <2>1, <2>2, <2>3, HeldWhenDecided
  <2>5. now <= att[c].issued + Ttl
    BY <2>3, <2>4, ClientAssumption DEF Expired
  <2> QED BY <2>4, <2>5, ClientAssumption, TimeNat DEF RegisteredWithin, Took
<1>2. IInv /\ [Next]_vars =>
        [\A c \in Call : Ends(c, {"accepted"}) =>
           RegisteredWithin(c, Ttl) /\ RegisteredWithin(c, CacheAge + Took(c) - 1)]_vars
  BY <1>1
<1> QED BY <1>2, Invariant, PTL DEF Spec, AcceptedRecent

\* A key that has been registered for as long as the cache reaches back is not refused.
THEOREM DeniedTheorem == Spec => DeniedExplained
<1>1. ASSUME IInv, [Next]_vars, NEW c \in Call, Ends(c, {"denied", "unknown"}),
             RegisteredFor(c, CacheAge + Took(c))
      PROVE  FALSE
  <2>1. /\ since \in Nat /\ now \in Nat /\ begun[c] \in Nat
        /\ since + CacheAge <= begun[c] /\ registered = key[c] /\ registered # None
    <3>1. since \in Nat /\ now \in Nat /\ begun[c] \in Nat
      BY <1>1, BegunNat, TimeNat DEF IInv, TypeOK, Ends
    <3> QED BY <1>1, <3>1, TimeNat DEF RegisteredFor, Took
  <2>2. \/ Verify(c) /\ End(c, "denied")
        \/ (Receive(c) \/ ReceiveKey(c)) /\ End(c, "unknown")
    <3>1. \/ Verify(c) /\ result'[c] = "denied"
          \/ Receive(c) \/ ReceiveKey(c)
      BY <1>1, EndsBy DEF Ends
    <3> QED BY <1>1, <3>1, EndsBy DEF Ends
  <2>3. CASE Verify(c) /\ End(c, "denied")
    <3>1. call[c] = "verify" /\ att[c] # None
      BY <1>1, <2>3 DEF Verify, IInv, CallInv
    <3>2. att[c].key # key[c]
      BY <1>1, <2>3 DEF Verify, End, IInv, TypeOK
    <3> QED BY <1>1, <2>1, <3>1, <3>2, HeldWhenDecided, TimeNat
  <2>4. CASE (Receive(c) \/ ReceiveKey(c)) /\ End(c, "unknown")
    <3>1. call[c] \in {"answer", "loaded"} /\ (att[c] = None \/ key[c] = None)
      <4>1. result'[c] = "unknown" /\ result[c] # "unknown"
        BY <1>1, <2>4 DEF Ends, End, IInv, TypeOK
      <4>2. CASE Receive(c)
        <5>1. att[c] = None \/ End(c, "err") \/ UNCHANGED result
          BY <4>2 DEF Receive
        <5>2. ~ End(c, "err") /\ result' # result
          BY <1>1, <4>1 DEF End, IInv, TypeOK
        <5> QED BY <4>2, <5>1, <5>2 DEF Receive
      <4>3. CASE ReceiveKey(c)
        <5>1. att[c] = None \/ key[c] = None \/ End(c, "err") \/ End(c, "key")
          BY <4>3 DEF ReceiveKey
        <5>2. ~ End(c, "err") /\ ~ End(c, "key")
          BY <1>1, <4>1 DEF End, IInv, TypeOK
        <5> QED BY <4>3, <5>1, <5>2 DEF ReceiveKey
      <4> QED BY <2>4, <4>2, <4>3
    <3>2. att[c] = None
      BY <2>1, <3>1
    <3>3. begun[c] <= since
      BY <1>1, <2>1, <3>1, <3>2 DEF IInv, CallInv
    <3> QED BY <2>1, <3>3, TimeNat
  <2> QED BY <2>2, <2>3, <2>4
<1>2. IInv /\ [Next]_vars =>
        [\A c \in Call : Ends(c, {"denied", "unknown"}) =>
           ~ RegisteredFor(c, CacheAge + Took(c))]_vars
  BY <1>1
<1> QED BY <1>2, Invariant, PTL DEF Spec, DeniedExplained

\* load_key returns a key that was registered while the call lasted.
THEOREM LoadedTheorem == Spec => LoadedCurrent
<1>1. ASSUME IInv, [Next]_vars, NEW c \in Call, Ends(c, {"key"})
      PROVE  RegisteredWithin(c, Took(c))
  <2>1. call[c] = "loaded" /\ End(c, "key") /\ ReceiveKey(c)
    BY <1>1, EndsBy DEF Ends, ReceiveKey
  <2>2. att[c] # None /\ att[c].key = key[c]
    BY <1>1, <2>1 DEF ReceiveKey, End, IInv, TypeOK
  <2>3. /\ begun[c] \in Nat /\ now \in Nat /\ att[c].issued \in Nat /\ key[c] \in Key
        /\ held[key[c]] \in Nat /\ held[key[c]] # None /\ att[c].issued <= held[key[c]]
        /\ begun[c] <= att[c].issued
    BY <1>1, <2>1, <2>2, HeldWhenDecided
  <2> QED BY <2>3, ClientAssumption DEF RegisteredWithin, Took
<1>2. IInv /\ [Next]_vars =>
        [\A c \in Call : Ends(c, {"key"}) => RegisteredWithin(c, Took(c))]_vars
  BY <1>1
<1> QED BY <1>2, Invariant, PTL DEF Spec, LoadedCurrent

\* What the client, the registry's host and the tasks hold keeps its type.
THEOREM ClientTypeTheorem == Spec => []TypeOK
<1>1. IInv => TypeOK
  BY DEF IInv
<1> QED BY <1>1, Invariant, PTL
===============================================================================
