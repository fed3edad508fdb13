----------------------------- MODULE ServicesProofs -----------------------------
(***************************************************************************)
(* The properties of the services that keep to themselves and of the file  *)
(* stores, each for every value of its constants.  They have no more in    *)
(* common than the services do: each has its invariant and its section.    *)
(***************************************************************************)
EXTENDS StateBackend, Credentials, Namespaces, WebSocket, RemoteStore, CircuitBreaker,
        AtomicFile, RiskScore, FiniteSetTheorems, WellFoundedInduction, TLAPS

--------------------------------------------------------------------------------
(* WebSocketTransport: a disconnect has taken the stream before it waits. *)

SocketInv ==
  /\ transport \in {"Disconnected", "Connecting", "Connected"}
  /\ method \in {"none", "connect", "disconnect", "receive"}
  /\ method = "disconnect" => stream = "none"
  /\ StateMatchesStream

\* State and stream agree except after a connect or disconnect that was cut short.
THEOREM StreamTheorem == SocketSpec => []StateMatchesStream
<1>1. SocketInit => SocketInv
  BY DEF SocketInit, SocketInv, StateMatchesStream
<1>2. SocketInv /\ [SocketNext]_socketVars => SocketInv'
  BY DEF SocketInv, StateMatchesStream, SocketNext, socketVars, Connect, Connects, ConnectCut,
         Disconnect, Closes, CloseCut, Receive, ReceiveEnds, PeerCloses
<1>3. SocketInv => StateMatchesStream
  BY DEF SocketInv
<1> QED BY <1>1, <1>2, <1>3, PTL DEF SocketSpec

--------------------------------------------------------------------------------
(* NamespaceManager: every answer is sound when it is given. *)

\* can_communicate is sound whatever the order of the HashMap.
THEOREM CommunicationTheorem == NamespaceSpec => []CommunicationSound
<1>1. NamespaceInit => CommunicationSound
  BY DEF NamespaceInit, CommunicationSound
<1>2. ASSUME NEW a \in Member, NEW b \in Member, CanCommunicate(a, b)
      PROVE  CommunicationSound'
  <2>1. PICK f \in Name \cup {NoName}, t \in Name \cup {NoName} :
          /\ LastOf(f, Of(a), t, Of(b))
          /\ reply' = [ok |-> MayTalk(f, t), from |-> Of(a), to |-> Of(b)]
    BY <1>2 DEF CanCommunicate
  <2>2. MayTalk(f, t) => f \in Of(a) \cap Of(b)
    BY <2>1 DEF LastOf, MayTalk
  <2>3. Of(a) = Of(b) /\ Of(a) # {} => MayTalk(f, t)
    BY <2>1, NamespaceAssumption DEF LastOf, MayTalk, Of, Existing
  <2> QED BY <2>1, <2>2, <2>3 DEF CommunicationSound
<1>3. CommunicationSound /\ [NamespaceNext]_namespaceVars => CommunicationSound'
  <2>1. CommunicationSound /\ UNCHANGED reply => CommunicationSound'
    BY DEF CommunicationSound
  <2> QED BY <1>2, <2>1 DEF NamespaceNext, namespaceVars, CreateNamespace, AddMember
<1> QED BY <1>1, <1>3, PTL DEF NamespaceSpec

--------------------------------------------------------------------------------
(* CredentialManager: a clone has the lifetime of its credential, and an    *)
(* active clone of a revoked credential belongs to an exempt holder.        *)

ClockRuns == now \in Nat

CredentialInv ==
  /\ credentials \in [Cred -> [expires : Nat, status : Status] \cup {None}]
  /\ clone \in [Holder -> [cred : Cred, expires : Nat, status : Status] \cup {None}]
  /\ exempt \in [Cred -> (SUBSET Holder) \cup {None}]
  /\ \A c \in Cred : exempt[c] # None <=> credentials[c] # None /\ credentials[c].status = "Revoked"
  /\ \A h \in Holder : clone[h] # None =>
       LET c == clone[h].cred
       IN  /\ credentials[c] # None /\ clone[h].expires = credentials[c].expires
           /\ clone[h].status = "Active" /\ exempt[c] # None => h \in exempt[c]

LEMMA CredentialStep ==
  CredentialInv /\ ClockRuns /\ [CredentialNext]_<<credentialVars, now>> => CredentialInv'
<1> SUFFICES ASSUME CredentialInv, ClockRuns, [CredentialNext]_<<credentialVars, now>>
             PROVE  CredentialInv'
  OBVIOUS
<1> USE CredentialAssumption DEF CredentialInv, ClockRuns, Status
<1>1. ASSUME NEW c \in Cred, NEW h \in Holder, Issue(c, h) PROVE CredentialInv'
  <2> DEFINE x == [expires |-> now + Lifetime, status |-> "Active"]
  <2>1. /\ x \in [expires : Nat, status : Status] /\ x # None
        /\ CloneOf(c, x) \in [cred : Cred, expires : Nat, status : Status]
        /\ CloneOf(c, x) # None
    BY DEF CloneOf
  <2>2. /\ credentials' = [credentials EXCEPT ![c] = x] /\ credentials[c] = None
        /\ clone' = [clone EXCEPT ![h] = CloneOf(c, x)] /\ UNCHANGED exempt
    BY <1>1 DEF Issue
  <2>3. exempt[c] = None
    BY <2>2
  <2>4. ASSUME NEW i \in Holder, clone[i] # None PROVE clone[i].cred # c
    BY <2>2, <2>4
  <2> QED BY <2>1, <2>2, <2>3, <2>4 DEF CloneOf
<1>2. ASSUME NEW c \in Cred, NEW h \in Holder, Validate(c, h) PROVE CredentialInv'
  <2>1. /\ credentials[c] # None /\ credentials[c].status = "Active"
        /\ clone' = [clone EXCEPT ![h] = CloneOf(c, credentials[c])]
        /\ UNCHANGED <<credentials, exempt>>
    BY <1>2 DEF Validate, IsValid
  <2>2. /\ CloneOf(c, credentials[c]) \in [cred : Cred, expires : Nat, status : Status]
        /\ CloneOf(c, credentials[c]) # None
    BY <2>1 DEF CloneOf
  <2> QED BY <2>1, <2>2 DEF CloneOf
<1>3. ASSUME NEW c \in Cred, Revoke(c) PROVE CredentialInv'
  <2> DEFINE H == {h \in Holder : clone[h] # None /\ clone[h].cred = c}
  <2>1. /\ credentials[c] # None /\ UNCHANGED clone
        /\ credentials' = [credentials EXCEPT ![c].status = "Revoked"]
        /\ exempt' = [exempt EXCEPT ![c] = IF exempt[c] = None THEN H ELSE exempt[c]]
    BY <1>3 DEF Revoke
  <2>2. credentials'[c] = [expires |-> credentials[c].expires, status |-> "Revoked"]
    BY <2>1
  <2>3. /\ credentials' \in [Cred -> [expires : Nat, status : Status] \cup {None}]
        /\ credentials'[c] # None /\ credentials'[c].status = "Revoked"
        /\ credentials'[c].expires = credentials[c].expires
        /\ \A d \in Cred \ {c} : credentials'[d] = credentials[d]
    BY <2>1, <2>2
  <2>4. H \in SUBSET Holder /\ H # None
    OBVIOUS
  <2>5. /\ exempt' \in [Cred -> (SUBSET Holder) \cup {None}] /\ exempt'[c] # None
        /\ exempt[c] = None => exempt'[c] = H
        /\ exempt[c] # None => exempt'[c] = exempt[c]
        /\ \A d \in Cred \ {c} : exempt'[d] = exempt[d]
    BY <2>1, <2>4
  <2>6. \A d \in Cred : exempt'[d] # None <=>
          credentials'[d] # None /\ credentials'[d].status = "Revoked"
    BY <2>3, <2>5
  <2>7. ASSUME NEW h \in Holder, clone[h] # None
        PROVE  LET d == clone[h].cred
               IN  /\ credentials'[d] # None /\ clone[h].expires = credentials'[d].expires
                   /\ clone[h].status = "Active" /\ exempt'[d] # None => h \in exempt'[d]
    <3>1. clone[h].cred \in Cred
      BY <2>7
    <3>2. CASE clone[h].cred = c
      BY <2>3, <2>5, <2>7, <3>2
    <3>3. CASE clone[h].cred # c
      BY <2>3, <2>5, <2>7, <3>1, <3>3
    <3> QED BY <3>2, <3>3
  <2> QED BY <2>1, <2>3, <2>5, <2>6, <2>7
<1>4. CASE UNCHANGED credentialVars
  BY <1>4 DEF credentialVars
<1> QED BY <1>1, <1>2, <1>3, <1>4 DEF CredentialNext, CredentialTick

\* After a revocation only the holders of a clone from before it find it valid.
THEOREM RevocationTheorem == CredentialSpec => []RevocationTakesHold
<1>1. ClockInit /\ CredentialInit => CredentialInv /\ ClockRuns
  <2> SUFFICES ASSUME ClockInit, CredentialInit PROVE CredentialInv /\ ClockRuns
    OBVIOUS
  <2>1. /\ \A c \in Cred : credentials[c] = None /\ exempt[c] = None
        /\ \A h \in Holder : clone[h] = None
    BY DEF CredentialInit
  <2>2. /\ credentials \in [Cred -> [expires : Nat, status : Status] \cup {None}]
        /\ clone \in [Holder -> [cred : Cred, expires : Nat, status : Status] \cup {None}]
        /\ exempt \in [Cred -> (SUBSET Holder) \cup {None}]
    BY DEF CredentialInit
  <2>3. now \in Nat
    BY DEF ClockInit
  <2> QED BY <2>1, <2>2, <2>3 DEF ClockRuns, CredentialInv
<1>2. ClockRuns /\ [CredentialNext]_<<credentialVars, now>> => ClockRuns'
  BY DEF ClockRuns, CredentialNext, CredentialTick, Advance, Issue, Validate, Revoke
<1>3. CredentialInv => RevocationTakesHold
  BY DEF CredentialInv, RevocationTakesHold, IsValid, Status
<1> QED BY <1>1, <1>2, <1>3, CredentialStep, PTL DEF CredentialSpec

--------------------------------------------------------------------------------
(* RemoteStore: of two acknowledged saves, one of them over before the     *)
(* other began, the daemon does not hold the earlier.                      *)

RemoteTypeOK ==
  /\ held \in PolicyCall \cup {NoPolicy} /\ wiped \subseteq PolicyCall
  /\ remote \in [PolicyCall -> {"free", "sent", "verified", "served"}]
  /\ op \in [PolicyCall -> {"save", "load", "none"}]
  /\ outcome \in [PolicyCall -> {"none", "ok", "err"}]
  /\ got \in [PolicyCall -> PolicyCall \cup {NoPolicy}]
  /\ past \in [PolicyCall -> SUBSET PolicyCall]
  /\ DOMAIN via = PolicyCall

CallsInOrder ==
  /\ \A c \in PolicyCall : /\ outcome[c] = "ok" => remote[c] = "served"
                           /\ remote[c] = "free" => outcome[c] = "none"
                           /\ \A s \in past[c] : outcome[s] # "none"
  /\ \A c \in wiped : remote[c] = "served"

\* A save that was served and may be acknowledged is held, or a later one is.
Stored(s) == /\ held = NoPolicy => s \in wiped
             /\ held # NoPolicy /\ held \in past[s] => outcome[held] = "err"

\* What load c got is not older than the acknowledged save s.
Fresh(c, s) == /\ got[c] = NoPolicy => s \in wiped
               /\ got[c] # NoPolicy /\ got[c] \in past[s] => outcome[got[c]] = "err"

RemoteInv ==
  /\ RemoteTypeOK /\ CallsInOrder
  /\ \A s \in PolicyCall :
       op[s] = "save" /\ remote[s] = "served" /\ outcome[s] # "err" => Stored(s)
  /\ \A c \in PolicyCall : op[c] = "load" /\ remote[c] = "served" /\ outcome[c] # "err" =>
       \A s \in past[c] : op[s] = "save" /\ outcome[s] = "ok" => Fresh(c, s)

LEMMA RemoteStep == RemoteInv /\ [RemoteNext]_remoteVars => RemoteInv'
<1> SUFFICES ASSUME RemoteInv, [RemoteNext]_remoteVars PROVE RemoteInv'
  OBVIOUS
<1> USE RemoteAssumption DEF RemoteInv, RemoteTypeOK, CallsInOrder, Stored, Fresh
<1>1. ASSUME NEW c \in PolicyCall, NEW o \in {"save", "load"}, NEW v, Request(c, o, v)
      PROVE  RemoteInv'
  <2>1. /\ remote[c] = "free" /\ remote' = [remote EXCEPT ![c] = "sent"]
        /\ op' = [op EXCEPT ![c] = o] /\ past' = [past EXCEPT ![c] = Over]
        /\ DOMAIN via' = PolicyCall /\ UNCHANGED <<held, outcome, got, wiped>>
    BY <1>1 DEF Request
  <2>2. Over \in SUBSET PolicyCall /\ \A s \in Over : outcome[s] # "none"
    BY DEF Over
  <2>3. RemoteTypeOK' /\ CallsInOrder'
    BY <2>1, <2>2
  <2>4. \A s \in PolicyCall : remote'[s] = "served" =>
          s # c /\ remote[s] = "served" /\ op'[s] = op[s] /\ past'[s] = past[s]
    BY <2>1
  <2>5. \A s \in PolicyCall : outcome[s] = "ok" =>
          op'[s] = op[s] /\ past'[s] = past[s]
    BY <2>1
  <2> QED BY <2>1, <2>3, <2>4, <2>5
<1>2. ASSUME NEW c \in PolicyCall, Refused(c) PROVE RemoteInv'
  BY <1>2 DEF Refused
<1>3. ASSUME NEW c \in PolicyCall, VerifyCall(c) PROVE RemoteInv'
  BY <1>3 DEF VerifyCall
<1>4. ASSUME NEW c \in PolicyCall, Save(c) PROVE RemoteInv'
  BY <1>4 DEF Save
<1>5. ASSUME NEW c \in PolicyCall, LoadPolicy(c) PROVE RemoteInv'
  BY <1>5 DEF LoadPolicy
<1>6. ASSUME NEW c \in PolicyCall, Reply(c) PROVE RemoteInv'
  BY <1>6 DEF Reply
<1>7. ASSUME NEW c \in PolicyCall, Lose(c) PROVE RemoteInv'
  BY <1>7 DEF Lose
<1>8. CASE RestartDaemon
  BY <1>8 DEF RestartDaemon
<1>9. CASE UNCHANGED remoteVars
  BY <1>9 DEF remoteVars
<1> QED BY <1>1, <1>2, <1>3, <1>4, <1>5, <1>6, <1>7, <1>8, <1>9 DEF RemoteNext

\* A load returns no policy older than one whose save was acknowledged before it
\* began, whatever is lost or served late.
THEOREM RemoteTheorem == RemoteSpec => []RemoteLoadRecent
<1>1. RemoteInit => RemoteInv
  BY DEF RemoteInit, RemoteInv, RemoteTypeOK, CallsInOrder
<1>2. RemoteInv => RemoteLoadRecent
  BY RemoteAssumption DEF RemoteInv, RemoteTypeOK, CallsInOrder, Fresh, RemoteLoadRecent
<1> QED BY <1>1, <1>2, RemoteStep, PTL DEF RemoteSpec

--------------------------------------------------------------------------------
(* MemoryBackend: entries with a deadline are entries with the time left.  *)

BackendInv ==
  /\ BackendTypeOK
  /\ \A e \in Exec : exec[e] = "free" => external[e] = None

Remaining == [value : Value, left : Nat \cup {None}]

LEMMA BackendStep == BackendInv /\ [BackendNext]_<<backendVars, now>> => BackendInv'
<1> SUFFICES ASSUME BackendInv, [BackendNext]_<<backendVars, now>> PROVE BackendInv'
  OBVIOUS
<1> USE ClockAssumption, BackendAssumption DEF BackendInv, BackendTypeOK, Time
<1>1. ASSUME NEW k \in StateKey, NEW v \in Value, NEW ttl \in Ttl \cup {None}, Set(k, v, ttl)
      PROVE  BackendInv'
  <2> DEFINE x == [value |-> v, expires |-> IF ttl = None THEN None ELSE now + ttl]
  <2>1. x \in Entry
    <3>1. now \in Nat /\ (ttl # None => ttl \in Nat)
      OBVIOUS
    <3>2. (IF ttl = None THEN None ELSE now + ttl) \in Nat \cup {None}
      BY <3>1
    <3> QED BY <3>2 DEF Entry
  <2>2. UNCHANGED store \/ store' = [store EXCEPT ![k] = x]
    BY <1>1 DEF Set
  <2> HIDE DEF x
  <2>3. store' \in [StateKey -> Entry \cup {None}]
    BY <2>1, <2>2
  <2> QED BY <1>1, <2>3 DEF Set
<1>2. ASSUME NEW k \in StateKey, Delete(k) PROVE BackendInv'
  BY <1>2 DEF Delete
<1>3. ASSUME NEW k \in StateKey, NEW e \in Exec, Load(e, k) PROVE BackendInv'
  <2>1. Found(k) \in Value \cup {None}
    BY DEF Found, Entry
  <2>2. store' \in [StateKey -> Entry \cup {None}]
    BY <1>3 DEF Load, Collect
  <2> QED BY <1>3, <2>1, <2>2 DEF Load
<1>4. ASSUME NEW e \in Exec, LoadNothing(e) \/ LoadPanics(e) \/ Blocked(e) \/ Executed(e)
      PROVE  BackendInv'
  BY <1>4 DEF LoadNothing, LoadPanics, Blocked, Executed
<1>5. CASE CallPanics \/ BackendTick \/ UNCHANGED <<backendVars, now>>
  BY <1>5 DEF CallPanics, BackendTick, Advance, backendVars
<1> QED BY <1>1, <1>2, <1>3, <1>4, <1>5 DEF BackendNext

\* What is left of an entry, and for how long.
LEMMA LiveType == BackendInv => Live \in [StateKey -> Remaining \cup {None}]
<1> SUFFICES ASSUME BackendInv, NEW k \in StateKey, store[k] # None, ~ Expired(k)
             PROVE  store[k].value \in Value
                    /\ (store[k].expires # None => store[k].expires - now \in Nat)
  BY DEF Live, Remaining
<1> QED BY ClockAssumption DEF BackendInv, BackendTypeOK, Entry, Expired, Time

LEMMA TickAges ==
  ASSUME BackendInv, Advance, UNCHANGED store, NEW k \in StateKey
  PROVE  Live'[k] = Map!Age(Live[k])
<1> USE ClockAssumption, EntryAssumption
    DEF BackendInv, BackendTypeOK, Entry, Expired, Time, Advance, Live, Map!Age
<1>1. CASE store[k] = None \/ Expired(k)
  BY <1>1
<1>2. CASE store[k] # None /\ ~ Expired(k)
  <2> DEFINE x == store[k]
             a == [value |-> x.value, left |-> IF x.expires = None THEN None ELSE x.expires - now]
  <2>1. Live[k] = a /\ a # None
    BY <1>2
  <2>2. CASE x.expires = None
    BY <1>2, <2>1, <2>2
  <2>3. CASE x.expires # None
    <3>1. x.expires \in Nat /\ now < x.expires /\ now' = now + 1
      BY <1>2, <2>3
    <3>2. CASE x.expires = now + 1
      BY <1>2, <2>1, <3>1, <3>2
    <3>3. CASE x.expires # now + 1
      <4>1. /\ a.left # None /\ a.left # 1
            /\ [a EXCEPT !.left = @ - 1] = [value |-> x.value, left |-> x.expires - now']
        BY <2>3, <3>1, <3>3
      <4>2. Live'[k] = [value |-> x.value, left |-> x.expires - now']
        BY <1>2, <2>3, <3>1, <3>3
      <4> QED BY <2>1, <4>1, <4>2
    <3> QED BY <3>2, <3>3
  <2> QED BY <2>2, <2>3
<1> QED BY <1>1, <1>2

LEMMA BackendRefines ==
  BackendInv /\ [BackendNext]_<<backendVars, now>> =>
    [Map!Next]_<<Live, poisoned, external>>
<1> SUFFICES ASSUME BackendInv, [BackendNext]_<<backendVars, now>>
             PROVE  [Map!Next]_<<Live, poisoned, external>>
  OBVIOUS
<1> DEFINE Rest == UNCHANGED <<Live, poisoned, external>>
<1>0. UNCHANGED <<store, now>> => UNCHANGED Live
  BY DEF Live, Expired
<1>1. ASSUME NEW k \in StateKey, NEW v \in Value, NEW ttl \in Ttl \cup {None}, Set(k, v, ttl)
      PROVE  Map!Put(k, v, ttl) \/ Map!Stop
  <2>1. CASE ttl # None /\ now + ttl > MaxInstant
    BY <1>0, <1>1, <2>1 DEF Set, Map!Stop
  <2>2. CASE ~ (ttl # None /\ now + ttl > MaxInstant)
    <3> DEFINE x == [value |-> v, expires |-> IF ttl = None THEN None ELSE now + ttl]
               l == IF ttl = 0 THEN None ELSE [value |-> v, left |-> ttl]
    <3>1. /\ store' = [store EXCEPT ![k] = x] /\ ~ poisoned
          /\ UNCHANGED <<poisoned, external, now>>
      BY <1>1, <2>2 DEF Set
    <3>2. x \in Entry /\ x # None /\ now \in Nat
      BY ClockAssumption, BackendAssumption, EntryAssumption
         DEF Entry, BackendInv, BackendTypeOK, Time
    <3>3. store'[k] = x /\ \A j \in StateKey \ {k} : store'[j] = store[j]
      BY <3>1 DEF BackendInv, BackendTypeOK
    <3>4. Live'[k] = l
      BY <3>1, <3>2, <3>3, ClockAssumption, BackendAssumption DEF Live, Expired
    <3>5. \A j \in StateKey \ {k} : Live'[j] = Live[j]
      BY <3>1, <3>3 DEF Live, Expired
    <3>6. Live' = [Live EXCEPT ![k] = l]
      BY <3>4, <3>5 DEF Live
    <3> QED BY <3>1, <3>6 DEF Map!Put
  <2> QED BY <2>1, <2>2
<1>2. ASSUME NEW k \in StateKey, Delete(k) PROVE Map!Remove(k)
  <2>1. /\ ~ poisoned /\ store' = [store EXCEPT ![k] = None]
        /\ UNCHANGED <<poisoned, external, now>>
    BY <1>2 DEF Delete
  <2>2. Live'[k] = None
    BY <2>1 DEF Live, BackendInv, BackendTypeOK
  <2>3. \A j \in StateKey \ {k} : Live'[j] = Live[j]
    BY <2>1 DEF Live, Expired, BackendInv, BackendTypeOK
  <2>4. Live' = [Live EXCEPT ![k] = None]
    BY <2>2, <2>3 DEF Live
  <2> QED BY <2>1, <2>4 DEF Map!Remove
<1>3. ASSUME NEW k \in StateKey, NEW e \in Exec, Load(e, k) PROVE Map!Read(e, k)
  <2>1. /\ exec[e] = "free" /\ ~ poisoned /\ UNCHANGED <<poisoned, now>>
        /\ store' = [store EXCEPT ![k] = IF Expired(k) THEN None ELSE store[k]]
        /\ external' = [external EXCEPT ![e] = Found(k)]
    BY <1>3 DEF Load, Collect
  <2>2. Live' = Live
    <3>1. \A j \in StateKey : Live'[j] = Live[j]
      BY <2>1 DEF Live, Expired, BackendInv, BackendTypeOK
    <3> QED BY <3>1 DEF Live
  <2>3. Found(k) = IF Live[k] = None THEN None ELSE Live[k].value
    <3>1. CASE store[k] = None \/ Expired(k)
      BY <3>1 DEF Found, Live
    <3>2. CASE store[k] # None /\ ~ Expired(k)
      <4>1. Live[k] # None
        BY <3>2, EntryAssumption DEF Live, BackendInv, BackendTypeOK, Entry, Expired, Time
      <4> QED BY <3>2, <4>1 DEF Found, Live
    <3> QED BY <3>1, <3>2
  <2>4. external[e] = None
    BY <2>1 DEF BackendInv
  <2> QED BY <2>1, <2>2, <2>3, <2>4 DEF Map!Read
<1>4. ASSUME NEW e \in Exec, LoadNothing(e) \/ LoadPanics(e) \/ Blocked(e) \/ Executed(e)
      PROVE  Rest
  BY <1>0, <1>4 DEF LoadNothing, LoadPanics, Blocked, Executed
<1>5. CASE BackendTick
  <2>1. \A k \in StateKey : Live'[k] = Map!Age(Live[k])
    BY <1>5, TickAges DEF BackendTick, backendVars
  <2>2. Live' = [k \in StateKey |-> Map!Age(Live[k])]
    BY <2>1 DEF Live
  <2> QED BY <1>5, <2>2 DEF BackendTick, backendVars, Map!Next, Map!Tick
<1>6. CASE CallPanics \/ UNCHANGED <<backendVars, now>>
  BY <1>0, <1>6 DEF CallPanics, backendVars
<1> QED BY <1>1, <1>2, <1>3, <1>4, <1>5, <1>6 DEF BackendNext, Map!Next

\* The backend implements a map whose entries vanish when their time is up.
THEOREM BackendTheorem == BackendSpec => RefinesTtlMap
<1>1. ClockInit /\ BackendInit => BackendInv /\ Map!Init
  <2> SUFFICES ASSUME ClockInit, BackendInit PROVE BackendInv /\ Map!Init
    OBVIOUS
  <2>1. BackendInv
    <3>1. now \in Time
      BY ClockAssumption DEF ClockInit, Time
    <3>2. store \in [StateKey -> Entry \cup {None}]
      BY DEF BackendInit
    <3> QED BY <3>1, <3>2 DEF BackendInit, BackendInv, BackendTypeOK
  <2>2. Live = [k \in StateKey |-> None]
    BY DEF BackendInit, Live
  <2> QED BY <2>1, <2>2 DEF BackendInit, Map!Init
<1> QED BY <1>1, BackendStep, BackendRefines, PTL DEF BackendSpec, RefinesTtlMap, Map!Spec

--------------------------------------------------------------------------------
(* CircuitBreaker.  AdmissionExact speaks of what happened (failures,           *)
(* sinceFailure) and the code of state and last_failure_time.  Tracks relates   *)
(* the two: away from the closed state last_failure_time is the time of the     *)
(* very last failure, because each failure there reaches the threshold again,   *)
(* and the half-open state is only kept until that time is renewed.             *)

Tracks ==
  /\ failures = failureCount
  /\ state = "Closed" => failureCount = 0 \/ failureCount < Threshold
  /\ state # "Closed" => /\ failureCount # 0 /\ failureCount >= Threshold
                         /\ sinceTrip = sinceFailure /\ sinceTrip <= Timeout
  /\ state = "HalfOpen" => sinceTrip = Timeout

IInv == TypeOK /\ Tracks

\* The invariant holds of a new breaker.
LEMMA InitIInv == Init => IInv
BY BreakerAssumption DEF Init, IInv, TypeOK, Tracks, Cap, Never

\* Every step keeps the invariant.
LEMMA NextIInv == IInv /\ [Next]_vars => IInv'
<1> SUFFICES ASSUME IInv, [Next]_vars PROVE IInv'
  OBVIOUS
<1> USE BreakerAssumption DEF IInv, TypeOK, Tracks, Cap, Never
<1>1. ASSUME NEW c \in Callers, IsAllowed(c) PROVE IInv'
  BY <1>1 DEF IsAllowed, Allowed, TimedOut
<1>2. ASSUME RecordSuccess, running' \subseteq Callers PROVE IInv'
  BY <1>2 DEF RecordSuccess
<1>3. ASSUME RecordFailure, running' \subseteq Callers PROVE IInv'
  <2>1. /\ failureCount' \in 0..Cap /\ failureCount' # 0
        /\ failures' = failureCount' /\ sinceFailure' = 0
        /\ failureCount >= Threshold => failureCount' >= Threshold
    BY <1>3 DEF RecordFailure, Increment
  <2> QED BY <1>3, <2>1 DEF RecordFailure
<1>4. CASE Tick
  BY <1>4 DEF Tick, Older
<1>5. CASE UNCHANGED vars
  BY <1>5 DEF vars, inner
<1> QED BY <1>1, <1>2, <1>3, <1>4, <1>5 DEF Next, Succeed, Fail, RecordUnasked

\* The invariant decides whom is_allowed lets pass.
LEMMA TracksExact == IInv => AdmissionExact
BY BreakerAssumption
   DEF IInv, TypeOK, Tracks, AdmissionExact, Allowed, TimedOut, Cap, Never

\* is_allowed admits by the failures and the time since the last one, no more
\* and no less, whoever records what and when.
THEOREM AdmissionTheorem == Spec => []AdmissionExact
<1>1. Spec => []IInv
  BY InitIInv, NextIInv, PTL DEF Spec
<1> QED BY <1>1, TracksExact, PTL

--------------------------------------------------------------------------------
(* RiskScore: the score of an agent with signals is what calculate_score made   *)
(* of all of them at some earlier time.  With time fewer of them count, and     *)
(* what is left of a component is its base less the sum of what those that      *)
(* count take, as saturating_sub once at zero stays there.                      *)

\* A set of numbers that is not empty has a least one.
LEMMA LeastNumber ==
  ASSUME NEW S, S \subseteq Nat, S # {}
  PROVE  \E n \in S : \A m \in S : n <= m
<1> DEFINE R == OpToRel(<, Nat)
<1>1. IsWellFoundedOn(R, Nat)
  BY NatLessThanWellFounded
<1>2. \A m, n \in Nat : m < n => <<m, n>> \in R
  BY DEF OpToRel
<1> HIDE DEF R
<1>3. PICK n \in S : \A m \in S : ~ (<<m, n>> \in R)
  BY <1>1, WFMin, Zenon
<1>4. ASSUME NEW m \in S PROVE n <= m
  <2>1. n \in Nat /\ m \in Nat /\ ~ (m < n)
    BY <1>2, <1>3
  <2> QED BY <2>1
<1> QED BY <1>4

\* What holds of 0 and goes on holding from one number to the next holds up to N.
LEMMA UpTo ==
  ASSUME NEW N \in Nat, NEW S, 0 \in S, \A n \in 1..N : n - 1 \in S => n \in S
  PROVE  0..N \subseteq S
<1> SUFFICES ASSUME (0..N) \ S # {} PROVE FALSE
  OBVIOUS
<1>1. PICK n \in (0..N) \ S : \A m \in (0..N) \ S : n <= m
  <2>1. (0..N) \ S \subseteq Nat
    OBVIOUS
  <2> QED BY <2>1, LeastNumber
<1>2. n \in 1..N /\ n - 1 \in 0..N /\ ~ (n <= n - 1)
  BY <1>1
<1> QED BY <1>1, <1>2

\* There is a function that begins with b and goes on by G.
Unfolds(N, V, b, G) ==
  \E f \in [0..N -> V] : f[0] = b /\ \A n \in 1..N : f[n] = G[<<n, f[n - 1]>>]

LEMMA Unfolding ==
  \A N \in Nat : \A V : \A b \in V : \A G \in [(1..N) \X V -> V] : Unfolds(N, V, b, G)
<1> SUFFICES ASSUME NEW N \in Nat, NEW V, NEW b \in V, NEW G \in [(1..N) \X V -> V]
             PROVE  Unfolds(N, V, b, G)
  OBVIOUS
<1> DEFINE Good(k, f) == f[0] = b /\ \A n \in 1..k : f[n] = G[<<n, f[n - 1]>>]
           S == {k \in 0..N : \E f \in [0..k -> V] : Good(k, f)}
<1>1. 0 \in S
  <2> DEFINE f == [n \in 0..0 |-> b]
  <2>1. f \in [0..0 -> V] /\ Good(0, f)
    OBVIOUS
  <2>2. 0 \in 0..N
    OBVIOUS
  <2> HIDE DEF f, Good
  <2> QED BY <2>1, <2>2
<1>2. ASSUME NEW k \in 1..N, k - 1 \in S PROVE k \in S
  <2>1. PICK f \in [0..k - 1 -> V] : Good(k - 1, f)
    BY <1>2
  <2> DEFINE g == [n \in 0..k |-> IF n = k THEN G[<<k, f[k - 1]>>] ELSE f[n]]
  <2>2. f[k - 1] \in V /\ G[<<k, f[k - 1]>>] \in V
    OBVIOUS
  <2>3. g \in [0..k -> V]
    BY <2>2
  <2>4. g[0] = b /\ \A n \in 0..k - 1 : g[n] = f[n]
    BY <2>1
  <2>5. ASSUME NEW n \in 1..k PROVE g[n] = G[<<n, g[n - 1]>>]
    <3>1. g[n - 1] = f[n - 1]
      BY <2>4
    <3>2. CASE n = k
      <4>1. g[k] = G[<<k, f[k - 1]>>]
        OBVIOUS
      <4> HIDE DEF g
      <4> QED BY <3>1, <3>2, <4>1
    <3>3. CASE n # k
      <4>1. n \in 1..k - 1 /\ g[n] = f[n]
        BY <2>4, <3>3
      <4> QED BY <2>1, <3>1, <4>1
    <3> QED BY <3>2, <3>3
  <2> HIDE DEF g
  <2> QED BY <2>3, <2>4, <2>5
<1> HIDE DEF S
<1>3. N \in S
  BY <1>1, <1>2, UpTo
<1> QED BY <1>3 DEF S, Unfolds

Reported == [component : Component \cup {"other"}, reduction : Nat, critical : BOOLEAN, time : Nat]

\* The two sums are what their definitions say, of any signals.
LEMMA TakenIs ==
  ASSUME NEW c \in Component, NEW s \in Seq(Reported), NEW I
  PROVE  /\ Taken(c, s, I) \in [0..Len(s) -> Nat] /\ Taken(c, s, I)[0] = 0
         /\ \A n \in 1..Len(s) :
              Taken(c, s, I)[n] = Taken(c, s, I)[n - 1] +
                                    (IF n \in I /\ s[n].component = c THEN s[n].reduction ELSE 0)
<1> DEFINE N == Len(s)
           take(n) == IF n \in I /\ s[n].component = c THEN s[n].reduction ELSE 0
           P(h) == h = [n \in 0..N |-> IF n = 0 THEN 0 ELSE h[n - 1] + take(n)]
           G == [p \in (1..N) \X Nat |-> p[2] + take(p[1])]
<1>1. N \in Nat /\ \A n \in 1..N : take(n) \in Nat
  <2>1. \A n \in 1..N : s[n] \in Reported
    OBVIOUS
  <2> QED BY <2>1 DEF Reported
<1>2. Taken(c, s, I) = CHOOSE h : P(h)
  BY Zenon DEF Taken
<1> HIDE DEF N, take
<1>3. G \in [(1..N) \X Nat -> Nat]
  BY <1>1
<1>4. PICK f \in [0..N -> Nat] : f[0] = 0 /\ \A n \in 1..N : f[n] = G[<<n, f[n - 1]>>]
  <2>1. 0 \in Nat
    OBVIOUS
  <2> HIDE DEF G
  <2>2. Unfolds(N, Nat, 0, G)
    BY <1>1, <1>3, <2>1, Unfolding
  <2> QED BY <2>2 DEF Unfolds
<1>5. P(f)
  <2>1. ASSUME NEW n \in 0..N PROVE f[n] = IF n = 0 THEN 0 ELSE f[n - 1] + take(n)
    <3>1. CASE n = 0
      BY <1>4, <3>1
    <3>2. CASE n # 0
      <4>1. n \in 1..N /\ n - 1 \in 0..N
        BY <1>1, <3>2
      <4> QED BY <1>4, <3>2, <4>1
    <3> QED BY <3>1, <3>2
  <2> QED BY <2>1
<1> HIDE DEF P
<1>6. P(Taken(c, s, I))
  BY <1>2, <1>5, Zenon
<1> DEFINE T == Taken(c, s, I)
<1> HIDE DEF T
<1>7. T = [n \in 0..N |-> IF n = 0 THEN 0 ELSE T[n - 1] + take(n)]
  BY <1>6 DEF P, T
<1>8. T[0] = 0 /\ \A n \in 1..N : T[n] = T[n - 1] + take(n)
  BY <1>1, <1>7
<1> DEFINE S == {n \in 0..N : T[n] \in Nat}
<1>9. 0 \in S /\ \A n \in 1..N : n - 1 \in S => n \in S
  <2>1. 0 \in 0..N /\ \A n \in 1..N : n \in 0..N
    BY <1>1
  <2>2. ASSUME NEW n \in 1..N, T[n - 1] \in Nat PROVE T[n] \in Nat
    <3>1. take(n) \in Nat /\ T[n] = T[n - 1] + take(n)
      BY <1>1, <1>8
    <3> QED BY <2>2, <3>1
  <2> QED BY <1>8, <2>1, <2>2
<1> HIDE DEF S
<1>10. 0..N \subseteq S
  BY <1>1, <1>9, UpTo
<1>11. T \in [0..N -> Nat]
  BY <1>7, <1>10 DEF S
<1> QED BY <1>8, <1>11 DEF T, N, take

LEMMA BaseType == \A c \in Component : Base[c] \in Nat
BY DEF Component, Base

LEMMA ReduceType ==
  ASSUME NEW c, NEW m \in Nat, NEW x \in Reported
  PROVE  Reduce(c, m, x) \in Nat
BY DEF Reduce, SaturatingSub, Reported

LEMMA LeftIs ==
  ASSUME NEW c \in Component, NEW s \in Seq(Reported), NEW I
  PROVE  /\ Left(c, s, I)[0] = Base[c]
         /\ \A n \in 1..Len(s) : Left(c, s, I)[n] = IF n \in I THEN Reduce(c, Left(c, s, I)[n - 1], s[n])
                                                               ELSE Left(c, s, I)[n - 1]
<1> DEFINE N == Len(s)
           left(n, m) == IF n \in I THEN Reduce(c, m, s[n]) ELSE m
           P(h) == h = [n \in 0..N |-> IF n = 0 THEN Base[c]
                                       ELSE IF n \in I THEN Reduce(c, h[n - 1], s[n]) ELSE h[n - 1]]
           G == [p \in (1..N) \X Nat |-> left(p[1], p[2])]
<1>1. N \in Nat /\ Base[c] \in Nat /\ \A n \in 1..N, m \in Nat : left(n, m) \in Nat
  <2>1. \A n \in 1..N : s[n] \in Reported
    OBVIOUS
  <2> QED BY <2>1, BaseType, ReduceType
<1>2. Left(c, s, I) = CHOOSE h : P(h)
  BY Zenon DEF Left
<1> HIDE DEF N
<1>3. G \in [(1..N) \X Nat -> Nat]
  <2> HIDE DEF left
  <2> QED BY <1>1
<1>4. PICK f \in [0..N -> Nat] : f[0] = Base[c] /\ \A n \in 1..N : f[n] = G[<<n, f[n - 1]>>]
  <2> HIDE DEF G
  <2>1. Unfolds(N, Nat, Base[c], G)
    BY <1>1, <1>3, Unfolding
  <2> QED BY <2>1 DEF Unfolds
<1>5. P(f)
  <2>1. ASSUME NEW n \in 0..N
        PROVE  f[n] = IF n = 0 THEN Base[c] ELSE IF n \in I THEN Reduce(c, f[n - 1], s[n]) ELSE f[n - 1]
    <3>1. CASE n = 0
      BY <1>4, <3>1
    <3>2. CASE n # 0
      <4>1. n \in 1..N /\ n - 1 \in 0..N
        BY <1>1, <3>2
      <4> QED BY <1>4, <3>2, <4>1
    <3> QED BY <3>1, <3>2
  <2> QED BY <2>1
<1> HIDE DEF P
<1>6. P(Left(c, s, I))
  BY <1>2, <1>5, Zenon
<1> DEFINE T == Left(c, s, I)
<1> HIDE DEF T
<1>7. T = [n \in 0..N |-> IF n = 0 THEN Base[c]
                          ELSE IF n \in I THEN Reduce(c, T[n - 1], s[n]) ELSE T[n - 1]]
  BY <1>6 DEF P, T
<1>8. T[0] = Base[c] /\ \A n \in 1..N : T[n] = IF n \in I THEN Reduce(c, T[n - 1], s[n]) ELSE T[n - 1]
  <2>1. 0 \in 0..N /\ \A n \in 1..N : n \in 0..N /\ n # 0
    BY <1>1
  <2> QED BY <1>7, <2>1, Zenon
<1> QED BY <1>8 DEF T, N

LEMMA SaturatingTwice ==
  ASSUME NEW b \in Nat, NEW m \in Nat, NEW k \in Nat
  PROVE  SaturatingSub(SaturatingSub(b, m), k) = SaturatingSub(b, m + k)
BY DEF SaturatingSub

\* Subtracting with saturation signal by signal is subtracting the sum with saturation.
LEMMA LeftDeserved ==
  ASSUME NEW c \in Component, NEW s \in Seq(Reported), NEW I
  PROVE  Left(c, s, I)[Len(s)] = Deserved(c, s, I) /\ Deserved(c, s, I) \in Nat
<1> DEFINE N == Len(s)
           L == Left(c, s, I)
           T == Taken(c, s, I)
           b == Base[c]
           S == {n \in 0..N : L[n] = SaturatingSub(b, T[n])}
<1>1. /\ N \in Nat /\ b \in Nat /\ T \in [0..N -> Nat] /\ T[0] = 0 /\ L[0] = b
      /\ \A n \in 1..N : T[n] = T[n - 1] + (IF n \in I /\ s[n].component = c THEN s[n].reduction ELSE 0)
      /\ \A n \in 1..N : L[n] = IF n \in I THEN Reduce(c, L[n - 1], s[n]) ELSE L[n - 1]
  BY TakenIs, LeftIs, BaseType
<1>2. \A n \in 1..N : s[n].reduction \in Nat
  <2>1. \A n \in 1..N : s[n] \in Reported
    OBVIOUS
  <2> QED BY <2>1 DEF Reported
<1> HIDE DEF N, L, T, b
<1>3. 0 \in S
  BY <1>1 DEF SaturatingSub
<1>4. ASSUME NEW n \in 1..N, n - 1 \in S PROVE n \in S
  <2>1. n - 1 \in 0..N /\ T[n - 1] \in Nat /\ L[n - 1] = SaturatingSub(b, T[n - 1])
    BY <1>1, <1>4
  <2>2. CASE n \in I /\ s[n].component = c
    <3>1. L[n] = SaturatingSub(L[n - 1], s[n].reduction) /\ T[n] = T[n - 1] + s[n].reduction
      BY <1>1, <2>2 DEF Reduce
    <3>2. SaturatingSub(SaturatingSub(b, T[n - 1]), s[n].reduction) =
            SaturatingSub(b, T[n - 1] + s[n].reduction)
      BY <1>1, <1>2, <2>1, SaturatingTwice
    <3> QED BY <1>1, <2>1, <3>1, <3>2
  <2>3. CASE ~ (n \in I /\ s[n].component = c)
    <3>1. L[n] = L[n - 1] /\ T[n] = T[n - 1]
      BY <1>1, <2>1, <2>3 DEF Reduce
    <3> QED BY <1>1, <2>1, <3>1
  <2> QED BY <2>2, <2>3
<1>5. N \in S
  <2> HIDE DEF S
  <2>1. 0..N \subseteq S
    BY <1>1, <1>3, <1>4, UpTo
  <2> QED BY <1>1, <2>1
<1>6. L[N] = (IF T[N] > b THEN 0 ELSE b - T[N]) /\ T[N] \in Nat
  BY <1>1, <1>5 DEF SaturatingSub
<1>7. Deserved(c, s, I) = IF T[N] > b THEN 0 ELSE b - T[N]
  BY DEF Deserved, T, N, b
<1> QED BY <1>1, <1>6, <1>7 DEF L, N

\* The more signals count, the less is left.
LEMMA DeservedLess ==
  ASSUME NEW c \in Component, NEW s \in Seq(Reported), NEW I, NEW J, I \subseteq J
  PROVE  Deserved(c, s, J) <= Deserved(c, s, I)
<1> DEFINE N == Len(s)
           T == Taken(c, s, I)
           U == Taken(c, s, J)
           b == Base[c]
           S == {n \in 0..N : T[n] <= U[n]}
<1>1. /\ N \in Nat /\ b \in Nat /\ T \in [0..N -> Nat] /\ T[0] = 0 /\ U \in [0..N -> Nat] /\ U[0] = 0
      /\ \A n \in 1..N : T[n] = T[n - 1] + (IF n \in I /\ s[n].component = c THEN s[n].reduction ELSE 0)
      /\ \A n \in 1..N : U[n] = U[n - 1] + (IF n \in J /\ s[n].component = c THEN s[n].reduction ELSE 0)
  BY TakenIs, BaseType
<1>2. \A n \in 1..N : s[n].reduction \in Nat
  <2>1. \A n \in 1..N : s[n] \in Reported
    OBVIOUS
  <2> QED BY <2>1 DEF Reported
<1> HIDE DEF N, U, T, b
<1>3. 0 \in S
  BY <1>1
<1>4. ASSUME NEW n \in 1..N, n - 1 \in S PROVE n \in S
  <2>1. n - 1 \in 0..N /\ T[n - 1] \in Nat /\ U[n - 1] \in Nat /\ T[n - 1] <= U[n - 1]
    BY <1>1, <1>4
  <2>2. T[n] <= U[n]
    <3> DEFINE x == IF n \in I /\ s[n].component = c THEN s[n].reduction ELSE 0
               y == IF n \in J /\ s[n].component = c THEN s[n].reduction ELSE 0
    <3>1. x \in Nat /\ y \in Nat /\ x <= y
      BY <1>2
    <3>2. T[n] = T[n - 1] + x /\ U[n] = U[n - 1] + y
      BY <1>1
    <3> HIDE DEF x, y
    <3> QED BY <2>1, <3>1, <3>2
  <2> QED BY <1>1, <2>2
<1>5. N \in S
  <2> HIDE DEF S
  <2>1. 0..N \subseteq S
    BY <1>1, <1>3, <1>4, UpTo
  <2> QED BY <1>1, <2>1
<1>6. T[N] <= U[N] /\ T[N] \in Nat /\ U[N] \in Nat
  BY <1>1, <1>5
<1>7. /\ Deserved(c, s, I) = IF T[N] > b THEN 0 ELSE b - T[N]
      /\ Deserved(c, s, J) = IF U[N] > b THEN 0 ELSE b - U[N]
  BY DEF Deserved, T, U, N, b
<1> QED BY <1>1, <1>6, <1>7

\* Fewer signals are recent later.
LEMMA RecentLess ==
  ASSUME NEW s \in Seq(Reported), NEW t \in Nat, NEW u \in Nat, t <= u
  PROVE  /\ Recent(s, u) \subseteq Recent(s, t) /\ Recent(s, t) \subseteq DOMAIN s
         /\ IsFiniteSet(Recent(s, t)) /\ Cardinality(Recent(s, u)) <= Cardinality(Recent(s, t))
<1>1. \A n \in 1..Len(s) : s[n].time \in Nat
  <2>1. \A n \in 1..Len(s) : s[n] \in Reported
    OBVIOUS
  <2> QED BY <2>1 DEF Reported
<1>2. Recent(s, u) \subseteq Recent(s, t)
  BY <1>1, RiskAssumption DEF Recent
<1>3. DOMAIN s = 1..Len(s) /\ Recent(s, t) \subseteq 1..Len(s) /\ IsFiniteSet(1..Len(s))
  BY FS_Interval DEF Recent
<1>4. IsFiniteSet(Recent(s, t))
  BY <1>3, FS_Subset
<1> QED BY <1>2, <1>3, <1>4, FS_Subset

RiskInv ==
  /\ now \in Nat /\ signals \in [Scored -> Seq(Reported)] /\ DOMAIN scores = Scored
  /\ \A a \in Scored : signals[a] # << >> =>
       \E t \in Nat : t <= now /\ scores[a] = Calculate(signals[a], t)

LEMMA RiskStep == RiskInv /\ [RiskNext]_<<riskVars, now>> => RiskInv'
<1> SUFFICES ASSUME RiskInv, [RiskNext]_<<riskVars, now>> PROVE RiskInv'
  OBVIOUS
<1> USE DEF RiskInv
<1>1. ASSUME NEW a \in Scored, NEW kind \in SignalKind, NEW t \in Time, AddSignal(a, kind, t)
      PROVE  RiskInv'
  <2>1. Signal(kind, t) \in Reported
    <3>1. kind \in [component : Component \cup {"other"}, reduction : Nat, critical : BOOLEAN]
      BY RiskAssumption
    <3>2. t \in Nat
      BY ClockAssumption DEF Time
    <3> QED BY <3>1, <3>2 DEF Signal, Reported
  <2>2. /\ signals' = [signals EXCEPT ![a] = Append(signals[a], Signal(kind, t))]
        /\ scores' = [scores EXCEPT ![a] = Calculate(signals'[a], now)] /\ UNCHANGED now
    BY <1>1 DEF AddSignal
  <2>3. scores'[a] = Calculate(signals'[a], now) /\ DOMAIN scores' = Scored
        /\ \A b \in Scored \ {a} : scores'[b] = scores[b] /\ signals'[b] = signals[b]
    BY <2>2
  <2>4. signals' \in [Scored -> Seq(Reported)]
    BY <2>1, <2>2
  <2>5. now \in Nat /\ now <= now
    OBVIOUS
  <2> QED BY <2>2, <2>3, <2>4, <2>5
<1>2. ASSUME NEW a \in Scored, Recalculate(a) PROVE RiskInv'
  <2>1. scores'[a] = Calculate(signals[a], now) /\ DOMAIN scores' = Scored /\ UNCHANGED <<signals, now>>
        /\ \A b \in Scored \ {a} : scores'[b] = scores[b]
    BY <1>2 DEF Recalculate
  <2>2. now \in Nat /\ now <= now
    OBVIOUS
  <2> QED BY <2>1, <2>2
<1>3. CASE RiskTick
  BY <1>3 DEF RiskTick, Advance, riskVars
<1>4. CASE UNCHANGED <<riskVars, now>>
  BY <1>4 DEF riskVars
<1> QED BY <1>1, <1>2, <1>3, <1>4 DEF RiskNext

LEMMA CalculateType ==
  ASSUME NEW s \in Seq(Reported), NEW t \in Nat
  PROVE  /\ Calculate(s, t) \in Score
         /\ \A c \in Component : Calculate(s, t).part[c] = Deserved(c, s, Recent(s, t))
         /\ Calculate(s, t).active = Cardinality(Recent(s, t))
         /\ Calculate(s, t).critical <= Calculate(s, t).active
<1> DEFINE R == Recent(s, t)
           K == {n \in R : s[n].critical}
           part == [c \in Component |-> Left(c, s, R)[Len(s)]]
<1>1. IsFiniteSet(R)
  BY RecentLess
<1>2. Cardinality(R) \in Nat /\ Cardinality(K) \in Nat /\ Cardinality(K) <= Cardinality(R)
  <2>1. K \subseteq R
    OBVIOUS
  <2> HIDE DEF K, R
  <2> QED BY <1>1, <2>1, FS_Subset, FS_CardinalityType
<1>3. part \in [Component -> Nat] /\ \A c \in Component : part[c] = Deserved(c, s, R)
  <2> HIDE DEF R
  <2> QED BY LeftDeserved
<1> HIDE DEF R, K, part
<1> DEFINE total == (part["identity"] * Weight["identity"] + part["behavior"] * Weight["behavior"]
                     + part["network"] * Weight["network"] + part["compliance"] * Weight["compliance"]) \div 10
<1>4. total \in Nat
  <2>1. /\ part["identity"] \in Nat /\ part["behavior"] \in Nat /\ part["network"] \in Nat
        /\ part["compliance"] \in Nat
    BY <1>3 DEF Component
  <2>2. Weight["identity"] = 2 /\ Weight["behavior"] = 3 /\ Weight["network"] = 2 /\ Weight["compliance"] = 3
    BY DEF Weight
  <2> DEFINE w == part["identity"] * Weight["identity"] + part["behavior"] * Weight["behavior"]
                  + part["network"] * Weight["network"] + part["compliance"] * Weight["compliance"]
  <2>3. w \in Nat
    <3>1. w = part["identity"] * 2 + part["behavior"] * 3 + part["network"] * 2 + part["compliance"] * 3
      BY <2>2, Zenon
    <3>2. \A i, b, n, d \in Nat : i * 2 + b * 3 + n * 2 + d * 3 \in Nat
      OBVIOUS
    <3> HIDE DEF w
    <3> QED BY <2>1, <3>1, <3>2
  <2> HIDE DEF w
  <2>4. w \div 10 \in Nat
    BY <2>3
  <2> QED BY <2>4 DEF w
<1>5. Calculate(s, t) = [part |-> part, total |-> total, active |-> Cardinality(R), critical |-> Cardinality(K)]
  BY DEF Calculate, R, K, part
<1> HIDE DEF total
<1> QED BY <1>2, <1>3, <1>4, <1>5 DEF Score, R

\* get_score: a score that is out of date errs to the agent's disadvantage, however many
\* signals there are and whatever times their callers chose.
THEOREM ScoreTheorem == RiskSpec => []ScoreNeverFlatters
<1>1. ClockInit /\ RiskInit => RiskInv
  BY DEF ClockInit, RiskInit, RiskInv
<1>2. RiskInv => ScoreNeverFlatters
  <2> SUFFICES ASSUME RiskInv, NEW a \in Scored, signals[a] # << >>
               PROVE  LET recent == Recent(signals[a], now) IN
                        /\ scores[a] # None
                        /\ \A c \in Component :
                             /\ scores[a].part[c] <= Deserved(c, signals[a], recent)
                             /\ Deserved(c, signals[a], DOMAIN signals[a]) <= scores[a].part[c]
                        /\ Cardinality(recent) <= scores[a].active
                        /\ scores[a].critical <= scores[a].active
    BY DEF ScoreNeverFlatters
  <2> DEFINE s == signals[a]
  <2>1. PICK t \in Nat : t <= now /\ scores[a] = Calculate(s, t)
    BY DEF RiskInv
  <2>2. s \in Seq(Reported) /\ now \in Nat
    BY DEF RiskInv
  <2> HIDE DEF s
  <2>3. /\ Recent(s, now) \subseteq Recent(s, t) /\ Recent(s, t) \subseteq DOMAIN s
        /\ Cardinality(Recent(s, now)) <= Cardinality(Recent(s, t))
    BY <2>1, <2>2, RecentLess
  <2>4. scores[a] # None
    BY <2>1, <2>2, CalculateType, RiskAssumption
  <2>5. ASSUME NEW c \in Component
        PROVE  /\ scores[a].part[c] <= Deserved(c, s, Recent(s, now))
               /\ Deserved(c, s, DOMAIN s) <= scores[a].part[c]
    <3>1. scores[a].part[c] = Deserved(c, s, Recent(s, t))
      BY <2>1, <2>2, CalculateType
    <3> QED BY <2>2, <2>3, <3>1, DeservedLess
  <2>6. Cardinality(Recent(s, now)) <= scores[a].active /\ scores[a].critical <= scores[a].active
    BY <2>1, <2>2, <2>3, CalculateType
  <2> QED BY <2>4, <2>5, <2>6 DEF s
<1> QED BY <1>1, <1>2, RiskStep, PTL DEF RiskSpec

--------------------------------------------------------------------------------
(* AtomicFile.  Until two saves overlap, the one that has the temporary file    *)
(* open is alone with it (TornInv).  What a call met that fails (RaceInv), and  *)
(* who wrote what is in a file (SourceInv), is found among the calls that are   *)
(* under way: none of them is in the history of another call.                   *)

Opened == {"write", "rename"}

CallsInv ==
  /\ \A c \in Call : \A d \in before[c] : call[d] \in Ended
  /\ \A c \in Call :
       /\ call[c] \in {"open", "write", "rename", "saved"} => value[c] \in Item
       /\ call[c] \in {"free", "read", "remove", "deleted"} => value[c] = Nil
       /\ call[c] \in {"free", "open"} => inode[c] = Nil /\ offset[c] = 0
       /\ call[c] \in Opened => inode[c] \in Call
       /\ call[c] \in {"free", "open"} =>
            path # c /\ tmp # c /\ \A d \in Call : inode[d] # c
       /\ call[c] \notin Ended => c \notin faults
  /\ path # Nil => path # tmp

\* The first n bytes of the text of v.
Start(v, n) == [i \in 1..n |-> v]

TornInv ==
  \/ SavesOverlap
  \/ /\ path # Nil => Parses(content[path])
     /\ \A c \in Call : call[c] \in Opened =>
          inode[c] = tmp /\ content[tmp] = Start(value[c], offset[c])

RaceInv ==
  /\ \A c \in Call : call[c] \in Opened =>
       tmp # Nil \/ \E d \in Call : IsSave(d) /\ Overlap(c, d)
  /\ \A c \in Call : call[c] \in {"read", "remove"} =>
       path # Nil \/ \E d \in Call : Deleted(d) /\ Overlap(c, d)
  /\ ErrorsExplained

Wrote(d, s) == IsSave(d) /\ value[d] = s[1]
Starts(s) == s # << >> /\ s[1] # Nil

\* Save e put the file in its place, and what it starts with was written by e or by
\* a save that overlapped it.
Newest(e) ==
  /\ call[e] = "saved"
  /\ \A x \in Call : Effective(x) => e \notin before[x]
  /\ \A x \in Call : call[x] \in Opened /\ inode[x] = path => e \notin before[x]
  /\ Starts(content[path]) =>
       \E d \in Call : Wrote(d, content[path]) /\ (d = e \/ Overlap(d, e))

SourceInv ==
  /\ tmp # Nil /\ Starts(content[tmp]) =>
       \E d \in Call : /\ Wrote(d, content[tmp])
                       /\ \A e \in Call : call[e] \in Opened => d \notin before[e]
  /\ path = Nil => \/ \A e \in Call : call[e] # "saved"
                   \/ \E d \in Call : /\ Deleted(d)
                                      /\ \A e \in Call : Effective(e) => d \notin before[e]
  /\ path # Nil => \E e \in Call : Newest(e)

FileInv == FileTypeOK /\ CallsInv /\ TornInv /\ RaceInv /\ SourceInv /\ LoadRecent

Steps == Opened \cup Ended \cup {"free", "open", "read", "remove"}

\* What a portion of a text leaves in the file: its first byte is the writer's, the
\* one that was there, or a hole.
LEMMA WrittenBytes ==
  ASSUME NEW s \in Seq(Item \cup {Nil}), NEW v \in Item, Len(s) <= 2,
         NEW from \in Nat, NEW n \in 1..2
  PROVE  /\ Written(s, v, from, n) \in Seq(Item \cup {Nil}) /\ Len(Written(s, v, from, n)) <= 2
         /\ Written(s, v, from, n) # << >>
         /\ Written(s, v, from, n)[1] = IF from = 0 THEN v ELSE IF s = << >> THEN Nil ELSE s[1]
<1> DEFINE m == IF n > Len(s) THEN n ELSE Len(s)
<1>0. Len(s) \in Nat
  OBVIOUS
<1>1. m \in 1..2 /\ Len(s) \in Nat
  <2> HIDE DEF m
  <2>1. m = IF n > Len(s) THEN n ELSE Len(s)
    BY DEF m
  <2>2. m \in Nat /\ 1 <= m /\ m <= 2
    BY <1>0, <2>1
  <2> QED BY <1>0, <2>2
<1>2. \A i \in 1..m : (IF i \in from + 1..n THEN v ELSE IF i <= Len(s) THEN s[i] ELSE Nil)
                        \in Item \cup {Nil}
  OBVIOUS
<1>3. Written(s, v, from, n) \in [1..m -> Item \cup {Nil}]
  BY <1>2 DEF Written
<1>4. Written(s, v, from, n) \in Seq(Item \cup {Nil}) /\ Len(Written(s, v, from, n)) = m
  BY <1>1, <1>3
<1>5. Written(s, v, from, n)[1] = IF 1 \in from + 1..n THEN v ELSE IF 1 <= Len(s) THEN s[1] ELSE Nil
  BY <1>1 DEF Written
<1>6. (1 \in from + 1..n) = (from = 0) /\ (1 <= Len(s)) = (s # << >>)
  OBVIOUS
<1> QED BY <1>1, <1>4, <1>5, <1>6

LEMMA TextLength == ASSUME NEW v \in Item
                    PROVE  /\ Len(Text(v)) \in 1..2 /\ Text(v) = Start(v, Len(Text(v)))
                           /\ Text(v)[1] = v
BY DEF Text, Start

\* The file that a save has open.
LEMMA Writer ==
  ASSUME FileTypeOK, CallsInv, NEW c \in Call, WriteTmp(c)
  PROVE  \E n \in 1..2 :
           /\ offset[c] < n /\ n <= Len(Text(value[c])) /\ offset[c] \in Nat
           /\ call[c] = "write"
           /\ call' = [call EXCEPT ![c] = IF n = Len(Text(value[c])) THEN "rename" ELSE "write"]
           /\ value[c] \in Item /\ inode[c] \in Call
           /\ content' = [content EXCEPT ![inode[c]] =
                            Written(content[inode[c]], value[c], offset[c], n)]
           /\ offset' = [offset EXCEPT ![c] = n]
<1>1. call[c] = "write" /\ value[c] \in Item /\ inode[c] \in Call /\ offset[c] \in 0..2
  BY DEF CallsInv, Opened, FileTypeOK, WriteTmp, At
<1>2. Len(Text(value[c])) \in 1..2
  BY <1>1, TextLength
<1> HIDE DEF Text
<1>3. PICK n \in offset[c] + 1..Len(Text(value[c])) :
        /\ call' = [call EXCEPT ![c] = IF n = Len(Text(value[c])) THEN "rename" ELSE "write"]
        /\ content' = [content EXCEPT ![inode[c]] =
                         Written(content[inode[c]], value[c], offset[c], n)]
        /\ offset' = [offset EXCEPT ![c] = n]
  BY DEF WriteTmp, At
<1>4. n \in 1..2 /\ offset[c] < n /\ n <= Len(Text(value[c])) /\ offset[c] \in Nat
  <2>1. \A l \in 1..2, m \in 0..2 : n \in m + 1..l => n \in 1..2 /\ m < n /\ n <= l /\ m \in Nat
    OBVIOUS
  <2> QED BY <1>1, <1>2, <2>1
<1> QED BY <1>1, <1>3, <1>4

LEMMA FileTypes == FileTypeOK /\ CallsInv /\ [FileNext]_fileVars => FileTypeOK'
<1> SUFFICES ASSUME FileTypeOK, CallsInv, [FileNext]_fileVars PROVE FileTypeOK'
  OBVIOUS
<1> USE DEF At, Begins, Overlooks, Fails, Opened
<1>0. call \in [Call -> Steps] /\ {d \in Call : call[d] \in Ended} \in SUBSET Call
  BY DEF FileTypeOK, Steps
<1>1. ASSUME NEW c \in Call, NEW v \in Item, SaveBegins(c, v) PROVE FileTypeOK'
  BY <1>0, <1>1 DEF FileTypeOK, SaveBegins
<1>2. ASSUME NEW c \in Call, OpenTmp(c) PROVE FileTypeOK'
  <2>1. tmp' \in Call /\ inode' \in [Call -> Call \cup {Nil}]
    BY <1>2, AtomicFileAssumption DEF FileTypeOK, OpenTmp
  <2>2. << >> \in Seq(Item \cup {Nil}) /\ Len(<< >>) <= 2
    OBVIOUS
  <2>3. /\ content' \in [Call -> Seq(Item \cup {Nil})]
        /\ \A d \in Call : Len(content'[d]) <= 2
    BY <1>2, <2>1, <2>2 DEF FileTypeOK, OpenTmp
  <2>4. /\ call' \in [Call -> Steps] /\ call'[c] = "write"
        /\ \A d \in Call \ {c} : call'[d] = call[d]
    BY <1>0, <1>2 DEF OpenTmp, Steps
  <2>5. UNCHANGED <<path, value, offset, before, faults>>
    BY <1>2 DEF OpenTmp
  <2> QED BY <1>0, <2>1, <2>3, <2>4, <2>5 DEF FileTypeOK, Steps
<1>3. ASSUME NEW c \in Call, WriteTmp(c) PROVE FileTypeOK'
  <2>1. PICK n \in 1..2 :
           /\ offset[c] < n /\ n <= Len(Text(value[c])) /\ offset[c] \in Nat
           /\ call[c] = "write"
           /\ call' = [call EXCEPT ![c] = IF n = Len(Text(value[c])) THEN "rename" ELSE "write"]
           /\ value[c] \in Item /\ inode[c] \in Call
           /\ content' = [content EXCEPT ![inode[c]] =
                            Written(content[inode[c]], value[c], offset[c], n)]
           /\ offset' = [offset EXCEPT ![c] = n]
    BY <1>3, Writer
  <2>2. content[inode[c]] \in Seq(Item \cup {Nil}) /\ Len(content[inode[c]]) <= 2
    BY <2>1 DEF FileTypeOK
  <2>3. /\ Written(content[inode[c]], value[c], offset[c], n) \in Seq(Item \cup {Nil})
        /\ Len(Written(content[inode[c]], value[c], offset[c], n)) <= 2
    BY <2>1, <2>2, WrittenBytes
  <2>4. /\ content' \in [Call -> Seq(Item \cup {Nil})]
        /\ \A d \in Call : Len(content'[d]) <= 2
    BY <2>1, <2>3 DEF FileTypeOK
  <2>5. /\ call' \in [Call -> Steps] /\ offset' \in [Call -> 0..2]
        /\ call'[c] = "rename" => offset'[c] = Len(Text(value[c]))
        /\ \A d \in Call \ {c} : call'[d] = call[d] /\ offset'[d] = offset[d]
    BY <1>0, <2>1 DEF FileTypeOK, Steps
  <2>6. UNCHANGED <<path, tmp, value, inode, before, faults>>
    BY <1>3 DEF WriteTmp
  <2> HIDE DEF Text
  <2> QED BY <2>4, <2>5, <2>6 DEF FileTypeOK, Steps
<1>4. ASSUME NEW c \in Call, Rename(c) \/ IOError(c) PROVE FileTypeOK'
  <2>1. /\ call' \in [Call -> Steps] /\ \A d \in Call : call'[d] = "rename" => call[d] = "rename"
        /\ path' \in Call \cup {Nil} /\ tmp' \in Call \cup {Nil} /\ faults' \subseteq Call
    BY <1>0, <1>4 DEF FileTypeOK, Rename, IOError, Steps, Ended
  <2>2. UNCHANGED <<content, value, inode, offset, before>>
    BY <1>4 DEF Rename, IOError
  <2> HIDE DEF Text
  <2> QED BY <2>1, <2>2 DEF FileTypeOK, Steps
<1>5. ASSUME NEW c \in Call, LoadBegins(c) \/ DeleteBegins(c) PROVE FileTypeOK'
  <2>1. /\ call' \in [Call -> Steps] /\ \A d \in Call : call'[d] = "rename" => call[d] = "rename"
    BY <1>0, <1>5 DEF LoadBegins, DeleteBegins, Steps, Ended
  <2>3. before' \in [Call -> SUBSET Call]
    BY <1>0, <1>5 DEF FileTypeOK, LoadBegins, DeleteBegins
  <2>2. UNCHANGED <<path, tmp, content, value, inode, offset>>
    BY <1>5 DEF LoadBegins, DeleteBegins
  <2>4. faults' \subseteq Call
    BY <1>5 DEF FileTypeOK, LoadBegins, DeleteBegins
  <2> HIDE DEF Text
  <2> QED BY <2>1, <2>2, <2>3, <2>4 DEF FileTypeOK, Steps
<1>6. ASSUME NEW c \in Call, Read(c) PROVE FileTypeOK'
  <2>1. /\ call' \in [Call -> Steps] /\ \A d \in Call : call'[d] = "rename" => call[d] = "rename"
        /\ call[c] = "read"
    BY <1>0, <1>6 DEF FileTypeOK, Read, Steps, Ended
  <2>2. path # Nil /\ Parses(content[path]) => content[path][1] \in Item
    BY TextLength DEF Parses
  <2>3. value' \in [Call -> Item \cup {Nil}] /\ \A d \in Call \ {c} : value'[d] = value[d]
    BY <1>6, <2>2 DEF FileTypeOK, Read
  <2>4. UNCHANGED <<path, tmp, content, inode, offset, before, faults>> /\ call'[c] # "rename"
    BY <1>0, <1>6 DEF Read
  <2> HIDE DEF Text
  <2>5. \A d \in Call : call'[d] = "rename" => offset'[d] = Len(Text(value'[d]))
    BY <2>1, <2>3, <2>4 DEF FileTypeOK
  <2> QED BY <2>1, <2>3, <2>4, <2>5 DEF FileTypeOK, Steps
<1>7. ASSUME NEW c \in Call, Remove(c) PROVE FileTypeOK'
  <2>1. /\ call' \in [Call -> Steps] /\ \A d \in Call : call'[d] = "rename" => call[d] = "rename"
    BY <1>0, <1>7 DEF FileTypeOK, Remove, Steps, Ended
  <2> HIDE DEF Text
  <2> QED BY <1>7, <2>1 DEF FileTypeOK, Remove, Steps
<1>8. CASE Crash
  <2>1. /\ call' \in [Call -> Steps] /\ \A d \in Call : call'[d] = "rename" => call[d] = "rename"
    BY <1>0, <1>8 DEF FileTypeOK, Crash, Steps, Ended
  <2> HIDE DEF Text
  <2> QED BY <1>8, <2>1 DEF FileTypeOK, Crash, Steps
<1>9. CASE UNCHANGED fileVars
  BY <1>9 DEF FileTypeOK, fileVars
<1> QED BY <1>1, <1>2, <1>3, <1>4, <1>5, <1>6, <1>7, <1>8, <1>9 DEF FileNext

LEMMA CallsStep == FileTypeOK /\ CallsInv /\ [FileNext]_fileVars => CallsInv'
<1> SUFFICES ASSUME FileTypeOK, CallsInv, [FileNext]_fileVars PROVE CallsInv'
  OBVIOUS
<1> USE AtomicFileAssumption DEF At, Begins, Overlooks, Fails, Opened
<1>0. call \in [Call -> Steps] /\ before \in [Call -> SUBSET Call]
      /\ inode \in [Call -> Call \cup {Nil}] /\ value \in [Call -> Item \cup {Nil}]
  BY DEF FileTypeOK, Steps
<1>1. ASSUME NEW c \in Call, NEW v \in Item, SaveBegins(c, v) PROVE CallsInv'
  <2>1. /\ call[c] = "free" /\ call' = [call EXCEPT ![c] = "open"]
        /\ before' = [before EXCEPT ![c] = {d \in Call : call[d] \in Ended}]
        /\ value' = [value EXCEPT ![c] = v]
        /\ UNCHANGED <<path, tmp, content, inode, offset, faults>>
    BY <1>1 DEF SaveBegins
  <2>2. \A e \in Call : \A d \in before'[e] : d \in Call /\ call[d] \in Ended
    BY <1>0, <2>1 DEF CallsInv
  <2> QED BY <1>0, <2>1, <2>2 DEF CallsInv, Ended
<1>2. ASSUME NEW c \in Call, OpenTmp(c) PROVE CallsInv'
  <2>1. /\ call[c] = "open" /\ call' = [call EXCEPT ![c] = "write"]
        /\ tmp' = (IF tmp = Nil THEN c ELSE tmp) /\ inode' = [inode EXCEPT ![c] = tmp']
        /\ UNCHANGED <<path, value, offset, before, faults>>
    BY <1>2 DEF OpenTmp
  <2>2. tmp' \in Call /\ (path # Nil => path # tmp')
    BY <2>1 DEF CallsInv, FileTypeOK
  <2>3. \A d \in Call : call[d] \in {"free", "open"} /\ d # c => tmp' # d /\ \A e \in Call : inode'[e] # d
    BY <1>0, <2>1 DEF CallsInv
  <2> QED BY <1>0, <2>1, <2>2, <2>3 DEF CallsInv, Ended
<1>3. ASSUME NEW c \in Call, WriteTmp(c) PROVE CallsInv'
  <2>1. /\ call[c] = "write" /\ \A d \in Call \ {c} : call'[d] = call[d] /\ offset'[d] = offset[d]
        /\ call'[c] \in Opened
        /\ UNCHANGED <<path, tmp, value, inode, before, faults>>
    <3>1. PICK n \in 1..2 :
           /\ call[c] = "write"
           /\ call' = [call EXCEPT ![c] = IF n = Len(Text(value[c])) THEN "rename" ELSE "write"]
           /\ offset' = [offset EXCEPT ![c] = n]
      BY <1>3, Writer
    <3> HIDE DEF Text
    <3> QED BY <1>0, <1>3, <3>1 DEF WriteTmp, FileTypeOK
  <2> QED BY <1>0, <2>1 DEF CallsInv, Ended
<1>4. ASSUME NEW c \in Call, Rename(c) PROVE CallsInv'
  BY <1>0, <1>4 DEF CallsInv, Rename, Ended
<1>5. ASSUME NEW c \in Call, IOError(c) PROVE CallsInv'
  BY <1>0, <1>5 DEF CallsInv, IOError, Ended
<1>6. ASSUME NEW c \in Call, LoadBegins(c) \/ DeleteBegins(c) PROVE CallsInv'
  <2>1. /\ call[c] = "free" /\ call'[c] \in {"loaded", "read", "deleted", "remove"}
        /\ \A d \in Call \ {c} : call'[d] = call[d]
        /\ before' = [before EXCEPT ![c] = {d \in Call : call[d] \in Ended}]
        /\ UNCHANGED <<path, tmp, content, value, inode, offset>>
        /\ faults' = faults \/ (faults' = faults \cup {c} /\ call'[c] \in Ended)
    BY <1>0, <1>6 DEF LoadBegins, DeleteBegins, Ended
  <2>2. \A e \in Call : \A d \in before'[e] : d \in Call /\ call[d] \in Ended
    BY <1>0, <2>1 DEF CallsInv
  <2> QED BY <1>0, <2>1, <2>2 DEF CallsInv, Ended
<1>7. ASSUME NEW c \in Call, Read(c) PROVE CallsInv'
  <2>1. /\ call[c] = "read" /\ call'[c] \in {"loaded", "err"}
        /\ \A d \in Call \ {c} : call'[d] = call[d] /\ value'[d] = value[d]
        /\ UNCHANGED <<path, tmp, content, inode, offset, before, faults>>
    BY <1>0, <1>7 DEF Read
  <2> QED BY <1>0, <2>1 DEF CallsInv, Ended
<1>8. ASSUME NEW c \in Call, Remove(c) PROVE CallsInv'
  BY <1>0, <1>8 DEF CallsInv, Remove, Ended
<1>9. CASE Crash
  BY <1>0, <1>9 DEF CallsInv, Crash, Ended
<1>10. CASE UNCHANGED fileVars
  BY <1>10 DEF CallsInv, fileVars
<1> QED BY <1>1, <1>2, <1>3, <1>4, <1>5, <1>6, <1>7, <1>8, <1>9, <1>10 DEF FileNext

\* A call that has ended stays as it is, and what a call met it has met for good.
LEMMA Later ==
  ASSUME FileTypeOK, CallsInv, [FileNext]_fileVars
  PROVE  /\ \A c \in Call : call[c] # "free" => call'[c] # "free" /\ before'[c] = before[c]
         /\ \A c \in Call : call[c] \in Ended => call'[c] = call[c] /\ value'[c] = value[c]
         /\ \A c \in Call : IsSave(c) => IsSave(c)' /\ value'[c] = value[c]
         /\ \A c, d \in Call : Overlap(c, d) => Overlap(c, d)'
         /\ SavesOverlap => SavesOverlap'
         /\ \A c \in Call : call[c] \in Ended => (c \in faults' <=> c \in faults)
         /\ \A c \in Call : Deleted(c) => Deleted(c)'
<1> USE DEF At, Begins, Overlooks, Fails
<1>0. call \in [Call -> Steps] /\ before \in [Call -> SUBSET Call]
      /\ value \in [Call -> Item \cup {Nil}]
  BY DEF FileTypeOK, Steps, Opened
<1>1. ASSUME NEW c \in Call
      PROVE  /\ call[c] # "free" => call'[c] # "free" /\ before'[c] = before[c]
             /\ call[c] \in Ended => call'[c] = call[c]
             /\ call'[c] = "loaded" => call[c] \in {"free", "read", "loaded"}
             /\ value'[c] = value[c] \/ call[c] \in {"free", "read"}
             /\ call[c] \in Ended => (c \in faults' <=> c \in faults)
  <2>1. CASE \E d \in Call : (\E v \in Item : SaveBegins(d, v)) \/ LoadBegins(d) \/ DeleteBegins(d)
    BY <1>0, <2>1 DEF SaveBegins, LoadBegins, DeleteBegins, Ended
  <2>2. CASE \E d \in Call : OpenTmp(d) \/ Rename(d) \/ IOError(d) \/ Remove(d)
    BY <1>0, <2>2 DEF OpenTmp, Rename, IOError, Remove, Ended
  <2>3. CASE \E d \in Call : Read(d)
    BY <1>0, <2>3 DEF Read, Ended
  <2>4. ASSUME NEW d \in Call, WriteTmp(d)
        PROVE  /\ call[c] # "free" => call'[c] # "free" /\ before'[c] = before[c]
               /\ call[c] \in Ended => call'[c] = call[c]
               /\ call'[c] = "loaded" => call[c] \in {"free", "read", "loaded"}
               /\ value'[c] = value[c] \/ call[c] \in {"free", "read"}
               /\ call[c] \in Ended => (c \in faults' <=> c \in faults)
    <3>1. /\ call[d] = "write" /\ \A e \in Call \ {d} : call'[e] = call[e]
          /\ call'[d] \in Opened /\ UNCHANGED <<value, before, faults>>
      <4>1. PICK n \in 1..2 :
             /\ call[d] = "write"
             /\ call' = [call EXCEPT ![d] = IF n = Len(Text(value[d])) THEN "rename" ELSE "write"]
        BY <2>4, Writer
      <4> HIDE DEF Text
      <4> QED BY <1>0, <2>4, <4>1 DEF WriteTmp, Opened
    <3> QED BY <3>1 DEF Opened, Ended
  <2>5. CASE Crash \/ UNCHANGED fileVars
    BY <1>0, <2>5 DEF Crash, fileVars, Ended
  <2> QED BY <2>1, <2>2, <2>3, <2>4, <2>5 DEF FileNext
<1>2. \A c \in Call : IsSave(c) => call[c] \notin {"free", "read", "loaded"}
  BY DEF IsSave, CallsInv
<1>3. \A c \in Call : call[c] \in Ended => call[c] \notin {"free", "read"}
  BY DEF Ended
<1>4. \A c \in Call : IsSave(c) => IsSave(c)' /\ value'[c] = value[c]
  BY <1>1, <1>2 DEF IsSave
<1>5. \A c, d \in Call : Overlap(c, d) => Overlap(c, d)'
  BY <1>1 DEF Overlap
<1>6. \A c \in Call : Deleted(c) => Deleted(c)'
  BY <1>1 DEF Deleted, Ended
<1> QED BY <1>1, <1>3, <1>4, <1>5, <1>6 DEF SavesOverlap

\* Nothing began after a call that is under way had ended, and saves that are under
\* way overlap each other.
LEMMA UnderWay ==
  ASSUME CallsInv, NEW c \in Call
  PROVE  /\ call[c] \notin Ended => \A d \in Call : c \notin before[d]
         /\ call[c] \in Opened => IsSave(c) /\ call[c] \notin Ended /\ call[c] # "free"
         /\ call[c] = "saved" => IsSave(c)
BY AtomicFileAssumption DEF CallsInv, IsSave, Opened, Ended

LEMMA Together ==
  ASSUME CallsInv, NEW c \in Call, NEW d \in Call, c # d,
         call[c] \in Opened \cup {"open"}, call[d] \in Opened \cup {"open"}
  PROVE  IsSave(c) /\ IsSave(d) /\ Overlap(c, d) /\ Overlap(d, c) /\ SavesOverlap
BY AtomicFileAssumption DEF CallsInv, IsSave, Opened, Ended, Overlap, SavesOverlap

LEMMA WrittenStart ==
  ASSUME NEW v, NEW k \in Nat, NEW n \in 1..2, k < n
  PROVE  Written(Start(v, k), v, k, n) = Start(v, n)
<1>1. Len(Start(v, k)) = k /\ (IF n > k THEN n ELSE k) = n
  BY DEF Start
<1>2. \A i \in 1..n : (IF i \in k + 1..n THEN v ELSE IF i <= k THEN Start(v, k)[i] ELSE Nil) = v
  BY DEF Start
<1> HIDE DEF Start
<1>3. Written(Start(v, k), v, k, n) =
        [i \in 1..n |-> IF i \in k + 1..n THEN v ELSE IF i <= k THEN Start(v, k)[i] ELSE Nil]
  BY <1>1 DEF Written
<1>4. Written(Start(v, k), v, k, n) = [i \in 1..n |-> v]
  BY <1>2, <1>3
<1> QED BY <1>4 DEF Start

LEMMA TornStep == FileInv /\ [FileNext]_fileVars => TornInv'
<1> SUFFICES ASSUME FileInv, [FileNext]_fileVars, ~ SavesOverlap'
             PROVE  /\ path' # Nil => Parses(content'[path'])
                    /\ \A c \in Call : call'[c] \in Opened =>
                         inode'[c] = tmp' /\ content'[tmp'] = Start(value'[c], offset'[c])
  BY DEF TornInv
<1> USE DEF At, Begins, Overlooks, Fails
<1>0. /\ FileTypeOK /\ CallsInv /\ call \in [Call -> Steps]
      /\ inode \in [Call -> Call \cup {Nil}] /\ content \in [Call -> Seq(Item \cup {Nil})]
      /\ tmp \in Call \cup {Nil}
  BY DEF FileInv, FileTypeOK, Steps, Opened
<1>1. /\ ~ SavesOverlap
      /\ path # Nil => Parses(content[path])
      /\ \A c \in Call : call[c] \in Opened =>
           inode[c] = tmp /\ content[tmp] = Start(value[c], offset[c])
  BY <1>0, Later DEF FileInv, TornInv
<1> DEFINE Kept == /\ path' \in {path, Nil} /\ UNCHANGED <<tmp, content, inode, offset>>
                   /\ \A c \in Call : call'[c] \in Opened =>
                        call[c] \in Opened /\ value'[c] = value[c]
<1>2. CASE Kept
  BY <1>1, <1>2
<1>3. ASSUME NEW c \in Call, OpenTmp(c)
      PROVE  /\ path' # Nil => Parses(content'[path'])
             /\ \A d \in Call : call'[d] \in Opened =>
                  inode'[d] = tmp' /\ content'[tmp'] = Start(value'[d], offset'[d])
  <2>1. /\ call[c] = "open" /\ offset[c] = 0 /\ tmp' \in Call /\ (path # Nil => path # tmp')
        /\ \A d \in Call \ {c} : call'[d] = call[d]
        /\ content' = [content EXCEPT ![tmp'] = << >>] /\ inode' = [inode EXCEPT ![c] = tmp']
        /\ UNCHANGED <<path, value, offset>>
    BY <1>0, <1>3 DEF OpenTmp, CallsInv
  <2>2. \A d \in Call \ {c} : call[d] \notin Opened
    BY <1>0, <1>1, <2>1, Together
  <2>3. content'[tmp'] = << >> /\ (path # Nil => content'[path] = content[path]) /\ inode'[c] = tmp'
    BY <1>0, <2>1
  <2>4. Start(value[c], 0) = << >>
    BY DEF Start
  <2> QED BY <1>1, <2>1, <2>2, <2>3, <2>4
<1>4. ASSUME NEW c \in Call, WriteTmp(c)
      PROVE  /\ path' # Nil => Parses(content'[path'])
             /\ \A d \in Call : call'[d] \in Opened =>
                  inode'[d] = tmp' /\ content'[tmp'] = Start(value'[d], offset'[d])
  <2>1. PICK n \in 1..2 :
           /\ offset[c] < n /\ offset[c] \in Nat /\ call[c] = "write"
           /\ call' = [call EXCEPT ![c] = IF n = Len(Text(value[c])) THEN "rename" ELSE "write"]
           /\ value[c] \in Item /\ inode[c] \in Call
           /\ content' = [content EXCEPT ![inode[c]] =
                            Written(content[inode[c]], value[c], offset[c], n)]
           /\ offset' = [offset EXCEPT ![c] = n]
    BY <1>0, <1>4, Writer
  <2> HIDE DEF Text, Start
  <2>2. /\ \A d \in Call \ {c} : call'[d] = call[d] /\ call[d] \notin Opened
        /\ inode[c] = tmp /\ content[tmp] = Start(value[c], offset[c])
    BY <1>0, <1>1, <2>1, Together DEF Opened
  <2>3. offset'[c] = n /\ UNCHANGED <<path, tmp, value, inode>>
    BY <1>0, <1>4, <2>1 DEF WriteTmp, FileTypeOK
  <2>4. content'[tmp] = Start(value[c], n)
    BY <1>0, <2>1, <2>2, WrittenStart
  <2>5. path # Nil => content'[path] = content[path]
    BY <1>0, <2>1, <2>2 DEF CallsInv, FileTypeOK
  <2> QED BY <1>1, <2>2, <2>3, <2>4, <2>5
<1>5. ASSUME NEW c \in Call, Rename(c), tmp # Nil
      PROVE  /\ path' # Nil => Parses(content'[path'])
             /\ \A d \in Call : call'[d] \notin Opened
  <2>1. /\ call[c] = "rename" /\ call'[c] = "saved" /\ path' = tmp /\ UNCHANGED content
        /\ \A d \in Call \ {c} : call'[d] = call[d]
    BY <1>0, <1>5 DEF Rename
  <2>2. content[tmp] = Start(value[c], offset[c]) /\ offset[c] = Len(Text(value[c]))
        /\ value[c] \in Item
    BY <1>0, <1>1, <2>1 DEF FileTypeOK, Opened, CallsInv
  <2>3. \A d \in Call \ {c} : call[d] \notin Opened
    BY <1>0, <1>1, <2>1, Together DEF Opened
  <2>4. content[tmp] = Text(value[c])
    BY <2>2, TextLength
  <2> QED BY <2>1, <2>2, <2>3, <2>4 DEF Parses, Opened
<1>6. ASSUME NEW c \in Call, Rename(c), tmp = Nil PROVE Kept
  BY <1>0, <1>6 DEF Rename, Opened
<1>7. ASSUME NEW c \in Call, (\E v \in Item : SaveBegins(c, v)) \/ IOError(c) PROVE Kept
  BY <1>0, <1>7 DEF SaveBegins, IOError, Opened, FileTypeOK
<1>8. ASSUME NEW c \in Call, LoadBegins(c) \/ DeleteBegins(c) \/ Remove(c) PROVE Kept
  BY <1>0, <1>8 DEF LoadBegins, DeleteBegins, Remove, Opened
<1>9. ASSUME NEW c \in Call, Read(c) PROVE Kept
  BY <1>0, <1>9 DEF Read, Opened, FileTypeOK
<1>10. CASE Crash \/ UNCHANGED fileVars
  BY <1>0, <1>2, <1>10 DEF Crash, fileVars, Opened
<1> QED BY <1>2, <1>3, <1>4, <1>5, <1>6, <1>7, <1>8, <1>9, <1>10 DEF FileNext

LEMMA RaceStep == FileInv /\ [FileNext]_fileVars => RaceInv'
<1> SUFFICES ASSUME FileInv, [FileNext]_fileVars PROVE RaceInv'
  OBVIOUS
<1> USE DEF At, Begins, Overlooks, Fails
<1>0. /\ FileTypeOK /\ CallsInv /\ CallsInv' /\ RaceInv /\ call \in [Call -> Steps]
      /\ value \in [Call -> Item \cup {Nil}]
  BY CallsStep DEF FileInv, FileTypeOK, Steps, Opened
<1>1. /\ \A c \in Call : call[c] \in Ended => call'[c] = call[c] /\ value'[c] = value[c]
      /\ \A c \in Call : IsSave(c) => IsSave(c)'
      /\ \A c, d \in Call : Overlap(c, d) => Overlap(c, d)'
      /\ SavesOverlap => SavesOverlap'
      /\ \A c \in Call : Deleted(c) => Deleted(c)'
  BY <1>0, Later
\* Where a call can come from.
<1>2. ASSUME NEW c \in Call
      PROVE  /\ call'[c] \in Opened => call[c] \in Opened \/ OpenTmp(c)
             /\ call'[c] \in {"read", "remove"} =>
                  call[c] \in {"read", "remove"} \/ LoadBegins(c) \/ DeleteBegins(c)
             /\ call'[c] = "err" =>
                  call[c] = "err" \/ IOError(c) \/ Rename(c) \/ Read(c) \/ Remove(c)
             /\ path' = path \/ (\E d \in Call : Rename(d) \/ Remove(d))
             /\ tmp' = tmp \/ (\E d \in Call : Rename(d) \/ OpenTmp(d))
             /\ faults \subseteq faults'
  <2>1. ASSUME NEW d \in Call, \/ \E v \in Item : SaveBegins(d, v)
                               \/ LoadBegins(d) \/ DeleteBegins(d) \/ OpenTmp(d)
                               \/ Rename(d) \/ IOError(d) \/ Read(d) \/ Remove(d)
        PROVE  /\ c # d => call'[c] = call[c]
               /\ faults \subseteq faults'
    BY <1>0, <2>1 DEF SaveBegins, LoadBegins, DeleteBegins, OpenTmp, Rename, IOError, Read, Remove
  <2>2. ASSUME NEW d \in Call, WriteTmp(d)
        PROVE  /\ c # d => call'[c] = call[c]
               /\ call[d] \in Opened /\ call'[d] \in Opened /\ UNCHANGED <<path, tmp, faults>>
    BY <1>0, <2>2 DEF WriteTmp, Opened
  <2>3. CASE Crash \/ UNCHANGED fileVars
    BY <1>0, <2>3 DEF Crash, fileVars, Opened
  <2>4. ASSUME NEW d \in Call, LoadBegins(d) \/ DeleteBegins(d)
        PROVE  /\ call'[d] \notin Opened /\ call'[d] # "err" /\ UNCHANGED <<path, tmp>>
               /\ call'[d] \in {"read", "remove"} => LoadBegins(d) \/ DeleteBegins(d)
    BY <1>0, <2>4 DEF LoadBegins, DeleteBegins, Opened
  <2>5. ASSUME NEW d \in Call, NEW v \in Item, SaveBegins(d, v)
        PROVE  call'[d] = "open" /\ UNCHANGED <<path, tmp>>
    BY <1>0, <2>5 DEF SaveBegins
  <2>6. ASSUME NEW d \in Call, OpenTmp(d) \/ Rename(d) \/ IOError(d) \/ Read(d) \/ Remove(d)
        PROVE  /\ call'[d] \in Opened => OpenTmp(d)
               /\ call'[d] \notin {"read", "remove"}
               /\ call'[d] = "err" => IOError(d) \/ Rename(d) \/ Read(d) \/ Remove(d)
               /\ path' = path \/ Rename(d) \/ Remove(d)
               /\ tmp' = tmp \/ Rename(d) \/ OpenTmp(d)
    BY <1>0, <2>6 DEF OpenTmp, Rename, IOError, Read, Remove, Opened
  <2> QED BY <2>1, <2>2, <2>3, <2>4, <2>5, <2>6 DEF FileNext, Opened
<1>3. ASSUME NEW c \in Call, call'[c] \in Opened
      PROVE  tmp' # Nil \/ \E d \in Call : IsSave(d)' /\ Overlap(c, d)'
  <2>1. CASE OpenTmp(c)
    BY <1>0, <2>1, AtomicFileAssumption DEF OpenTmp, FileTypeOK
  <2>2. ASSUME call[c] \in Opened, tmp # Nil, NEW d \in Call, Rename(d)
        PROVE  \E e \in Call : IsSave(e)' /\ Overlap(c, e)'
    <3>1. call[d] = "rename" /\ call'[d] = "saved" /\ d # c
      BY <1>0, <1>3, <2>2 DEF Rename, Opened
    <3>2. IsSave(d) /\ Overlap(c, d)
      BY <1>0, <2>2, <3>1, Together DEF Opened
    <3> QED BY <1>1, <3>2
  <2>3. ASSUME NEW d \in Call, OpenTmp(d) PROVE tmp' # Nil
    BY <1>0, <2>3, AtomicFileAssumption DEF OpenTmp, FileTypeOK
  <2>4. call[c] \in Opened => tmp # Nil \/ \E d \in Call : IsSave(d) /\ Overlap(c, d)
    BY <1>0 DEF RaceInv
  <2> QED BY <1>1, <1>2, <1>3, <2>1, <2>2, <2>3, <2>4
<1>4. ASSUME NEW c \in Call, call'[c] \in {"read", "remove"}
      PROVE  path' # Nil \/ \E d \in Call : Deleted(d)' /\ Overlap(c, d)'
  <2>1. CASE LoadBegins(c) \/ DeleteBegins(c)
    BY <1>0, <1>4, <2>1 DEF LoadBegins, DeleteBegins
  <2>2. ASSUME call[c] \in {"read", "remove"}, path # Nil, NEW d \in Call, Remove(d)
        PROVE  \E e \in Call : Deleted(e)' /\ Overlap(c, e)'
    <3>1. call[d] = "remove" /\ Deleted(d)' /\ d # c
      BY <1>0, <1>4, <2>2 DEF Remove, Deleted, CallsInv, Ended
    <3>2. Overlap(c, d)
      BY <1>0, <2>2, <3>1 DEF CallsInv, Overlap, Ended
    <3> QED BY <1>1, <3>1, <3>2
  <2>3. ASSUME NEW d \in Call, Rename(d) PROVE path' = path \/ path' # Nil
    BY <2>3 DEF Rename
  <2>4. call[c] \in {"read", "remove"} =>
          path # Nil \/ \E d \in Call : Deleted(d) /\ Overlap(c, d)
    BY <1>0 DEF RaceInv
  <2> QED BY <1>1, <1>2, <1>4, <2>1, <2>2, <2>3, <2>4
<1>5. ASSUME NEW c \in Call, call'[c] = "err", c \notin faults'
      PROVE  IF IsSave(c)' THEN \E d \in Call : IsSave(d)' /\ Overlap(c, d)'
             ELSE SavesOverlap' \/ \E d \in Call : Deleted(d)' /\ Overlap(c, d)'
  <2>1. CASE call[c] = "err"
    <3>1. c \notin faults /\ IsSave(c)' = IsSave(c)
      BY <1>1, <1>2, <1>5, <2>1 DEF Ended, IsSave
    <3>2. IF IsSave(c) THEN \E d \in Call : IsSave(d) /\ Overlap(c, d)
          ELSE SavesOverlap \/ \E d \in Call : Deleted(d) /\ Overlap(c, d)
      BY <1>0, <2>1, <3>1 DEF RaceInv, ErrorsExplained
    <3> QED BY <1>1, <3>1, <3>2
  <2>2. CASE Rename(c)
    <3>1. call[c] = "rename" /\ tmp = Nil
      BY <1>0, <1>5, <2>2 DEF Rename
    <3>2. IsSave(c) /\ \E d \in Call : IsSave(d) /\ Overlap(c, d)
      BY <1>0, <3>1, UnderWay DEF RaceInv, Opened
    <3> QED BY <1>1, <3>2
  <2>3. CASE Read(c) \/ Remove(c)
    <3>1. call[c] \in {"read", "remove"} /\ value[c] = Nil
      BY <1>0, <2>3 DEF Read, Remove, CallsInv
    <3>2. path = Nil \/ ~ Parses(content[path])
      BY <1>0, <1>5, <2>3 DEF Read, Remove
    <3>3. value'[c] = value[c]
      BY <1>0, <1>5, <2>3 DEF Read, Remove
    <3>4. ~ IsSave(c)'
      BY <3>1, <3>3 DEF IsSave
    <3>5. CASE path = Nil
      <4>1. \E d \in Call : Deleted(d) /\ Overlap(c, d)
        BY <1>0, <3>1, <3>5 DEF RaceInv
      <4> QED BY <1>1, <3>4, <4>1
    <3>6. CASE path # Nil
      <4>1. SavesOverlap
        BY <3>2, <3>6 DEF FileInv, TornInv
      <4> QED BY <1>1, <3>4, <4>1
    <3> QED BY <3>5, <3>6
  <2>4. CASE IOError(c)
    BY <1>5, <2>4 DEF IOError
  <2> QED BY <1>2, <1>5, <2>1, <2>2, <2>3, <2>4
<1>6. ErrorsExplained'
  BY <1>5 DEF ErrorsExplained
<1> QED BY <1>3, <1>4, <1>6 DEF RaceInv

\* What may change of the files and of the calls that the history is about.
LEMMA FileSteps ==
  ASSUME FileTypeOK, CallsInv, [FileNext]_fileVars
  PROVE  \/ \E c \in Call : OpenTmp(c) \/ WriteTmp(c) \/ (Rename(c) /\ tmp # Nil)
                            \/ (Remove(c) /\ path # Nil) \/ (DeleteBegins(c) /\ path = Nil /\ UNCHANGED faults)
         \/ /\ UNCHANGED <<path, tmp, content, inode>>
            /\ \A e \in Call : /\ call'[e] \in Opened => call[e] \in Opened
                               /\ Effective(e)' => Effective(e)
<1> DEFINE Kept == /\ UNCHANGED <<path, tmp, content, inode>>
                   /\ \A e \in Call : /\ call'[e] \in Opened => call[e] \in Opened
                                      /\ Effective(e)' => Effective(e)
<1> USE DEF At, Begins, Overlooks, Fails, Effective, Deleted
<1>0. call \in [Call -> Steps]
  BY DEF FileTypeOK, Steps, Opened
<1>1. ASSUME NEW c \in Call, (\E v \in Item : SaveBegins(c, v)) \/ IOError(c) \/ LoadBegins(c)
      PROVE  Kept
  BY <1>0, <1>1 DEF SaveBegins, IOError, LoadBegins, Opened
<1>2. ASSUME NEW c \in Call, Read(c) PROVE Kept
  BY <1>0, <1>2 DEF Read, Opened
<1>3. ASSUME NEW c \in Call, Rename(c), tmp = Nil PROVE Kept
  BY <1>0, <1>3 DEF Rename, Opened
<1>4. ASSUME NEW c \in Call, Remove(c), path = Nil PROVE Kept
  BY <1>0, <1>4 DEF Remove, Opened
<1>5. ASSUME NEW c \in Call, DeleteBegins(c), path # Nil \/ faults' # faults PROVE Kept
  BY <1>0, <1>5 DEF DeleteBegins, Opened
<1>6. CASE Crash \/ UNCHANGED fileVars
  BY <1>0, <1>6 DEF Crash, fileVars, Opened
<1> QED BY <1>1, <1>2, <1>3, <1>4, <1>5, <1>6 DEF FileNext

LEMMA SourceStep == FileInv /\ [FileNext]_fileVars => SourceInv'
<1> SUFFICES ASSUME FileInv, [FileNext]_fileVars PROVE SourceInv'
  OBVIOUS
<1> USE DEF At, Begins, Overlooks
<1> DEFINE Tmp == tmp # Nil /\ Starts(content[tmp]) =>
                    \E d \in Call : /\ Wrote(d, content[tmp])
                                    /\ \A e \in Call : call[e] \in Opened => d \notin before[e]
           Gone == path = Nil =>
                     \/ \A e \in Call : call[e] # "saved"
                     \/ \E d \in Call : /\ Deleted(d)
                                        /\ \A e \in Call : Effective(e) => d \notin before[e]
           There == path # Nil => \E e \in Call : Newest(e)
<1>0. /\ FileTypeOK /\ CallsInv /\ CallsInv' /\ Tmp /\ Gone /\ There /\ call \in [Call -> Steps]
      /\ content \in [Call -> Seq(Item \cup {Nil})] /\ before \in [Call -> SUBSET Call]
      /\ inode \in [Call -> Call \cup {Nil}] /\ path \in Call \cup {Nil} /\ tmp \in Call \cup {Nil}
  BY CallsStep DEF FileInv, FileTypeOK, Steps, Opened, SourceInv
<1>1. /\ \A c \in Call : call[c] # "free" => before'[c] = before[c]
      /\ \A c \in Call : call[c] \in Ended => call'[c] = call[c] /\ value'[c] = value[c]
      /\ \A c \in Call : IsSave(c) => IsSave(c)' /\ value'[c] = value[c]
      /\ \A c, d \in Call : Overlap(c, d) => Overlap(c, d)'
      /\ \A c \in Call : Deleted(c) => Deleted(c)'
  BY <1>0, Later
<1>2. CASE /\ UNCHANGED <<path, tmp, content, inode>>
           /\ \A e \in Call : /\ call'[e] \in Opened => call[e] \in Opened
                              /\ Effective(e)' => Effective(e)
  <2>0. \A e \in Call : /\ call'[e] \in Opened => call[e] \in Opened /\ before'[e] = before[e]
                        /\ Effective(e)' => Effective(e) /\ before'[e] = before[e]
                        /\ call'[e] = "saved" => call[e] = "saved"
    BY <1>1, <1>2 DEF Opened, Effective, Deleted
  <2>1. Tmp'
    <3> SUFFICES ASSUME tmp # Nil, Starts(content[tmp])
                 PROVE  \E d \in Call : /\ IsSave(d)' /\ value'[d] = content[tmp][1]
                                        /\ \A e \in Call : call'[e] \in Opened => d \notin before'[e]
      BY <1>2 DEF Wrote
    <3> QED BY <1>0, <1>1, <2>0 DEF Wrote
  <2>2. Gone'
    BY <1>0, <1>1, <1>2, <2>0
  <2>3. ASSUME NEW e \in Call, Newest(e) PROVE Newest(e)'
    <3>1. /\ call'[e] = "saved"
          /\ \A x \in Call : Effective(x)' => e \notin before'[x]
          /\ \A x \in Call : call'[x] \in Opened /\ inode'[x] = path => e \notin before'[x]
      BY <1>1, <1>2, <2>0, <2>3 DEF Newest, Ended
    <3>2. Starts(content[path]) =>
            \E d \in Call : IsSave(d)' /\ value'[d] = content[path][1] /\ (d = e \/ Overlap(d, e)')
      BY <1>1, <2>3 DEF Newest, Wrote
    <3> QED BY <1>2, <3>1, <3>2 DEF Newest, Wrote
  <2> QED BY <1>0, <1>2, <2>1, <2>2, <2>3 DEF SourceInv
<1>3. ASSUME NEW c \in Call, OpenTmp(c) PROVE SourceInv'
  <2>1. /\ call[c] = "open" /\ call' = [call EXCEPT ![c] = "write"]
        /\ tmp' \in Call /\ (path # Nil => path # tmp')
        /\ content' = [content EXCEPT ![tmp'] = << >>] /\ inode' = [inode EXCEPT ![c] = tmp']
        /\ UNCHANGED <<path, value, before, faults>>
    BY <1>0, <1>3 DEF OpenTmp, CallsInv
  <2>2. content'[tmp'] = << >> /\ (path # Nil => content'[path] = content[path])
    BY <1>0, <2>1
  <2>3. \A e \in Call : Effective(e)' => Effective(e)
    BY <1>0, <2>1 DEF Effective, Deleted
  <2>4. \A x \in Call : path # Nil /\ call'[x] \in Opened /\ inode'[x] = path =>
          call[x] \in Opened /\ inode[x] = path
    BY <1>0, <2>1
  <2>5. ASSUME NEW e \in Call, Newest(e), path # Nil PROVE Newest(e)'
    BY <1>1, <2>1, <2>2, <2>3, <2>4, <2>5 DEF Newest, Starts, Wrote, Ended
  <2>6. Gone'
    BY <1>0, <1>1, <2>1, <2>3 DEF Ended
  <2> QED BY <1>0, <2>1, <2>2, <2>5, <2>6 DEF SourceInv, Starts
<1>4. ASSUME NEW c \in Call, WriteTmp(c) PROVE SourceInv'
  <2>1. PICK n \in 1..2 :
           /\ offset[c] \in Nat /\ call[c] = "write"
           /\ call' = [call EXCEPT ![c] = IF n = Len(Text(value[c])) THEN "rename" ELSE "write"]
           /\ value[c] \in Item /\ inode[c] \in Call
           /\ content' = [content EXCEPT ![inode[c]] =
                            Written(content[inode[c]], value[c], offset[c], n)]
    BY <1>0, <1>4, Writer
  <2> HIDE DEF Text
  <2>2. UNCHANGED <<path, tmp, value, inode, before, faults>>
    BY <1>4 DEF WriteTmp
  <2>3. /\ \A e \in Call : call'[e] \in Opened => call[e] \in Opened
        /\ \A e \in Call : Effective(e)' => Effective(e)
        /\ IsSave(c) /\ \A d \in Call : c \notin before[d]
    BY <1>0, <2>1, <2>2, UnderWay DEF Opened, Ended, Effective, Deleted
  <2>4. content[inode[c]] \in Seq(Item \cup {Nil}) /\ Len(content[inode[c]]) <= 2
    BY <1>0, <2>1 DEF FileTypeOK
  <2>5. content'[inode[c]][1] = IF offset[c] = 0 THEN value[c]
                                ELSE IF content[inode[c]] = << >> THEN Nil ELSE content[inode[c]][1]
    <3>1. content'[inode[c]] = Written(content[inode[c]], value[c], offset[c], n)
      BY <1>0, <2>1
    <3> QED BY <2>1, <2>4, <3>1, WrittenBytes
  \* The file starts with what was there, or with a byte of c.
  <2>6. \A f \in Call : Starts(content'[f]) =>
          \/ Starts(content[f]) /\ content'[f][1] = content[f][1]
          \/ f = inode[c] /\ content'[f][1] = value[c]
    BY <1>0, <2>1, <2>5 DEF Starts
  <2>7. Tmp'
    <3> SUFFICES ASSUME tmp # Nil, Starts(content'[tmp])
                 PROVE  \E d \in Call : /\ IsSave(d)' /\ value'[d] = content'[tmp][1]
                                        /\ \A e \in Call : call'[e] \in Opened => d \notin before'[e]
      BY <2>2 DEF Wrote
    <3>1. CASE content'[tmp][1] = value[c]
      BY <1>1, <2>2, <2>3, <3>1
    <3>2. CASE Starts(content[tmp]) /\ content'[tmp][1] = content[tmp][1]
      BY <1>0, <1>1, <2>2, <2>3, <3>2 DEF Wrote
    <3> QED BY <1>0, <2>6, <3>1, <3>2
  <2>8. Gone'
    <3>1. \A e \in Call : call'[e] = "saved" => call[e] = "saved"
      BY <1>1, <2>3 DEF Effective, Deleted
    <3> QED BY <1>0, <1>1, <2>2, <2>3, <3>1
  <2>9. ASSUME NEW e \in Call, Newest(e), path # Nil PROVE Newest(e)'
    <3>1. /\ call'[e] = "saved" /\ call[e] = "saved"
          /\ \A x \in Call : Effective(x)' => e \notin before'[x]
          /\ \A x \in Call : call'[x] \in Opened /\ inode'[x] = path' => e \notin before'[x]
      BY <1>1, <2>2, <2>3, <2>9 DEF Newest, Ended
    <3>2. ASSUME Starts(content'[path])
          PROVE  \E d \in Call : /\ IsSave(d)' /\ value'[d] = content'[path][1]
                                 /\ d = e \/ Overlap(d, e)'
      <4>1. CASE Starts(content[path]) /\ content'[path][1] = content[path][1]
        BY <1>1, <2>2, <2>9, <4>1 DEF Newest, Wrote
      <4>2. CASE path = inode[c] /\ content'[path][1] = value[c]
        <5>1. e \notin before[c] /\ e # c
          BY <2>1, <2>9, <3>1, <4>2 DEF Newest, Opened
        <5>2. Overlap(c, e)
          BY <2>1, <2>3, <3>1, <5>1 DEF Overlap
        <5> QED BY <1>1, <2>2, <2>3, <4>2, <5>2
      <4> QED BY <1>0, <2>6, <2>9, <3>2, <4>1, <4>2
    <3> QED BY <2>2, <3>1, <3>2 DEF Newest, Wrote
  <2> QED BY <1>0, <2>2, <2>7, <2>8, <2>9 DEF SourceInv
<1>5. ASSUME NEW c \in Call, Rename(c), tmp # Nil PROVE SourceInv'
  <2>1. /\ call[c] = "rename" /\ call' = [call EXCEPT ![c] = "saved"]
        /\ path' = tmp /\ tmp' = Nil /\ UNCHANGED <<content, value, inode, before>>
    BY <1>5 DEF Rename
  <2>2. IsSave(c) /\ (\A x \in Call : c \notin before[x]) /\ call'[c] = "saved"
    BY <1>0, <2>1, UnderWay DEF Opened, Ended
  <2>3. ASSUME Starts(content[tmp])
        PROVE  \E d \in Call : Wrote(d, content[tmp]) /\ (d = c \/ Overlap(d, c))
    <3>1. PICK d \in Call : /\ Wrote(d, content[tmp])
                            /\ \A e \in Call : call[e] \in Opened => d \notin before[e]
      BY <1>0, <1>5, <2>3
    <3>2. call[d] # "free"
      BY <1>0, <3>1 DEF Wrote, IsSave, CallsInv
    <3> QED BY <2>1, <2>2, <3>1, <3>2 DEF Overlap, Opened
  <2>4. Newest(c)'
    BY <1>1, <2>1, <2>2, <2>3 DEF Newest, Wrote
  <2> QED BY <1>5, <2>1, <2>4 DEF SourceInv
<1>6. ASSUME NEW c \in Call,
             (Remove(c) /\ path # Nil) \/ (DeleteBegins(c) /\ path = Nil /\ UNCHANGED faults)
      PROVE  SourceInv'
  <2>1. /\ call[c] \in {"free", "remove"} /\ call' = [call EXCEPT ![c] = "deleted"]
        /\ path' = Nil /\ UNCHANGED <<tmp, content, value, faults>>
        /\ \A x \in Call : before'[x] = before[x] \/ before'[x] = {d \in Call : call[d] \in Ended}
    BY <1>0, <1>6 DEF Remove, DeleteBegins
  <2>2. \A x \in Call : c \notin before[x] /\ call[c] \notin Ended
    BY <1>0, <2>1, UnderWay DEF Ended
  <2>3. Deleted(c)' /\ \A x \in Call : c \notin before'[x]
    BY <1>0, <2>1, <2>2 DEF Deleted, CallsInv
  <2>4. \A e \in Call : call'[e] \in Opened => call[e] \in Opened
    BY <1>0, <2>1 DEF Opened
  <2>5. Tmp'
    BY <1>0, <1>1, <2>1, <2>4 DEF Wrote, Opened
  <2> QED BY <2>1, <2>3, <2>5 DEF SourceInv
<1> QED BY <1>0, <1>2, <1>3, <1>4, <1>5, <1>6, FileSteps

\* What load c has to return, for the histories of the calls and the values they save.
Returned(c) ==
  IF value[c] = Nil
  THEN \/ c \in faults
       \/ ~ \E e \in before[c] : call[e] = "saved"
       \/ \E d \in Call : Deleted(d) /\ c \notin before[d] /\ ~ Superseded(d, c)
  ELSE \E d, e \in Call : /\ IsSave(d) /\ value[d] = value[c] /\ c \notin before[d]
                          /\ d = e \/ (IsSave(e) /\ Overlap(d, e))
                          /\ c \notin before[e] /\ ~ Superseded(e, c)

LEMMA LoadStep == FileInv /\ [FileNext]_fileVars => LoadRecent'
<1> SUFFICES ASSUME FileInv, [FileNext]_fileVars, NEW c \in Call, call'[c] = "loaded"
             PROVE  Returned(c)'
  BY DEF LoadRecent, Returned
<1> USE DEF At, Begins, Overlooks
<1>0. /\ FileTypeOK /\ CallsInv /\ call \in [Call -> Steps] /\ before \in [Call -> SUBSET Call]
      /\ value \in [Call -> Item \cup {Nil}]
  BY DEF FileInv, FileTypeOK, Steps, Opened
<1>1. /\ \A d \in Call : call[d] # "free" => before'[d] = before[d]
      /\ \A d \in Call : call[d] \in Ended => call'[d] = call[d] /\ value'[d] = value[d]
      /\ \A d \in Call : IsSave(d) => IsSave(d)' /\ value'[d] = value[d]
      /\ \A d, e \in Call : Overlap(d, e) => Overlap(d, e)'
      /\ \A d \in Call : call[d] \in Ended => (d \in faults' <=> d \in faults)
      /\ \A d \in Call : Deleted(d) => Deleted(d)'
  BY <1>0, Later
<1>2. \A d \in Call : IsSave(d) => call[d] # "free"
  BY <1>0 DEF IsSave, CallsInv
\* What had ended when c began has not changed since.
<1>3. \A x \in Call : call[x] \in Ended =>
        call'[x] = call[x] /\ before'[x] = before[x] /\ Effective(x)' = Effective(x)
  BY <1>1 DEF Ended, Effective, Deleted
<1>4. CASE call[c] = "loaded"
  <2>1. before'[c] = before[c] /\ value'[c] = value[c] /\ Returned(c)
    BY <1>1, <1>4 DEF Ended, FileInv, LoadRecent, Returned
  <2>2. \A x \in before[c] : x \in Call /\ call[x] \in Ended
    BY <1>0 DEF CallsInv
  <2>3. \A d \in Call : Superseded(d, c)' => Superseded(d, c)
    BY <1>3, <2>1, <2>2 DEF Superseded
  <2>4. CASE value[c] = Nil
    <3>1. CASE ~ \E e \in before[c] : call[e] = "saved"
      BY <1>3, <2>1, <2>2, <2>4, <3>1 DEF Returned
    <3>2. ASSUME NEW d \in Call, Deleted(d), c \notin before[d], ~ Superseded(d, c)
          PROVE  Deleted(d)' /\ c \notin before'[d] /\ ~ Superseded(d, c)'
      BY <1>1, <1>3, <2>3, <3>2 DEF Ended, Deleted
    <3>3. c \in faults => c \in faults'
      BY <1>1, <1>4 DEF Ended
    <3> QED BY <2>1, <2>4, <3>1, <3>2, <3>3 DEF Returned
  <2>5. CASE value[c] # Nil
    <3>1. PICK d \in Call, e \in Call :
            /\ IsSave(d) /\ value[d] = value[c] /\ c \notin before[d]
            /\ d = e \/ (IsSave(e) /\ Overlap(d, e))
            /\ c \notin before[e] /\ ~ Superseded(e, c)
      BY <2>1, <2>5 DEF Returned
    <3>2. /\ IsSave(d)' /\ value'[d] = value[d] /\ c \notin before'[d]
          /\ d = e \/ (IsSave(e)' /\ Overlap(d, e)')
          /\ c \notin before'[e] /\ ~ Superseded(e, c)'
      BY <1>1, <1>2, <2>3, <3>1
    <3> QED BY <2>1, <2>5, <3>1, <3>2 DEF Returned
  <2> QED BY <2>4, <2>5
<1>5. CASE LoadBegins(c) /\ path = Nil /\ UNCHANGED faults
  <2>1. /\ call[c] = "free" /\ value'[c] = Nil
        /\ before'[c] = {d \in Call : call[d] \in Ended}
        /\ \A d \in Call \ {c} : call'[d] = call[d] /\ before'[d] = before[d]
    BY <1>0, <1>5 DEF LoadBegins, CallsInv
  <2>2. \A d \in Call : c \notin before[d]
    BY <1>0, <2>1, UnderWay DEF Ended
  <2>3. CASE \A e \in Call : call[e] # "saved"
    BY <1>3, <2>1, <2>3 DEF Returned
  <2>4. ASSUME NEW d \in Call, Deleted(d), \A e \in Call : Effective(e) => d \notin before[e]
        PROVE  Returned(c)'
    <3>1. d # c /\ Deleted(d)' /\ c \notin before'[d]
      BY <1>1, <2>1, <2>2, <2>4 DEF Deleted
    <3>2. \A e \in before'[c] :
            e \in Call /\ Effective(e)' = Effective(e) /\ before'[e] = before[e]
      BY <1>3, <2>1
    <3>3. ~ Superseded(d, c)'
      BY <2>4, <3>2 DEF Superseded
    <3> QED BY <2>1, <3>1, <3>3 DEF Returned
  <2> QED BY <1>5, <2>3, <2>4 DEF FileInv, SourceInv
<1>6. CASE Read(c)
  <2>1. /\ call[c] = "read" /\ path # Nil /\ Parses(content[path])
        /\ value'[c] = content[path][1] /\ before' = before
    BY <1>0, <1>1, <1>6 DEF Read
  <2>2. content[path][1] \in Item /\ Starts(content[path])
    <3>1. PICK v \in Item : content[path] = Text(v)
      BY <2>1 DEF Parses
    <3>2. Text(v)[1] = v /\ Text(v) # << >>
      BY TextLength
    <3> QED BY <3>1, <3>2, AtomicFileAssumption DEF Starts
  <2>3. \A d \in Call : c \notin before[d]
    BY <1>0, <2>1, UnderWay DEF Ended
  <2>4. PICK e \in Call : Newest(e)
    BY <2>1 DEF FileInv, SourceInv
  <2>5. PICK d \in Call : Wrote(d, content[path]) /\ (d = e \/ Overlap(d, e))
    BY <2>2, <2>4 DEF Newest
  <2>6. IsSave(e)
    BY <1>0, <2>4, UnderWay DEF Newest
  <2>7. \A x \in before[c] : x \in Call /\ Effective(x)' = Effective(x)
    BY <1>0, <1>3 DEF CallsInv
  <2>8. ~ Superseded(e, c)'
    BY <2>1, <2>4, <2>7 DEF Newest, Superseded
  <2>9. IsSave(d)' /\ value'[d] = value'[c] /\ IsSave(e)' /\ (d = e \/ Overlap(d, e)')
    BY <1>1, <2>1, <2>5, <2>6 DEF Wrote
  <2>10. value'[c] # Nil
    BY <2>1, <2>2, AtomicFileAssumption
  <2> QED BY <2>1, <2>3, <2>8, <2>9, <2>10 DEF Returned
\* A load whose look at the file failed.
<1>7. CASE LoadBegins(c) /\ faults' # faults
  <2>1. value'[c] = Nil /\ c \in faults'
    BY <1>0, <1>7 DEF LoadBegins, CallsInv
  <2> QED BY <2>1 DEF Returned
<1>8. \/ call[c] = "loaded" \/ Read(c)
      \/ LoadBegins(c) /\ (faults' # faults \/ (path = Nil /\ UNCHANGED faults))
  <2>1. ASSUME NEW d \in Call, NEW v \in Item, SaveBegins(d, v) PROVE call[c] = "loaded"
    BY <1>0, <2>1 DEF SaveBegins
  <2>2. ASSUME NEW d \in Call, OpenTmp(d) \/ Rename(d) \/ IOError(d) \/ DeleteBegins(d) \/ Remove(d)
        PROVE  call[c] = "loaded"
    BY <1>0, <2>2 DEF OpenTmp, Rename, IOError, Fails, DeleteBegins, Remove
  <2>3. ASSUME NEW d \in Call, WriteTmp(d) PROVE call[c] = "loaded"
    BY <1>0, <2>3 DEF WriteTmp
  <2>4. ASSUME NEW d \in Call, LoadBegins(d) \/ Read(d)
        PROVE  \/ call[c] = "loaded" \/ Read(c)
               \/ LoadBegins(c) /\ (faults' # faults \/ (path = Nil /\ UNCHANGED faults))
    <3>1. CASE d # c
      BY <1>0, <2>4, <3>1 DEF LoadBegins, Read
    <3>2. CASE LoadBegins(c) /\ UNCHANGED faults /\ path # Nil
      BY <1>0, <3>2, AtomicFileAssumption DEF LoadBegins, CallsInv, Ended
    <3> QED BY <2>4, <3>1, <3>2
  <2>5. CASE Crash \/ UNCHANGED fileVars
    BY <1>0, <2>5 DEF Crash, fileVars
  <2> QED BY <2>1, <2>2, <2>3, <2>4, <2>5 DEF FileNext
<1> QED BY <1>4, <1>5, <1>6, <1>7, <1>8

LEMMA FileInitially == FileInit => FileInv
<1> SUFFICES ASSUME FileInit PROVE FileInv
  OBVIOUS
<1>1. \A c \in Call : /\ call[c] = "free" /\ value[c] = Nil /\ inode[c] = Nil /\ offset[c] = 0
                      /\ before[c] = {}
  BY DEF FileInit
<1>2. path = Nil /\ tmp = Nil
  BY DEF FileInit
<1>3. FileTypeOK
  <2>1. << >> \in Seq(Item \cup {Nil}) /\ Len(<< >>) = 0
    OBVIOUS
  <2>2. content \in [Call -> Seq(Item \cup {Nil})] /\ \A c \in Call : Len(content[c]) <= 2
    BY <2>1 DEF FileInit
  <2> HIDE DEF Text
  <2>3. \A c \in Call : call[c] # "rename"
    BY <1>1
  <2> QED BY <2>2, <2>3 DEF FileInit, FileTypeOK
<1>4. CallsInv
  BY <1>1, <1>2, AtomicFileAssumption DEF CallsInv, Opened, FileInit
<1>5. TornInv /\ RaceInv /\ SourceInv /\ LoadRecent
  BY <1>1, <1>2 DEF TornInv, RaceInv, SourceInv, LoadRecent, ErrorsExplained, Opened
<1> QED BY <1>3, <1>4, <1>5 DEF FileInv

LEMMA FileInvariant == FileSpec => []FileInv
<1>1. FileInv /\ [FileNext]_fileVars => FileInv'
  BY FileTypes, CallsStep, TornStep, RaceStep, SourceStep, LoadStep DEF FileInv
<1> QED BY FileInitially, <1>1, PTL DEF FileSpec

\* AtomicFile keeps to its types.
THEOREM FileTypesTheorem == FileSpec => []FileTypeOK
BY FileInvariant, PTL DEF FileInv

\* fs::write and fs::rename of the file stores: no kill and no I/O error leaves a file
\* that does not parse, only two saves that overlap.
THEOREM TornTheorem == FileSpec => []TornExplained
<1>1. FileInv => TornExplained
  BY DEF FileInv, TornInv, TornExplained
<1> QED BY <1>1, FileInvariant, PTL

\* load_policy and load: what is loaded was saved, and no acknowledged call has
\* superseded it, but for the loads and deletes whose path.exists() swallowed an error.
THEOREM LoadTheorem == FileSpec => []LoadRecent
BY FileInvariant, PTL DEF FileInv

\* The file stores: a call fails by an I/O error or by another call it overlapped.
THEOREM ErrorsTheorem == FileSpec => []ErrorsExplained
BY FileInvariant, PTL DEF FileInv, RaceInv

\* The value that the file holds, and the step of a register: it is written by a save
\* or emptied by a delete in the step in which that call is acknowledged, and every
\* other step leaves it alone and gives a load that ends there just that value, unless
\* its look at the file failed.  A delete whose look failed changes nothing.
FileValue == IF path = Nil THEN Nil ELSE content[path][1]
Becomes(c, s) == call[c] # s /\ call'[c] = s
RegisterStep ==
  \/ /\ FileValue' = FileValue
     /\ \A c \in Call : /\ ~ Becomes(c, "saved")
                        /\ Becomes(c, "loaded") /\ c \notin faults' => value'[c] = FileValue
                        /\ Becomes(c, "deleted") /\ c \notin faults' => FileValue = Nil
  \/ \E c \in Call : /\ Becomes(c, "saved") \/ Becomes(c, "deleted")
                     /\ FileValue' = IF call'[c] = "saved" THEN value[c] ELSE Nil
                     /\ \A d \in Call \ {c} : call'[d] = call[d]

LEMMA RegisterSteps ==
  ASSUME FileInv, [FileNext]_fileVars, ~ SavesOverlap' PROVE RegisterStep
<1> USE DEF At, Begins, Overlooks, Fails
<1>0. /\ FileTypeOK /\ CallsInv /\ call \in [Call -> Steps]
      /\ inode \in [Call -> Call \cup {Nil}] /\ content \in [Call -> Seq(Item \cup {Nil})]
      /\ tmp \in Call \cup {Nil} /\ path \in Call \cup {Nil}
  BY DEF FileInv, FileTypeOK, Steps, Opened
<1>1. /\ ~ SavesOverlap
      /\ \A c \in Call : call[c] \in Opened =>
           inode[c] = tmp /\ content[tmp] = Start(value[c], offset[c])
  BY <1>0, Later DEF FileInv, TornInv
<1> DEFINE Quiet == \A c \in Call : /\ ~ Becomes(c, "saved") /\ ~ Becomes(c, "loaded")
                                    /\ ~ Becomes(c, "deleted")
           Stays == path' = path /\ (path # Nil => content'[path] = content[path])
<1>2. CASE Quiet /\ Stays
  BY <1>2 DEF RegisterStep, FileValue
<1>3. ASSUME NEW c \in Call, (\E v \in Item : SaveBegins(c, v)) \/ IOError(c)
      PROVE  Quiet /\ Stays
  BY <1>0, <1>3 DEF SaveBegins, IOError, Becomes
<1>4. ASSUME NEW c \in Call, OpenTmp(c) PROVE Quiet /\ Stays
  <2>1. tmp' \in Call /\ (path # Nil => path # tmp')
    BY <1>0, <1>4 DEF OpenTmp, CallsInv
  <2> QED BY <1>0, <1>4, <2>1 DEF OpenTmp, Becomes
<1>5. ASSUME NEW c \in Call, WriteTmp(c) PROVE Quiet /\ Stays
  <2>1. PICK n \in 1..2 :
           /\ call[c] = "write" /\ inode[c] \in Call
           /\ call' = [call EXCEPT ![c] = IF n = Len(Text(value[c])) THEN "rename" ELSE "write"]
           /\ content' = [content EXCEPT ![inode[c]] =
                            Written(content[inode[c]], value[c], offset[c], n)]
    BY <1>0, <1>5, Writer
  <2> HIDE DEF Text
  <2>2. path # Nil => path # inode[c]
    BY <1>0, <1>1, <2>1 DEF CallsInv, Opened
  <2>3. Stays
    BY <1>0, <1>5, <2>1, <2>2 DEF WriteTmp
  <2>4. Quiet
    BY <1>0, <2>1 DEF Becomes
  <2> QED BY <2>3, <2>4
<1>6. ASSUME NEW c \in Call, Rename(c), tmp = Nil PROVE Quiet /\ Stays
  BY <1>0, <1>6 DEF Rename, Becomes
<1>7. ASSUME NEW c \in Call, Rename(c), tmp # Nil PROVE RegisterStep
  <2>1. /\ call[c] = "rename" /\ call'[c] = "saved" /\ path' = tmp /\ UNCHANGED content
        /\ \A d \in Call \ {c} : call'[d] = call[d]
    BY <1>0, <1>7 DEF Rename
  <2>2. /\ content[tmp] = Start(value[c], offset[c]) /\ value[c] \in Item
        /\ offset[c] = Len(Text(value[c]))
    BY <1>0, <1>1, <2>1 DEF FileTypeOK, Opened, CallsInv
  <2>3. content[tmp][1] = value[c]
    BY <2>2, TextLength
  <2>4. FileValue' = value[c]
    BY <1>7, <2>1, <2>3 DEF FileValue
  <2> QED BY <2>1, <2>4 DEF RegisterStep, Becomes
<1>8. ASSUME NEW c \in Call, LoadBegins(c) \/ DeleteBegins(c) PROVE RegisterStep
  <2>1. UNCHANGED <<path, content, value>> /\ value[c] = Nil
        /\ \A d \in Call \ {c} : call'[d] = call[d]
    BY <1>0, <1>8 DEF LoadBegins, DeleteBegins, CallsInv
  <2>2. call'[c] \in {"loaded", "deleted"} /\ c \notin faults' => path = Nil
    BY <1>0, <1>8 DEF LoadBegins, DeleteBegins
  <2>3. call'[c] # "saved"
    BY <1>0, <1>8 DEF LoadBegins, DeleteBegins
  <2> QED BY <2>1, <2>2, <2>3 DEF RegisterStep, FileValue, Becomes
<1>9. ASSUME NEW c \in Call, Read(c) PROVE RegisterStep
  <2>1. UNCHANGED <<path, content>> /\ call'[c] \in {"err", "loaded"}
        /\ \A d \in Call \ {c} : call'[d] = call[d]
    BY <1>0, <1>9 DEF Read
  <2>2. call'[c] = "loaded" => value'[c] = FileValue
    BY <1>0, <1>9 DEF Read, FileTypeOK, FileValue
  <2> QED BY <2>1, <2>2 DEF RegisterStep, FileValue, Becomes
<1>10. ASSUME NEW c \in Call, Remove(c) PROVE RegisterStep
  <2>1. /\ call[c] = "remove" /\ call'[c] \in {"err", "deleted"} /\ path' = Nil
        /\ call'[c] = "err" => path = Nil
        /\ \A d \in Call \ {c} : call'[d] = call[d]
    BY <1>0, <1>10 DEF Remove
  <2> QED BY <2>1 DEF RegisterStep, FileValue, Becomes
<1>11. CASE Crash \/ UNCHANGED fileVars
  BY <1>0, <1>2, <1>11 DEF Crash, fileVars, Becomes, Ended
<1> QED BY <1>2, <1>3, <1>4, <1>5, <1>6, <1>7, <1>8, <1>9, <1>10, <1>11 DEF FileNext

\* fs::write and fs::rename of the file stores: until two saves of the file overlap, its
\* readers cannot tell it from a register that each save and each delete sets at once,
\* whatever is killed or fails in between.  The exceptions are the calls whose path.exists()
\* swallowed an error: such a load finds nothing and such a delete leaves the file.
THEOREM RegisterTheorem == FileSpec => [][SavesOverlap' \/ RegisterStep]_fileVars
<1>1. FileInv /\ [FileNext]_fileVars => [SavesOverlap' \/ RegisterStep]_fileVars
  BY RegisterSteps
<1> QED BY <1>1, FileInvariant, PTL DEF FileSpec
=================================================================================
