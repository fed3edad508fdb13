------------------------------ MODULE KeyRotation ------------------------------
(***************************************************************************)
(* An agent that rotates its keys and registers them with a daemon: every  *)
(* request, the one that registers a key as well, has to be signed with    *)
(* the key the registry holds for its sender.                              *)
(*                                                                         *)
(* The agent is a program on the library: an AgentIdentity, whose two      *)
(* halves of a key pair are kept apart, in a JSON file and in a KeyStore;  *)
(* a HttpAgentRegistry, which signs with the key it was made with; and the *)
(* calls it has in flight.  The daemon verifies a request, and its handler *)
(* registers, later, with the FileAgentRegistry.  Calls fail, are given up *)
(* while the daemon goes on, and either side is restarted.  Of a ring that *)
(* is registered with a key nothing is kept.                               *)
(*                                                                         *)
(* The daemon does not compare the sender of a request with the agent that *)
(* it registers: whoever is registered may register any key for any agent, *)
(* and other agents do, for this one as well.                              *)
(***************************************************************************)
EXTENDS AgentRegistryFile

CONSTANTS Agent,  \* the DID of the agent
          Boot,   \* the registration, of any agent, that was put in the file beforehand
          Key,    \* the keys that are registered for it, pairs seen as one value
          First,  \* the one it begins with
          MaxFaults

ASSUME RotationAssumption == /\ Agent \in Did /\ Boot \in Call /\ MaxFaults \in Nat
                             /\ First \in Key /\ None \notin Key

VARIABLES
  attests,    \* AGT_REGISTRY_PUBKEY is the key the registry attests with
  identity,   \* of the agent's AgentIdentity: public_key and private_key
  signingKey, \* signing_key of its HttpAgentRegistry
  keystore,   \* the private key in its KeyStore
  saved,      \* public_key in the JSON file of its identity
  generated,  \* the keys generated so far, by anyone
  req,        \* call -> "idle", "sent", "checked", or "done"
  publicKey,  \* call -> the key it registers for the agent
  signer,     \* call of the agent -> the key its request is signed with
  answer,     \* call -> what the agent knows of it: "none", "ok" or "err"
  faults,     \* answers lost, writes failed, and restarts of the agent and the daemon
  \* History, to state the properties:
  careless,   \* the agent has given up a key it may still need
  powerless   \* the calls that were signed with a replaced key

agent == <<identity, signingKey, keystore, saved, generated>>
requests == <<req, publicKey, signer, answer, careless, powerless>>
rotationVars == <<vars, attests, agent, requests, faults>>

Fault == faults < MaxFaults /\ faults' = faults + 1

RotationInit ==
  /\ attests \in BOOLEAN
  /\ \E provisioned \in BOOLEAN, a \in Did :
       /\ file = (IF provisioned THEN Text(Boot) ELSE << >>)
       /\ memory = [d \in Did |-> IF provisioned /\ d = a THEN Boot ELSE None]
       /\ call = [c \in Call |-> IF c # Boot THEN "free" ELSE IF provisioned THEN "ok" ELSE "gone"]
       /\ did = [c \in Call |-> IF c = Boot THEN a ELSE None]
       /\ publicKey = [c \in Call |-> IF c = Boot /\ a = Agent THEN First ELSE None]
       /\ answer = [c \in Call |-> IF c = Boot /\ a = Agent /\ provisioned THEN "ok" ELSE "none"]
  /\ status = "up" /\ rest = [c \in Call |-> << >>] /\ before = [c \in Call |-> {}]
  /\ identity = [public |-> First, private |-> First]
  /\ signingKey = First /\ keystore = First /\ saved = First /\ generated = {First}
  /\ req = [c \in Call |-> IF c = Boot THEN "done" ELSE "idle"]
  /\ signer = [c \in Call |-> None]
  /\ faults = 0 /\ careless = FALSE /\ powerless = {}

\* The key the daemon holds for the agent.
Registered == IF memory[Agent] = None THEN None ELSE publicKey[memory[Agent]]

\* A registration another agent has made.
ByOther(c) == c # Boot /\ call[c] # "free" /\ signer[c] = None

\* The calls of the agent that register k, if they ever reach the registry.
Registers(k) == {c \in Call : /\ publicKey[c] = k /\ ~ ByOther(c)
                              /\ req[c] \in {"sent", "checked"} \/ call[c] # "free"}

\* The daemon has told the agent that it registered one of the keys in K, in a call
\* that began after all that register k had ended.
Replaced(k, K) == \E c \in Call : /\ answer[c] = "ok" /\ publicKey[c] \in K
                                  /\ Registers(k) \subseteq before[c]

\* The private keys the agent has a copy of.
Held == {identity.private, signingKey, keystore}

\* The agent has only the keys in K left.
Keeps(K) == careless' = (careless \/ \E k \in Held \ K : ~ (Registers(k) = {} \/ Replaced(k, K)))

-------------------------------------------------------------------------------
(* The agent *)

\* rotate_keys, in memory only.
Rotate(k) ==
  /\ k \notin generated /\ generated' = generated \cup {k}
  /\ identity' = [public |-> k, private |-> k] /\ Keeps({k, signingKey, keystore})
  /\ UNCHANGED <<vars, faults, attests, signingKey, keystore, saved, req, publicKey, signer, answer, powerless>>

\* The agent makes a new HttpAgentRegistry with the key of its identity.
NewClient ==
  /\ signingKey' = identity.private /\ Keeps({identity.private, keystore})
  /\ UNCHANGED <<vars, faults, attests, identity, keystore, saved, generated, req, publicKey, signer,
                 answer, powerless>>

SaveKey ==
  /\ keystore' = identity.private /\ Keeps({identity.private, signingKey})
  /\ UNCHANGED <<vars, faults, attests, identity, signingKey, saved, generated, req, publicKey, signer,
                 answer, powerless>>

SaveIdentity ==
  /\ saved' = identity.public
  /\ UNCHANGED <<vars, faults, attests, identity, signingKey, keystore, generated, requests>>

\* The agent ends and is started again: load takes the public key from the JSON
\* file and the private one from the KeyStore, and does not compare them.
RestartAgent ==
  /\ Fault /\ identity' = [public |-> saved, private |-> keystore] /\ signingKey' = keystore
  /\ Keeps({keystore})
  /\ answer' = [c \in Call |-> IF signer[c] # None /\ answer[c] = "none" THEN "err" ELSE answer[c]]
  /\ UNCHANGED <<vars, attests, keystore, saved, generated, req, publicKey, signer, powerless>>

\* HttpAgentRegistry::register sends its request.
Send(c) ==
  /\ req[c] = "idle" /\ req' = [req EXCEPT ![c] = "sent"]
  /\ publicKey' = [publicKey EXCEPT ![c] = identity.public]
  /\ signer' = [signer EXCEPT ![c] = signingKey]
  /\ careless' = (careless \/ identity.public \notin Held)
  /\ powerless' = {b \in powerless : signer[b] # identity.public}
                  \cup (IF Replaced(signingKey, Key) THEN {c} ELSE {})
  /\ UNCHANGED <<vars, faults, attests, agent, answer>>

\* Mutant: the registration is acknowledged when it is in memory.
AnsweredEarly(c) ==
  /\ signer[c] # None /\ call[c] \in {"write", "ok"} /\ answer[c] = "none"
  /\ answer' = [answer EXCEPT ![c] = "ok"]
  /\ UNCHANGED <<vars, faults, attests, agent, req, publicKey, signer, careless, powerless>>

Answered(c) ==
  /\ signer[c] # None /\ call[c] \in {"ok", "err"} /\ answer[c] = "none"
  /\ answer' = [answer EXCEPT ![c] = call[c]]
  /\ UNCHANGED <<vars, faults, attests, agent, req, publicKey, signer, careless, powerless>>

\* The connection or the answer is lost.  The daemon may go on with the request.
GiveUp(c) ==
  /\ Fault /\ signer[c] # None /\ answer[c] = "none" /\ answer' = [answer EXCEPT ![c] = "err"]
  /\ UNCHANGED <<vars, attests, agent, req, publicKey, signer, careless, powerless>>

-------------------------------------------------------------------------------
(* The daemon *)

\* The middleware passes the request on if it is good, and refuses it otherwise.
Decide(c, good) ==
  /\ status = "up" /\ req[c] = "sent"
  /\ req' = [req EXCEPT ![c] = IF good THEN "checked" ELSE "done"]
  /\ answer' = [answer EXCEPT ![c] = IF good THEN @ ELSE "err"]
  /\ UNCHANGED <<vars, faults, attests, agent, publicKey, signer, careless, powerless>>

\* Mutants: a request of an agent that is not registered passes; a signature
\* verifies with any key the agent had registered.
VerifyNew(c) == Decide(c, attests /\ Registered \in {None, signer[c]})
VerifyAnyKey(c) == Decide(c, attests /\ \E b \in Call : call[b] # "free" /\ publicKey[b] = signer[c])

\* verify_request_signature: the agent is registered, and the attestation and the
\* signature verify.
Verify(c) == Decide(c, Registered # None /\ attests /\ Registered = signer[c])

\* register_agent begins to register.
Handle(c) ==
  /\ req[c] = "checked" /\ req' = [req EXCEPT ![c] = "done"] /\ Register(c, Agent)
  /\ UNCHANGED <<faults, attests, agent, publicKey, signer, answer, careless, powerless>>

\* The handler is dropped because its client has gone.
Drop(c) ==
  /\ req[c] \in {"sent", "checked"} /\ answer[c] = "err" /\ req' = [req EXCEPT ![c] = "done"]
  /\ UNCHANGED <<vars, faults, attests, agent, publicKey, signer, answer, careless, powerless>>

\* An agent that is registered, or this one on behalf of another, registers d; for
\* this one with any key, a new one of its own or one that was in use.  The request
\* passes and is handled in one step: its sender stays registered in between.
RegisterOther(c, d, k) ==
  /\ attests /\ req[c] = "idle" /\ req' = [req EXCEPT ![c] = "done"] /\ Register(c, d)
  /\ \/ \E s \in Did \ {Agent} : memory[s] # None
     \/ d # Agent /\ Registered \in Held
  /\ IF d = Agent THEN /\ publicKey' = [publicKey EXCEPT ![c] = k]
                       /\ generated' = generated \cup {k}
                  ELSE UNCHANGED <<publicKey, generated>>
  /\ UNCHANGED <<faults, attests, identity, signingKey, keystore, saved, signer, answer, careless,
                 powerless>>

Proceed(c) ==
  /\ \/ Write(c) /\ UNCHANGED faults
     \/ WriteError(c) /\ Fault
  /\ UNCHANGED <<attests, agent, requests>>

CrashDaemon ==
  /\ Fault /\ Crash /\ req' = [c \in Call |-> IF req[c] = "idle" THEN "idle" ELSE "done"]
  /\ UNCHANGED <<attests, agent, publicKey, signer, answer, careless, powerless>>

OpenDaemon == Open /\ UNCHANGED <<faults, attests, agent, requests>>

RotationNext ==
  \/ \E k \in Key : Rotate(k)
  \/ NewClient \/ SaveKey \/ SaveIdentity \/ RestartAgent
  \/ \E c \in Call : \/ Send(c) \/ Answered(c) \/ GiveUp(c)
                     \/ Verify(c) \/ Handle(c) \/ Drop(c) \/ Proceed(c)
                     \/ \E d \in Did, k \in Key : RegisterOther(c, d, k)
  \/ CrashDaemon \/ OpenDaemon

RotationSpec == RotationInit /\ [][RotationNext]_rotationVars

-------------------------------------------------------------------------------
(* Properties *)

RotationTypeOK ==
  /\ TypeOK /\ attests \in BOOLEAN
  /\ identity \in [public : Key, private : Key]
  /\ signingKey \in Key /\ keystore \in Key /\ saved \in Key /\ generated \subseteq Key
  /\ req \in [Call -> {"idle", "sent", "checked", "done"}]
  /\ publicKey \in [Call -> Key \cup {None}] /\ signer \in [Call -> Key \cup {None}]
  /\ answer \in [Call -> {"none", "ok", "err"}]
  /\ faults \in 0..MaxFaults /\ careless \in BOOLEAN /\ powerless \subseteq Call

\* Lost answers, late requests, failed writes, crashes of the daemon and restarts of
\* the agent at any moment do not lock an agent out that registers only keys it
\* holds and gives a key up only after the daemon has acknowledged another one, in a
\* call that began when none of its own that registers the old one was on its way.
\* Only a registration of it that another agent made does.
NotLockedOut ==
  status = "up" /\ Registered # None /\ ~ careless =>
    Registered \in Held \/ ByOther(memory[Agent])

\* A key that was replaced is of no use any more, after a restart of the daemon
\* neither: what was signed with it after the acknowledgement registers nothing,
\* unless another agent has registered that key for the agent.
ReplacedKeyPowerless ==
  \A c \in powerless :
    call[c] # "free" => \E x \in Call : ByOther(x) /\ did[x] = Agent /\ publicKey[x] = signer[c]

\* A daemon that starts without a registration, or attests with another key than the
\* one it was told, never registers anyone.
NothingFromNothing ==
  (call[Boot] # "ok" \/ ~ attests) => \A c \in Call \ {Boot} : call[c] = "free"
===============================================================================
