---------------------------- MODULE RegistryClient ----------------------------
(***************************************************************************)
(* A process that takes the attestations of one agent from a registry on    *)
(* another host: HttpAgentRegistry with its cache, verify_request_signature *)
(* that decides on the agent's requests with it, and HttpKeyStore, which    *)
(* loads the agent's private key together with its attestation.             *)
(*                                                                         *)
(* The registry makes a new attestation for each question, of the key       *)
(* that is registered then.  Questions and answers take their time, answers *)
(* overtake each other, requests fail, and a caller may be dropped while it *)
(* waits.  Signatures and attestations cannot be forged; an attestation is  *)
(* the key it is of and the time of issue.  The two clocks agree.           *)
(*                                                                         *)
(* The client never compares the DID in an attestation with the one it      *)
(* asked for.  One agent is modelled, so it is assumed here, and not shown,  *)
(* that the registry answers for the agent it was asked about.              *)
(***************************************************************************)
EXTENDS Integers

CONSTANTS Call,                  \* tasks, which make one call after the other
          Key,                   \* key pairs of the agent
          Ttl,                   \* how long an attestation is valid
          JitterMin, JitterMax,  \* an entry is refreshed that long before it expires
          MaxTime,
          None

ASSUME ClientAssumption ==
  /\ Ttl \in Nat /\ JitterMin \in Nat /\ JitterMax \in Nat /\ MaxTime \in Nat
  /\ 0 < JitterMin /\ JitterMin < JitterMax /\ JitterMax <= Ttl
  /\ None \notin Key

Time == 0..MaxTime
Attestation == [key : Key, issued : Time]

ASSUME NoneAssumption == None \notin Time /\ None \notin Attestation

VARIABLES
  registered,  \* the key that is registered for the agent, or None
  stored,      \* the private key in the registry's key store, or None
  cache,       \* the client's attestation of the agent, or None
  now,
  call,        \* call -> where it is
  key,         \* call -> the key that signed the request, or was loaded, or None
  att,         \* call -> the attestation it got, or None
  \* History of the registration:
  held,        \* key -> when it was registered last, or None
  since,       \* when the registration changed last
  result,      \* call -> what it returned last, or None
  \* History, to state the properties:
  begun        \* call -> when it began, or None

remote == <<registered, stored, held, since>>
local == <<key, att, begun>>
vars == <<remote, cache, now, call, local, result>>

Init == /\ registered = None /\ stored = None /\ cache = None /\ now = 0
        /\ result = [c \in Call |-> None]
        /\ call = [c \in Call |-> "free"] /\ key = [c \in Call |-> None]
        /\ att = [c \in Call |-> None] /\ held = [k \in Key |-> None] /\ since = 0
        /\ begun = [c \in Call |-> None]

At(c, from, to) == call[c] = from /\ call' = [call EXCEPT ![c] = to]
Begin(c, to) == /\ At(c, "free", to) /\ begun' = [begun EXCEPT ![c] = now]
                /\ result' = [result EXCEPT ![c] = None]
\* The call is over, and its task free for another one.
Leave(c) == /\ call' = [call EXCEPT ![c] = "free"] /\ key' = [key EXCEPT ![c] = None]
            /\ att' = [att EXCEPT ![c] = None] /\ begun' = [begun EXCEPT ![c] = None]
End(c, outcome) == Leave(c) /\ result' = [result EXCEPT ![c] = outcome]

\* When each key was registered last, if r is registered now.
Held(r, t) == [k \in Key |-> IF k = r THEN t ELSE held[k]]

\* register and save_key, sent by any client, take effect at the registry's host.
Register(k) == /\ k # registered /\ registered' = k /\ since' = now /\ held' = Held(k, now)
               /\ UNCHANGED <<stored, cache, now, call, local, result>>
SaveKey(k) == /\ k # stored /\ stored' = k
              /\ UNCHANGED <<registered, held, since, cache, now, call, local, result>>

Expired(a) == a.issued + Ttl < now
\* Mutant: an entry is used until it expires.
FreshWithoutJitter(a, jitter) == now < a.issued + Ttl
\* is_cache_fresh, which draws the jitter anew each time.
Fresh(a, jitter) == now + jitter < a.issued + Ttl
Jitter == JitterMin..JitterMax - 1

\* A request signed with k arrives and the cache is asked.
Request(c, k) ==
  /\ \E j \in Jitter :
       IF cache # None /\ Fresh(cache, j)
       THEN Begin(c, "verify") /\ att' = [att EXCEPT ![c] = cache]
       ELSE Begin(c, "ask") /\ UNCHANGED att
  /\ key' = [key EXCEPT ![c] = k] /\ UNCHANGED <<remote, cache, now>>

\* get_attestation of MemoryAgentRegistry.
Attest == IF registered = None THEN None ELSE [key |-> registered, issued |-> now]

\* The registry answers get_attestation.
Serve(c) == /\ At(c, "ask", "answer") /\ att' = [att EXCEPT ![c] = Attest]
            /\ UNCHANGED <<remote, cache, now, key, begun, result>>

\* The answer arrives.  Only a valid attestation is used and cached.
Receive(c) ==
  /\ call[c] = "answer"
  /\ IF att[c] = None THEN End(c, "unknown") /\ UNCHANGED cache
     ELSE IF Expired(att[c]) THEN End(c, "err") /\ UNCHANGED cache
     ELSE At(c, "answer", "verify") /\ cache' = att[c] /\ UNCHANGED <<local, result>>
  /\ UNCHANGED <<remote, now>>

\* Mutant: verify_request_signature leaves the attestation to the cache.
VerifyKeyOnly(c) ==
  /\ call[c] = "verify" /\ End(c, IF att[c].key = key[c] THEN "accepted" ELSE "denied")
  /\ UNCHANGED <<remote, cache, now>>

\* verify_request_signature verifies the attestation once more and then the signature.
Verify(c) ==
  /\ call[c] = "verify"
  /\ End(c, IF Expired(att[c]) THEN "err"
            ELSE IF att[c].key = key[c] THEN "accepted" ELSE "denied")
  /\ UNCHANGED <<remote, cache, now>>

\* load_key of HttpKeyStore asks for the key...
Load(c) == Begin(c, "load") /\ UNCHANGED <<remote, cache, now, key, att>>

\* ...get_key of the registry's host reads the key...
ServeKey(c) == /\ At(c, "load", "attest") /\ key' = [key EXCEPT ![c] = stored]
               /\ UNCHANGED <<remote, cache, now, att, begun, result>>
\* ...and then the attestation, without which it answers "not found"...
ServeAttested(c) == /\ At(c, "attest", "loaded") /\ att' = [att EXCEPT ![c] = Attest]
                    /\ UNCHANGED <<remote, cache, now, key, begun, result>>

\* Mutant: the key is not compared with the attestation.
ReceiveKeyUnmatched(c) ==
  /\ call[c] = "loaded"
  /\ End(c, IF att[c] = None \/ key[c] = None THEN "unknown"
            ELSE IF Expired(att[c]) THEN "err" ELSE "key")
  /\ UNCHANGED <<remote, cache, now>>

\* ...and a key is returned only if the attestation is valid and of that key.
ReceiveKey(c) ==
  /\ call[c] = "loaded"
  /\ End(c, IF att[c] = None \/ key[c] = None THEN "unknown"
            ELSE IF Expired(att[c]) \/ att[c].key # key[c] THEN "err" ELSE "key")
  /\ UNCHANGED <<remote, cache, now>>

Waits(c) == call[c] \in {"ask", "answer", "load", "attest", "loaded"}

\* The registry cannot be reached or answers with an error: the cache is no help.
NetworkFails(c) == Waits(c) /\ End(c, "err") /\ UNCHANGED <<remote, cache, now>>

\* The caller is dropped while it waits.
Cancel(c) == Waits(c) /\ Leave(c) /\ UNCHANGED <<remote, cache, now, result>>

\* Time passes, also for what is registered.
Tick == /\ now < MaxTime /\ now' = now + 1 /\ held' = Held(registered, now')
        /\ UNCHANGED <<registered, stored, since, cache, call, local, result>>

Next == \/ \E c \in Call :
             \/ \E k \in Key : Request(c, k)
             \/ Serve(c) \/ Receive(c) \/ Verify(c)
             \/ Load(c) \/ ServeKey(c) \/ ServeAttested(c) \/ ReceiveKey(c)
             \/ NetworkFails(c) \/ Cancel(c)
        \/ \E k \in Key : Register(k) \/ SaveKey(k)
        \/ Tick

Spec == Init /\ [][Next]_vars

------------------------------------------------------------------------------
(* Properties *)

TypeOK ==
  /\ registered \in Key \cup {None} /\ stored \in Key \cup {None}
  /\ cache \in Attestation \cup {None} /\ now \in Time
  /\ call \in [Call -> {"free", "ask", "answer", "verify", "load", "attest", "loaded"}]
  /\ key \in [Call -> Key \cup {None}] /\ att \in [Call -> Attestation \cup {None}]
  /\ held \in [Key -> Time \cup {None}] /\ since \in Time
  /\ begun \in [Call -> Time \cup {None}]
  /\ result \in [Call -> {None, "accepted", "denied", "unknown", "key", "err"}]
  /\ \A c \in Call : call[c] = "free" <=> begun[c] = None

\* c ends in this step, with one of these results.
Ends(c, results) == call[c] # "free" /\ result'[c] # result[c] /\ result'[c] \in results

Took(c) == now - begun[c]
\* The key of c was registered at some time in the last t ticks.
RegisteredWithin(c, t) == /\ key[c] # None /\ held[key[c]] # None
                          /\ now <= held[key[c]] + t
\* It has been registered for t ticks or more.
RegisteredFor(c, t) == key[c] # None /\ registered = key[c] /\ since + t <= now

\* How far the cache reaches back when a call begins.
CacheAge == Ttl - JitterMin

\* How old a key the cache may keep alive, for critical operations as for all others: a
\* request is accepted only by a key that was registered for its agent no longer ago
\* than an attestation is valid, and than the cache reaches back from the beginning of
\* the call.  Late answers that replace newer entries, errors and dropped callers keep
\* no older key alive.
AcceptedRecent ==
  [][\A c \in Call : Ends(c, {"accepted"}) =>
       RegisteredWithin(c, Ttl) /\ RegisteredWithin(c, CacheAge + Took(c) - 1)]_vars

\* A request is refused for its key only if that key is not registered, or has been for
\* less time than the cache reaches back: a new key comes to be accepted.
DeniedExplained ==
  [][\A c \in Call : Ends(c, {"denied", "unknown"}) =>
       ~ RegisteredFor(c, CacheAge + Took(c))]_vars

\* load_key returns a private key only if the key was registered while the call
\* lasted, though the registry reads the key and the attestation one after the other.
LoadedCurrent ==
  [][\A c \in Call : Ends(c, {"key"}) => RegisteredWithin(c, Took(c))]_vars

------------------------------------------------------------------------------
(* What ADR-004 says of the registry's clients and the code does not keep *)

\* "If a valid, fresh attestation cannot be retrieved [...] the operation must halt", for
\* registrations, approvals and policies: the attestation by which a request is accepted
\* was made after the request arrived.  verify_request_signature takes a cached one too.
AcceptedByNewAttestation ==
  [][\A c \in Call : Ends(c, {"accepted"}) => att[c].issued >= begun[c]]_vars
==============================================================================
