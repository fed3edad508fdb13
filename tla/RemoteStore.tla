------------------------------ MODULE RemoteStore ------------------------------
(***************************************************************************)
(* HttpPolicyStore and NetworkPolicyStore, clients that keep a policy in a *)
(* daemon, with the handlers that serve them and the MemoryPolicyStore the *)
(* daemon holds.  The policy of one agent is modelled, a saved one by the  *)
(* call that saved it.                                                     *)
(*                                                                         *)
(* A call is one signed request and its answer; there is no retry and no   *)
(* timeout, but a request is lost, or its answer is, and the daemon may    *)
(* serve it after its caller has been told that it failed.  A daemon that  *)
(* is started again has no policies.                                       *)
(*                                                                         *)
(* save_policy over HTTP sends its body without a Content-Type, and the    *)
(* Json extractor of the handler answers 415 to that.                      *)
(***************************************************************************)
CONSTANTS PolicyCall, NoPolicy

ASSUME RemoteAssumption == NoPolicy \notin PolicyCall

VARIABLES
  held,     \* the policy in the daemon, or NoPolicy
  remote,   \* call -> in the daemon: "free", "sent", "verified" or "served"
  op,       \* call -> "save", "load" or "none"
  via,      \* call -> "http" or "grpc"
  outcome,  \* call -> for its caller: "none", "ok" or "err"
  got,      \* load -> the policy it was served with, or NoPolicy
  \* History, to state the property:
  past,     \* call -> the calls that had their outcome when it began
  wiped     \* the saves that were served before the daemon was last restarted

remoteVars == <<held, remote, op, via, outcome, got, past, wiped>>

RemoteInit == /\ held = NoPolicy /\ wiped = {}
              /\ remote = [c \in PolicyCall |-> "free"] /\ op = [c \in PolicyCall |-> "none"]
              /\ via = [c \in PolicyCall |-> "http"] /\ outcome = [c \in PolicyCall |-> "none"]
              /\ got = [c \in PolicyCall |-> NoPolicy] /\ past = [c \in PolicyCall |-> {}]

Over == {c \in PolicyCall : outcome[c] # "none"}

\* save_policy and load_policy of either store sign and send their request.
Request(c, o, v) ==
  /\ remote[c] = "free" /\ remote' = [remote EXCEPT ![c] = "sent"]
  /\ op' = [op EXCEPT ![c] = o] /\ via' = [via EXCEPT ![c] = v]
  /\ past' = [past EXCEPT ![c] = Over]
  /\ UNCHANGED <<held, outcome, got, wiped>>

\* The daemon answers with an error status: the signature does not verify (the key
\* may have been replaced), or a policy arrives over HTTP without a Content-Type.
Refused(c) ==
  /\ remote[c] \in {"sent", "verified"} /\ remote' = [remote EXCEPT ![c] = "served"]
  /\ remote[c] = "sent" \/ (op[c] = "save" /\ via[c] = "http")
  /\ outcome' = [outcome EXCEPT ![c] = "err"]
  /\ UNCHANGED <<held, op, via, got, past, wiped>>

VerifyCall(c) ==
  /\ remote[c] = "sent" /\ remote' = [remote EXCEPT ![c] = "verified"]
  /\ UNCHANGED <<held, op, via, outcome, got, past, wiped>>

Save(c) ==
  /\ remote[c] = "verified" /\ op[c] = "save" /\ via[c] = "grpc"
  /\ remote' = [remote EXCEPT ![c] = "served"] /\ held' = c
  /\ UNCHANGED <<op, via, outcome, got, past, wiped>>

LoadPolicy(c) ==
  /\ remote[c] = "verified" /\ op[c] = "load"
  /\ remote' = [remote EXCEPT ![c] = "served"] /\ got' = [got EXCEPT ![c] = held]
  /\ UNCHANGED <<held, op, via, outcome, past, wiped>>

\* Mutant: a save is acknowledged when its signature is verified.
ReplyEarly(c) ==
  /\ remote[c] = "served" \/ (remote[c] = "verified" /\ op[c] = "save" /\ via[c] = "grpc")
  /\ outcome[c] = "none" /\ outcome' = [outcome EXCEPT ![c] = "ok"]
  /\ UNCHANGED <<held, remote, op, via, got, past, wiped>>

Reply(c) ==
  /\ remote[c] = "served" /\ outcome[c] = "none" /\ outcome' = [outcome EXCEPT ![c] = "ok"]
  /\ UNCHANGED <<held, remote, op, via, got, past, wiped>>

\* The connection breaks: an error for the caller, whatever becomes of the request.
Lose(c) ==
  /\ remote[c] # "free" /\ outcome[c] = "none" /\ outcome' = [outcome EXCEPT ![c] = "err"]
  /\ UNCHANGED <<held, remote, op, via, got, past, wiped>>

RestartDaemon ==
  /\ held' = NoPolicy
  /\ wiped' = {c \in PolicyCall : remote[c] = "served"}
  /\ remote' = [c \in PolicyCall |-> IF remote[c] = "free" THEN "free" ELSE "served"]
  /\ outcome' = [c \in PolicyCall |-> IF remote[c] # "free" /\ outcome[c] = "none" THEN "err"
                                      ELSE outcome[c]]
  /\ UNCHANGED <<op, via, got, past>>

RemoteNext ==
  \/ \E c \in PolicyCall : \/ \E o \in {"save", "load"}, v \in {"http", "grpc"} : Request(c, o, v)
                           \/ Refused(c) \/ VerifyCall(c) \/ Save(c) \/ LoadPolicy(c)
                           \/ Reply(c) \/ Lose(c)
  \/ RestartDaemon

RemoteSpec == RemoteInit /\ [][RemoteNext]_remoteVars

-------------------------------------------------------------------------------
(* Property *)

\* What a load returns is recent in spite of lost answers and late requests: of the
\* saves that were acknowledged before it began none is missed, unless the daemon was
\* restarted after it, and none that was acknowledged is returned if another one was
\* acknowledged, from its beginning to its end, since.
RemoteLoadRecent ==
  \A c \in PolicyCall : op[c] = "load" /\ outcome[c] = "ok" =>
    \A s \in past[c] : op[s] = "save" /\ outcome[s] = "ok" =>
      /\ got[c] = NoPolicy => s \in wiped
      /\ got[c] \in past[s] => outcome[got[c]] = "err"
===============================================================================
