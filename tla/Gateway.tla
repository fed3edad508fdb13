------------------------------- MODULE Gateway -------------------------------
(***************************************************************************)
(* mcp_proxy_handler of the gateway: calls of registered agents are        *)
(* limited in rate, checked against the agent's policy and forwarded to    *)
(* the upstream server; what becomes of a tool call is written to the      *)
(* action log.                                                             *)
(*                                                                         *)
(* Handlers run in parallel, share the policy store, the map of last       *)
(* requests and the log, and are dropped at an await when their client     *)
(* goes away.  The gateway makes a PolicyEnforcer for each call and        *)
(* registers no tool with it, so of evaluate only the branch of an unknown *)
(* tool is taken, and every tool's category is Unknown, to which no        *)
(* compliance rule applies.  Of a policy that leaves allow_unknown_tools   *)
(* and the least time between two requests.                                *)
(***************************************************************************)
EXTENDS Naturals, Sequences, FiniteSets

CONSTANTS Call,       \* requests; each is made once
          Did,
          Second,     \* a second in ticks
          Policy,     \* the policies in use
          MaxTime, MaxFaults,
          None

ASSUME GatewayAssumption == /\ Second \in Nat \ {0} /\ MaxTime \in Nat
                            /\ MaxFaults \in Nat
                            /\ Policy \subseteq [unknown : BOOLEAN, interval : 1..Second]

Record == [call : Call, permitted : BOOLEAN]
Time == 0..MaxTime

ASSUME NoneAssumption == None \notin Policy /\ None \notin Did /\ None \notin Time

VARIABLES
  policy,        \* the policy store: DID -> its policy, or None
  lastRequests,  \* last_requests: DID -> the time of its last request, or None
  log,           \* the records of the action log
  upstream,      \* the calls that the upstream server has received
  now,
  call,          \* call -> where it is
  did,           \* call -> the agent that makes it, or None if it is no tool call
  loaded,        \* call -> the policy the rate limiter uses
  faults,
  \* History, to state the properties:
  admitted,      \* call -> when the rate limiter let it pass, or None
  allowed        \* call -> its agent had a policy that allows it since it began

stores == <<policy, lastRequests, log, upstream>>
requests == <<did, loaded, admitted, allowed>>
vars == <<stores, now, call, requests, faults>>

Init == /\ policy = [d \in Did |-> None] /\ lastRequests = [d \in Did |-> None]
        /\ log = << >> /\ upstream = {} /\ now = 0
        /\ call = [c \in Call |-> "free"] /\ did = [c \in Call |-> None]
        /\ loaded = [c \in Call |-> None] /\ faults = 0
        /\ admitted = [c \in Call |-> None] /\ allowed = [c \in Call |-> FALSE]

Fault == faults < MaxFaults /\ faults' = faults + 1
At(c, from, to) == call[c] = from /\ call' = [call EXCEPT ![c] = to]

\* What evaluate finds for a tool that is not registered.
Allows(p) == p # None /\ p.unknown

\* The signature of a tool call has been verified and the ring was read.
Begin(c, d) ==
  /\ At(c, "free", "load") /\ did' = [did EXCEPT ![c] = d]
  /\ allowed' = [allowed EXCEPT ![c] = Allows(policy[d])]
  /\ UNCHANGED <<stores, now, loaded, faults, admitted>>

\* Any other method is forwarded without a check.
BeginOther(c) == At(c, "free", "relay") /\ UNCHANGED <<stores, now, requests, faults>>

\* The policy is loaded a first time, for the rate limiter.
LoadPolicy(c) ==
  /\ At(c, "load", "limit") /\ loaded' = [loaded EXCEPT ![c] = policy[did[c]]]
  /\ UNCHANGED <<stores, now, did, faults, admitted, allowed>>

LoadFails(c) ==
  /\ At(c, "load", "err") /\ Fault
  /\ UNCHANGED <<stores, now, requests>>

\* No policy means the default one, whose rate of 0 counts as one per second.
Interval(p) == IF p = None THEN Second ELSE p.interval
TooSoon(c) == LET last == lastRequests[did[c]]
              IN  last # None /\ now < last + Interval(loaded[c])

\* Mutant: the time of an agent's request is entered only if it has none.
LimitKeepsFirst(c) ==
  \/ /\ At(c, "limit", "limited") /\ TooSoon(c)
     /\ UNCHANGED <<stores, now, requests, faults>>
  \/ /\ At(c, "limit", "evaluate") /\ ~ TooSoon(c)
     /\ lastRequests' = [lastRequests EXCEPT ![did[c]] = IF @ = None THEN now ELSE @]
     /\ admitted' = [admitted EXCEPT ![c] = now]
     /\ UNCHANGED <<policy, log, upstream, now, did, loaded, faults, allowed>>

\* The rate limiter compares and enters the time under its lock.
Limit(c) ==
  \/ /\ At(c, "limit", "limited") /\ TooSoon(c)
     /\ UNCHANGED <<stores, now, requests, faults>>
  \/ /\ At(c, "limit", "evaluate") /\ ~ TooSoon(c)
     /\ lastRequests' = [lastRequests EXCEPT ![did[c]] = now]
     /\ admitted' = [admitted EXCEPT ![c] = now]
     /\ UNCHANGED <<policy, log, upstream, now, did, loaded, faults, allowed>>

\* append, whose error the gateway ignores.
LogRecord(r) == \/ log' = Append(log, r) /\ UNCHANGED faults
                \/ Fault /\ log' \in {log, Append(log, r)}

\* Mutant: a denial is not logged.
EvaluateUnlogged(c) ==
  /\ At(c, "evaluate", IF Allows(policy[did[c]]) THEN "history" ELSE "denied")
  /\ UNCHANGED <<stores, now, requests, faults>>

\* Mutant: a policy that cannot be loaded allows.
EvaluateFailsOpen(c) ==
  /\ \/ /\ At(c, "evaluate", "history") /\ UNCHANGED log
        /\ Fault \/ (Allows(policy[did[c]]) /\ UNCHANGED faults)
     \/ /\ At(c, "evaluate", "denied") /\ ~ Allows(policy[did[c]])
        /\ LogRecord([call |-> c, permitted |-> FALSE])
  /\ UNCHANGED <<policy, lastRequests, upstream, now, requests>>

\* evaluate loads the policy a second time.  What it cannot load denies.
Evaluate(c) ==
  /\ \/ /\ At(c, "evaluate", "history") /\ Allows(policy[did[c]])
        /\ UNCHANGED <<log, faults>>
     \/ /\ At(c, "evaluate", "denied") /\ ~ Allows(policy[did[c]])
        /\ LogRecord([call |-> c, permitted |-> FALSE])
     \/ /\ At(c, "evaluate", "denied") /\ Fault
        /\ log' = Append(log, [call |-> c, permitted |-> FALSE])
  /\ UNCHANGED <<policy, lastRequests, upstream, now, requests>>

\* Mutant: the permission is logged before the call is forwarded.
ComplyLogs(c) ==
  /\ At(c, "history", "relay") /\ LogRecord([call |-> c, permitted |-> TRUE])
  /\ UNCHANGED <<policy, lastRequests, upstream, now, requests>>

\* The history is read and the rules find nothing.
Comply(c) == At(c, "history", "forward") /\ UNCHANGED <<stores, now, requests, faults>>

HistoryFails(c) == At(c, "history", "err") /\ Fault /\ UNCHANGED <<stores, now, requests>>

\* External: the upstream server receives the call.  Whether it executes or refuses it
\* the gateway does not look at (that it may do so after the handler is dropped makes
\* no difference to the rest).
Receive(c) ==
  /\ call[c] \in {"forward", "relay"} /\ c \notin upstream /\ upstream' = upstream \cup {c}
  /\ UNCHANGED <<policy, lastRequests, log, now, call, requests, faults>>

\* The answer of the upstream server, whatever its status and also if it is an error of
\* the tool, is logged as permitted and passed on.
Answer(c) ==
  /\ At(c, "forward", "ok") /\ c \in upstream
  /\ LogRecord([call |-> c, permitted |-> TRUE])
  /\ UNCHANGED <<policy, lastRequests, upstream, now, requests>>

AnswerOther(c) ==
  /\ At(c, "relay", "ok") /\ c \in upstream
  /\ UNCHANGED <<stores, now, requests, faults>>

\* The upstream server cannot be reached or its answer is not JSON: nothing is
\* logged, received or not.
UpstreamFails(c) ==
  /\ At(c, "forward", "err") \/ At(c, "relay", "err")
  /\ Fault /\ UNCHANGED <<stores, now, requests>>

\* The client goes away and the handler is dropped at an await.
Cancel(c) ==
  /\ call[c] \in {"load", "limit", "evaluate", "forward", "relay"}
  /\ call' = [call EXCEPT ![c] = "gone"]
  /\ UNCHANGED <<stores, now, requests, faults>>

\* save_policy and delete_policy of the store.
SavePolicy(d, p) ==
  /\ p # policy[d] /\ policy' = [policy EXCEPT ![d] = p]
  /\ allowed' = [c \in Call |-> \/ allowed[c]
                                 \/ /\ did[c] = d /\ call[c] \in {"load", "limit", "evaluate"}
                                    /\ Allows(p)]
  /\ UNCHANGED <<lastRequests, log, upstream, now, call, did, loaded, faults, admitted>>

Tick == now < MaxTime /\ now' = now + 1 /\ UNCHANGED <<stores, call, requests, faults>>

Next == \/ \E c \in Call :
             \/ \E d \in Did : Begin(c, d)
             \/ BeginOther(c) \/ LoadPolicy(c) \/ LoadFails(c) \/ Limit(c) \/ Evaluate(c) \/ Comply(c)
             \/ HistoryFails(c) \/ Receive(c) \/ Answer(c) \/ AnswerOther(c)
             \/ UpstreamFails(c) \/ Cancel(c)
        \/ \E d \in Did, p \in Policy \cup {None} : SavePolicy(d, p)
        \/ Tick

Spec == Init /\ [][Next]_vars

------------------------------------------------------------------------------
(* Properties *)

TypeOK ==
  /\ policy \in [Did -> Policy \cup {None}] /\ lastRequests \in [Did -> Time \cup {None}]
  /\ log \in Seq(Record) /\ upstream \subseteq Call /\ now \in Time
  /\ call \in [Call -> {"free", "load", "limit", "limited", "evaluate", "history",
                        "forward", "relay", "ok", "denied", "err", "gone"}]
  /\ did \in [Call -> Did \cup {None}] /\ loaded \in [Call -> Policy \cup {None}]
  /\ faults \in 0..MaxFaults
  /\ admitted \in [Call -> Time \cup {None}] /\ allowed \in [Call -> BOOLEAN]
  /\ \A c \in Call : call[c] \in {"free", "relay"} => did[c] = None
  /\ \A c \in Call : call[c] \in {"evaluate", "history", "forward"} => admitted[c] # None

IsToolCall(c) == did[c] # None

\* Of two tool calls of an agent that the rate limiter let pass, the later one came
\* no sooner than the interval of the policy that was loaded for it: calls that load
\* their policy together, calls that are dropped and policies that change
\* meanwhile let no call slip through.
RateLimited ==
  \A c, d \in Call :
    c # d /\ did[c] = did[d] /\ admitted[c] # None /\ admitted[d] # None =>
      \/ admitted[c] + Interval(loaded[d]) <= admitted[d]
      \/ admitted[d] + Interval(loaded[c]) <= admitted[c]

\* A tool call that the upstream server receives was let pass by the rate limiter,
\* and its agent had, at some time while the call was checked, a policy that allows it.
ForwardedAllowed ==
  \A c \in upstream : IsToolCall(c) => admitted[c] # None /\ allowed[c]

\* The log tells the truth about what the gateway decided: a call is logged once at
\* most, as permitted only if a policy allowed it and the upstream server received it
\* (which may then have refused it), and as denied only if the server never does.
LogTruthful ==
  \A i \in 1..Len(log) :
    /\ log[i].permitted <=> log[i].call \in upstream
    /\ log[i].permitted => admitted[log[i].call] # None /\ allowed[log[i].call]
    /\ \A j \in 1..Len(log) : log[i].call = log[j].call => i = j

Logged(c) == \E i \in 1..Len(log) : log[i] = [call |-> c, permitted |-> c \in upstream]

\* The tool calls that were answered or denied, or failed after the upstream server
\* received them, and of which the log says nothing.
Unlogged == {c \in Call : /\ IsToolCall(c) /\ ~ Logged(c)
                          /\ call[c] \in {"ok", "denied"} \/ (call[c] = "err" /\ c \in upstream)}

\* Every such call that is missing in the log is due to a fault of its own, of the log
\* or of the connection to the upstream server.  Calls that are given up by their
\* clients and those the rate limiter refuses are not counted: they are never logged.
UnloggedBounded == IsFiniteSet(Unlogged) /\ Cardinality(Unlogged) <= faults
==============================================================================
