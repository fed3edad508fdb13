------------------------------ MODULE Discovery ------------------------------
(***************************************************************************)
(* Shadow agents: DiscoveryManager, the handlers of the daemon that report *)
(* presence and registrations to it, the task that bridges its alerts to   *)
(* the action log, and the watchers of the gRPC stream WatchShadows.       *)
(*                                                                         *)
(* Each method of DiscoveryManager is one step under its lock.  Handlers   *)
(* run on any thread, so another handler's steps come between a look into  *)
(* the registry and the report that follows from it.  Names, addresses and *)
(* times of agents are left out; an alert is its position in sent.         *)
(***************************************************************************)
EXTENDS Naturals, Sequences

CONSTANTS Did,
          Watcher,     \* calls of WatchShadows
          Capacity,    \* events the broadcast channel holds
          MaxEvents,   \* events sent in a behaviour
          MaxFaults,   \* appends to the action log that fail
          MaxRestarts,
          None

ASSUME DiscoveryAssumption ==
  /\ Capacity \in Nat \ {0} /\ MaxEvents \in Nat
  /\ MaxFaults \in Nat /\ MaxRestarts \in Nat
  /\ "bridge" \notin Watcher

Source == {"Active", "Passive"}
Agent == [source : Source, registered : BOOLEAN]
Event == [kind : {"Presence", "Shadow"}, did : Did]

ASSUME NoneAssumption == None \notin Agent

VARIABLES
  registry,     \* the DIDs the AgentRegistry knows
  agents,       \* DID -> what DiscoveryManager knows of it, or None
  checking,     \* DIDs of requests that were found unregistered and not yet reported
  registering,  \* DIDs that are in the registry and whose handler has still to tell
                \* DiscoveryManager
  sent,         \* the events sent on the channel since the first start
  bridge,       \* the bridge: "starting", "running" or "dead"
  log,          \* the alerts in the action log
  watch,        \* watcher -> "new", "replayed" or "live"
  got,          \* watcher -> the alerts it was given
  cursor,       \* receiver (the bridge or a watcher) -> how many of sent it is past
  faults, restarts,
  boot          \* history: how many events had been sent when the daemon started

mesh == <<registry, agents, checking, registering>>
stream == <<watch, got>>
bounds == <<faults, restarts, boot>>
vars == <<mesh, sent, bridge, log, stream, cursor, bounds>>

Receiver == Watcher \cup {"bridge"}

\* The registry may be a file that already knows agents.
Init == /\ registry \in SUBSET Did /\ agents = [d \in Did |-> None]
        /\ checking = {} /\ registering = {} /\ sent = << >>
        /\ bridge = "starting" /\ log = << >>
        /\ watch = [w \in Watcher |-> "new"] /\ got = [w \in Watcher |-> << >>]
        /\ cursor = [r \in Receiver |-> 0]
        /\ faults = 0 /\ restarts = 0 /\ boot = 0

------------------------------------------------------------------------------
(* DiscoveryManager *)

Send(kind, d) == /\ Len(sent) < MaxEvents
                 /\ sent' = Append(sent, [kind |-> kind, did |-> d])

\* Mutant: every presence report sends an event.
ReportPresenceAlways(d, source) ==
  LET old == agents[d]
      isNew == old = None
      wasPassive == ~ isNew /\ source = "Active" /\ old.source = "Passive"
      new == IF isNew THEN [source |-> source, registered |-> FALSE]
             ELSE IF wasPassive THEN [old EXCEPT !.source = "Active"] ELSE old
  IN  /\ agents' = [agents EXCEPT ![d] = new]
      /\ Send(IF new.registered THEN "Presence" ELSE "Shadow", d)

\* Mutant: an agent that reports itself for the first time is entered anew.
ReportPresenceAnew(d, source) ==
  LET old == agents[d]
      isNew == old = None
      wasPassive == ~ isNew /\ source = "Active" /\ old.source = "Passive"
      new == IF isNew \/ wasPassive THEN [source |-> source, registered |-> FALSE] ELSE old
  IN  /\ agents' = [agents EXCEPT ![d] = new]
      /\ IF isNew \/ wasPassive
         THEN Send(IF new.registered THEN "Presence" ELSE "Shadow", d)
         ELSE UNCHANGED sent

\* An event is sent for a new agent and for one that reports itself after it
\* was detected by its traffic.
ReportPresence(d, source) ==
  LET old == agents[d]
      isNew == old = None
      wasPassive == ~ isNew /\ source = "Active" /\ old.source = "Passive"
      new == IF isNew THEN [source |-> source, registered |-> FALSE]
             ELSE IF wasPassive THEN [old EXCEPT !.source = "Active"] ELSE old
  IN  /\ agents' = [agents EXCEPT ![d] = new]
      /\ IF isNew \/ wasPassive
         THEN Send(IF new.registered THEN "Presence" ELSE "Shadow", d)
         ELSE UNCHANGED sent

\* register_agent: an agent that was not discovered yet is not entered.
MarkRegistered(d) ==
  IF agents[d] = None THEN UNCHANGED <<agents, sent>>
  ELSE /\ agents' = [agents EXCEPT ![d].registered = TRUE]
       /\ Send("Presence", d)

------------------------------------------------------------------------------
(* Handlers *)

\* auth_middleware finds no attestation for the DID of a request ...
Unauthorised(d) ==
  /\ d \notin registry /\ checking' = checking \cup {d}
  /\ UNCHANGED <<registry, agents, registering, sent, bridge, log, stream, cursor, bounds>>

\* ... and reports its presence.
ReportPassive(d) ==
  /\ d \in checking /\ checking' = checking \ {d}
  /\ ReportPresence(d, "Passive")
  /\ UNCHANGED <<registry, registering, bridge, log, stream, cursor, bounds>>

\* POST /v1/presence and the gRPC ReportPresence: only a registered agent gets here.
ReportActive(d) ==
  /\ d \in registry
  /\ ReportPresence(d, "Active")
  /\ UNCHANGED <<registry, checking, registering, bridge, log, stream, cursor, bounds>>

\* Mutant: the HTTP handler goes on when the registry returns an error.
RegisterIgnoresError(d) ==
  /\ registry # {}
  /\ registry' \in {registry, registry \cup {d}}
  /\ registering' = registering \cup {d}
  /\ UNCHANGED <<agents, checking, sent, bridge, log, stream, cursor, bounds>>

\* A registered agent registers d, over HTTP or over gRPC.  Only the HTTP
\* handler goes on to tell DiscoveryManager, and only if the registry, whatever
\* it has done, returned Ok.
Register(d) ==
  /\ registry # {}
  /\ registry' = registry \cup {d}
  /\ registering' \in {registering, registering \cup {d}}
  /\ UNCHANGED <<agents, checking, sent, bridge, log, stream, cursor, bounds>>

ReportRegistered(d) ==
  /\ d \in registering /\ registering' = registering \ {d}
  /\ MarkRegistered(d)
  /\ UNCHANGED <<registry, checking, bridge, log, stream, cursor, bounds>>

------------------------------------------------------------------------------
(* The receivers *)

Lagged(r) == Len(sent) - cursor[r] > Capacity
Upcoming(r) == cursor[r] + 1
HasEvent(r) == cursor[r] < Len(sent) /\ ~ Lagged(r)

\* The task runs for the first time and subscribes; what was sent before is lost.
BridgeStarts ==
  /\ bridge = "starting"
  /\ bridge' = "running" /\ cursor' = [cursor EXCEPT !["bridge"] = Len(sent)]
  /\ UNCHANGED <<mesh, sent, log, stream, bounds>>

\* recv returns Lagged, and `while let Ok(event)` ends.
BridgeDies ==
  /\ bridge = "running" /\ Lagged("bridge")
  /\ bridge' = "dead"
  /\ UNCHANGED <<mesh, sent, log, stream, cursor, bounds>>

\* Mutant: the bridge picks the other kind of event.
BridgeReceivesPresence ==
  /\ bridge = "running" /\ HasEvent("bridge")
  /\ cursor' = [cursor EXCEPT !["bridge"] = Upcoming("bridge")]
  /\ log' = IF sent[Upcoming("bridge")].kind = "Presence"
            THEN Append(log, Upcoming("bridge")) ELSE log
  /\ UNCHANGED <<mesh, sent, bridge, stream, bounds>>

\* An alert is appended to the action log; an error of append, after which the log
\* may or may not have the alert, is ignored.
BridgeReceives ==
  /\ bridge = "running" /\ HasEvent("bridge")
  /\ cursor' = [cursor EXCEPT !["bridge"] = Upcoming("bridge")]
  /\ \/ /\ sent[Upcoming("bridge")].kind = "Shadow"
        /\ log' = Append(log, Upcoming("bridge")) /\ UNCHANGED faults
     \/ /\ sent[Upcoming("bridge")].kind = "Shadow" /\ faults < MaxFaults
        /\ faults' = faults + 1 /\ log' \in {log, Append(log, Upcoming("bridge"))}
     \/ sent[Upcoming("bridge")].kind # "Shadow" /\ UNCHANGED <<log, faults>>
  /\ UNCHANGED <<mesh, sent, bridge, stream, restarts, boot>>

\* watch_shadows reads the alerts since a timestamp from the log (none without
\* one, or when the log cannot be read) ...
WatchReplays(w) ==
  /\ watch[w] = "new" /\ watch' = [watch EXCEPT ![w] = "replayed"]
  /\ \E n \in 0..Len(log) : got' = [got EXCEPT ![w] = SubSeq(log, n + 1, Len(log))]
  /\ UNCHANGED <<mesh, sent, bridge, log, cursor, bounds>>

\* Mutant: the stream starts with the oldest events of the channel.
WatchSubscribesEarly(w) ==
  /\ watch[w] = "replayed" /\ watch' = [watch EXCEPT ![w] = "live"]
  /\ cursor' = [cursor EXCEPT ![w] = boot]
  /\ UNCHANGED <<mesh, sent, bridge, log, got, bounds>>

\* ... and then subscribes.
WatchSubscribes(w) ==
  /\ watch[w] = "replayed" /\ watch' = [watch EXCEPT ![w] = "live"]
  /\ cursor' = [cursor EXCEPT ![w] = Len(sent)]
  /\ UNCHANGED <<mesh, sent, bridge, log, got, bounds>>

\* The stream drops events other than alerts, and the error of a lagging receiver.
WatchReceives(w) ==
  /\ watch[w] = "live"
  /\ \/ /\ HasEvent(w)
        /\ cursor' = [cursor EXCEPT ![w] = Upcoming(w)]
        /\ got' = IF sent[Upcoming(w)].kind = "Shadow"
                  THEN [got EXCEPT ![w] = Append(@, Upcoming(w))] ELSE got
     \/ /\ Lagged(w) /\ UNCHANGED got
        /\ cursor' = [cursor EXCEPT ![w] = Len(sent) - Capacity]
  /\ UNCHANGED <<mesh, sent, bridge, log, watch, bounds>>

\* The daemon ends and starts again, with the registry it has on file or an empty
\* one; streams are closed and watchers may call again.
Restart ==
  /\ restarts < MaxRestarts /\ restarts' = restarts + 1 /\ boot' = Len(sent)
  /\ agents' = [d \in Did |-> None] /\ checking' = {} /\ registering' = {}
  /\ bridge' = "starting"
  /\ watch' = [w \in Watcher |-> "new"] /\ got' = [w \in Watcher |-> << >>]
  /\ registry' \in {registry, {}}
  /\ UNCHANGED <<sent, log, cursor, faults>>

Next == \/ \E d \in Did : \/ Unauthorised(d) \/ ReportPassive(d) \/ ReportActive(d)
                          \/ Register(d) \/ ReportRegistered(d)
        \/ BridgeStarts \/ BridgeDies \/ BridgeReceives
        \/ \E w \in Watcher : WatchReplays(w) \/ WatchSubscribes(w) \/ WatchReceives(w)
        \/ Restart

Spec == Init /\ [][Next]_vars

\* The runtime runs the task of the bridge.
FairSpec == Spec /\ WF_vars(BridgeStarts \/ BridgeDies \/ BridgeReceives)

------------------------------------------------------------------------------
(* Properties *)

TypeOK == /\ registry \subseteq Did /\ agents \in [Did -> Agent \cup {None}]
          /\ checking \subseteq Did /\ registering \subseteq Did
          /\ sent \in Seq(Event) /\ Len(sent) <= MaxEvents
          /\ bridge \in {"starting", "running", "dead"}
          /\ log \in Seq(1..Len(sent))
          /\ watch \in [Watcher -> {"new", "replayed", "live"}]
          /\ got \in [Watcher -> Seq(1..Len(sent))]
          /\ cursor \in [Receiver -> 0..Len(sent)] /\ boot \in 0..Len(sent)
          /\ faults \in 0..MaxFaults /\ restarts \in 0..MaxRestarts

Increasing(s) == \A i, j \in 1..Len(s) : i < j => s[i] < s[j]
IsAlert(i) == i \in 1..Len(sent) /\ sent[i].kind = "Shadow"
Logged(i) == \E k \in 1..Len(log) : log[k] = i

\* A watcher is given no alert twice, by the replay and the live stream together,
\* and alerts arrive in the order they were sent; so it is with the action log,
\* across restarts of the daemon.
AlertsInOrder == /\ Increasing(log) /\ \A i \in 1..Len(log) : IsAlert(log[i])
                 /\ \A w \in Watcher : /\ Increasing(got[w])
                                       /\ \A i \in 1..Len(got[w]) : IsAlert(got[w][i])

\* Since the daemon started an agent that was discovered has raised an alert, and
\* at most one more when it first reported itself; every other agent none.
AlertsPerAgent ==
  \A d \in Did :
    LET alerts == {i \in (boot + 1)..Len(sent) : IsAlert(i) /\ sent[i].did = d}
    IN  IF agents[d] = None THEN alerts = {}
        ELSE \E i, j \in alerts : alerts = {i, j}

\* An agent that was discovered and is not registered is in the list of shadows.
UnregisteredListed ==
  \A d \in Did : agents[d] # None /\ d \notin registry => ~ agents[d].registered

\* A registration that DiscoveryManager has announced holds until the daemon ends: from
\* then on the agent is not listed, and no report of its presence, not even its first
\* own one after it was discovered by its traffic, raises another alert.
RegisteredForGood ==
  \A i \in (boot + 1)..Len(sent) : sent[i].kind = "Presence" =>
    /\ agents[sent[i].did] # None /\ agents[sent[i].did].registered
    /\ \A j \in i..Len(sent) : sent[j].did = sent[i].did => sent[j].kind = "Presence"

\* An alert that is sent while the bridge is subscribed gets into the action log,
\* unless an append failed, the daemon was restarted or the bridge has ended.
Awaited(i) == bridge = "running" /\ cursor["bridge"] < i /\ IsAlert(i)
AlertLogged ==
  \A i \in 1..MaxEvents :
    Awaited(i) ~> (Logged(i) \/ faults > 0 \/ boot >= i \/ bridge = "dead")

------------------------------------------------------------------------------
(* What the documents say of discovery and the code does not keep *)

\* README, "shadow/unregistered AI agents": an agent that is listed as a shadow is
\* not in the registry, or its registration is still being handled.
ShadowsAreUnregistered ==
  \A d \in Did : agents[d] # None /\ ~ agents[d].registered =>
                   d \notin registry \/ d \in registering

\* ADR-005, "Critical alerts (Shadow detection) must not be lost": every alert that
\* is sent while the bridge is subscribed gets into the action log, if no append fails.
NoAlertLost == \A i \in 1..MaxEvents : Awaited(i) ~> Logged(i)

\* ADR-005, "replaying events from the persistent ActionLog starting at that
\* timestamp before switching to real-time pushes": a watcher misses no alert
\* between two that it is given.
NoGap ==
  \A w \in Watcher : \A i, j \in 1..Len(got[w]) : \A k \in got[w][i]..got[w][j] :
    IsAlert(k) => \E l \in 1..Len(got[w]) : got[w][l] = k
==============================================================================
