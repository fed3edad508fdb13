--------------------------- MODULE DiscoveryProofs ---------------------------
(***************************************************************************)
(* The invariants of Discovery for any agents and watchers, any capacity   *)
(* of the channel and any faults and restarts.                             *)
(*                                                                         *)
(* A receiver is given what is past its cursor, and all it has is at most  *)
(* there (OrderInv); a watcher that has read the log is behind the channel *)
(* until it subscribes.  How an agent was discovered tells how many alerts *)
(* it can have raised (AlertInv).  What DiscoveryManager calls registered, *)
(* and what a handler is about to report, is in the registry (ListInv).    *)
(*                                                                         *)
(* The last section follows one alert: into the log, or to what keeps it   *)
(* out of it (Kept), and to a watcher, or out of the channel (Reaches).    *)
(***************************************************************************)
EXTENDS Discovery, SequenceTheorems, TLAPS

Alerts == {i \in 1..Len(sent) : sent[i].kind = "Shadow"}

\* s lists members of A in order, and none past n.
InOrder(s, A, n) == Increasing(s) /\ \A i \in 1..Len(s) : s[i] \in A /\ s[i] <= n

OrderInv ==
  /\ InOrder(log, Alerts, cursor["bridge"])
  /\ \A w \in Watcher :
       InOrder(got[w], Alerts, IF watch[w] = "live" THEN cursor[w] ELSE Len(sent))

AlertsOf(d) == {i \in (boot + 1)..Len(sent) : IsAlert(i) /\ sent[i].did = d}

AlertInv ==
  \A d \in Did :
    /\ agents[d] = None => AlertsOf(d) = {}
    /\ agents[d] # None =>
         IF agents[d].source = "Passive" THEN \E i \in AlertsOf(d) : AlertsOf(d) = {i}
         ELSE \E i, j \in AlertsOf(d) : AlertsOf(d) = {i, j}

ListInv == /\ registering \subseteq registry
           /\ \A d \in Did : agents[d] # None /\ agents[d].registered => d \in registry

Inv == TypeOK /\ OrderInv /\ AlertInv /\ ListInv /\ RegisteredForGood

------------------------------------------------------------------------------
(* The channel *)

Grows == /\ sent' \in Seq(Event) /\ Len(sent') <= MaxEvents
         /\ Len(sent) \in Nat /\ Len(sent') \in Nat /\ Len(sent) <= Len(sent')
         /\ \A i \in 1..Len(sent) : sent'[i] = sent[i]

LEMMA Sends ==
  ASSUME TypeOK, NEW k \in {"Presence", "Shadow"}, NEW d \in Did, Send(k, d)
  PROVE  /\ Grows /\ Len(sent') = Len(sent) + 1
         /\ sent'[Len(sent) + 1] = [kind |-> k, did |-> d] /\ sent' # sent
<1>1. [kind |-> k, did |-> d] \in Event /\ sent \in Seq(Event) /\ MaxEvents \in Nat
  BY DiscoveryAssumption DEF Event, TypeOK
<1>2. Len(sent') = Len(sent) + 1 /\ Len(sent) + 1 # Len(sent)
  BY <1>1 DEF Send
<1>3. sent' # sent
  BY <1>2, Zenon
<1> QED BY <1>1, <1>2, <1>3 DEF Send, Grows

\* What a report of presence does: an agent that is new or reports itself for the
\* first time raises an event, an alert if it is not registered.
LEMMA Presence ==
  ASSUME TypeOK, NEW d \in Did, NEW source \in Source, ReportPresence(d, source)
  PROVE  /\ agents' \in [Did -> Agent \cup {None}] /\ agents'[d] \in Agent
         /\ \A e \in Did \ {d} : agents'[e] = agents[e]
         /\ agents[d] = None =>
              /\ agents'[d] = [source |-> source, registered |-> FALSE]
              /\ Send("Shadow", d)
         /\ agents[d] # None =>
              /\ agents'[d].registered = agents[d].registered
              /\ \/ agents'[d].source = agents[d].source /\ UNCHANGED sent
                 \/ /\ agents[d].source = "Passive" /\ agents'[d].source = "Active"
                    /\ Send(IF agents[d].registered THEN "Presence" ELSE "Shadow", d)
<1>1. agents \in [Did -> Agent \cup {None}] /\ None \notin Agent
  BY NoneAssumption DEF TypeOK
<1>2. CASE agents[d] = None
  <2>1. [source |-> source, registered |-> FALSE] \in Agent
    BY DEF Agent
  <2>2. /\ agents' = [agents EXCEPT ![d] = [source |-> source, registered |-> FALSE]]
        /\ Send("Shadow", d)
    BY <1>2 DEF ReportPresence
  <2> QED BY <1>1, <1>2, <2>1, <2>2
<1>3. CASE agents[d] # None
  <2>1. agents[d] \in Agent
    BY <1>1, <1>3
  <2>2. CASE source = "Active" /\ agents[d].source = "Passive"
    <3>1. /\ agents' = [agents EXCEPT ![d] = [agents[d] EXCEPT !.source = "Active"]]
          /\ Send(IF [agents[d] EXCEPT !.source = "Active"].registered
                  THEN "Presence" ELSE "Shadow", d)
      BY <1>3, <2>2 DEF ReportPresence
    <3>2. /\ [agents[d] EXCEPT !.source = "Active"] \in Agent
          /\ [agents[d] EXCEPT !.source = "Active"].registered = agents[d].registered
          /\ [agents[d] EXCEPT !.source = "Active"].source = "Active"
      BY <2>1 DEF Agent, Source
    <3> QED BY <1>1, <1>3, <2>2, <3>1, <3>2
  <2>3. CASE ~ (source = "Active" /\ agents[d].source = "Passive")
    <3>1. agents' = [agents EXCEPT ![d] = agents[d]] /\ UNCHANGED sent
      BY <1>3, <2>3 DEF ReportPresence
    <3> QED BY <1>1, <1>3, <2>1, <3>1
  <2> QED BY <2>2, <2>3
<1> QED BY <1>2, <1>3

\* What a report of a registration does: nothing to an agent not discovered.
LEMMA Registered ==
  ASSUME TypeOK, NEW d \in Did, MarkRegistered(d)
  PROVE  /\ agents' \in [Did -> Agent \cup {None}]
         /\ \A e \in Did \ {d} : agents'[e] = agents[e]
         /\ agents[d] = None => agents'[d] = None /\ UNCHANGED sent
         /\ agents[d] # None => /\ agents'[d] # None /\ Send("Presence", d)
                                /\ agents'[d].source = agents[d].source
                                /\ agents'[d].registered
<1>1. agents \in [Did -> Agent \cup {None}] /\ None \notin Agent
  BY NoneAssumption DEF TypeOK
<1>2. CASE agents[d] = None
  BY <1>1, <1>2 DEF MarkRegistered
<1>3. CASE agents[d] # None
  <2>1. agents[d] \in Agent
    BY <1>1, <1>3
  <2>2. /\ agents' = [agents EXCEPT ![d] = [agents[d] EXCEPT !.registered = TRUE]]
        /\ Send("Presence", d)
    BY <1>3 DEF MarkRegistered
  <2>3. /\ [agents[d] EXCEPT !.registered = TRUE] \in Agent
        /\ [agents[d] EXCEPT !.registered = TRUE].source = agents[d].source
        /\ [agents[d] EXCEPT !.registered = TRUE].registered
    BY <2>1 DEF Agent
  <2> QED BY <1>1, <1>3, <2>2, <2>3
<1> QED BY <1>2, <1>3

LEMMA SentGrows == ASSUME TypeOK, [Next]_vars PROVE Grows
<1>1. UNCHANGED sent => Grows
  BY DEF Grows, TypeOK
<1>2. ASSUME NEW d \in Did, NEW source \in Source, ReportPresence(d, source) PROVE Grows
  BY <1>1, <1>2, Presence, Sends
<1>3. ASSUME NEW d \in Did, MarkRegistered(d) PROVE Grows
  BY <1>1, <1>3, Registered, Sends
<1> QED BY <1>1, <1>2, <1>3
        DEF Next, vars, Unauthorised, ReportPassive, ReportActive, Register, ReportRegistered,
            BridgeStarts, BridgeDies, BridgeReceives, WatchReplays, WatchSubscribes,
            WatchReceives, Restart, Source

------------------------------------------------------------------------------
(* Types *)

LEMMA Widened == ASSUME NEW S, NEW T, S \subseteq T, NEW s \in Seq(S) PROVE s \in Seq(T)
OBVIOUS

LEMMA Received ==
  ASSUME TypeOK, NEW r \in Receiver, HasEvent(r)
  PROVE  Upcoming(r) \in 1..Len(sent) /\ cursor[r] \in Nat /\ cursor[r] < Upcoming(r)
BY DEF TypeOK, HasEvent, Upcoming

LEMMA Rest == ASSUME NEW S, NEW s \in Seq(S), NEW n \in 0..Len(s)
              PROVE  /\ SubSeq(s, n + 1, Len(s)) \in Seq(S)
                     /\ Len(SubSeq(s, n + 1, Len(s))) = Len(s) - n
                     /\ \A i \in 1..(Len(s) - n) : SubSeq(s, n + 1, Len(s))[i] = s[n + i]
<1>1. n + 1 \in 1..(Len(s) + 1) /\ Len(s) \in Nat
  OBVIOUS
<1>2. SubSeq(s, n + 1, Len(s)) = [i \in 1..(Len(s) - n) |-> s[n + i]]
  BY <1>1
<1>3. \A i \in 1..(Len(s) - n) : n + i \in 1..Len(s) /\ s[n + i] \in S
  BY <1>1
<1> QED BY <1>1, <1>2, <1>3

LEMMA TypeCorrect == TypeOK /\ ListInv /\ [Next]_vars => TypeOK'
<1> SUFFICES ASSUME TypeOK, ListInv, [Next]_vars PROVE TypeOK'
  OBVIOUS
<1> USE DiscoveryAssumption DEF mesh, stream, bounds
<1>0. Grows
  BY SentGrows
<1>1. /\ 1..Len(sent) \subseteq 1..Len(sent') /\ 0..Len(sent) \subseteq 0..Len(sent')
      /\ Len(sent) \in 0..Len(sent)
  BY <1>0 DEF Grows
<1>2. /\ log \in Seq(1..Len(sent')) /\ got \in [Watcher -> Seq(1..Len(sent'))]
      /\ cursor \in [Receiver -> 0..Len(sent')] /\ boot \in 0..Len(sent')
  BY <1>1, Widened DEF TypeOK
<1>3. sent' \in Seq(Event) /\ Len(sent') <= MaxEvents
  BY <1>0 DEF Grows
<1>4. ASSUME NEW d \in Did, Unauthorised(d) PROVE TypeOK'
  BY <1>4 DEF TypeOK, Unauthorised
<1>5. ASSUME NEW d \in Did, ReportPassive(d) \/ ReportActive(d) PROVE TypeOK'
  <2>1. agents' \in [Did -> Agent \cup {None}]
    BY <1>5, Presence DEF ReportPassive, ReportActive, Source
  <2>2. /\ checking' \subseteq Did
        /\ UNCHANGED <<registry, registering, bridge, log, stream, cursor, bounds>>
    BY <1>5 DEF ReportPassive, ReportActive, TypeOK
  <2> QED BY <1>2, <1>3, <2>1, <2>2 DEF TypeOK
<1>6. ASSUME NEW d \in Did, Register(d) PROVE TypeOK'
  BY <1>6 DEF TypeOK, Register
<1>7. ASSUME NEW d \in Did, ReportRegistered(d) PROVE TypeOK'
  <2>1. agents' \in [Did -> Agent \cup {None}]
    BY <1>7, Registered DEF ReportRegistered
  <2> QED BY <1>2, <1>3, <1>7, <2>1 DEF TypeOK, ReportRegistered
<1>8. CASE BridgeStarts \/ BridgeDies
  BY <1>1, <1>8 DEF TypeOK, BridgeStarts, BridgeDies, Receiver
<1>9. CASE BridgeReceives
  <2>1. Upcoming("bridge") \in 1..Len(sent) /\ "bridge" \in Receiver
    BY <1>9, Received DEF BridgeReceives, Receiver
  <2>2. log' \in Seq(1..Len(sent))
    <3>1. log' = log \/ log' = Append(log, Upcoming("bridge"))
      BY <1>9 DEF BridgeReceives
    <3>2. log \in Seq(1..Len(sent))
      BY DEF TypeOK
    <3> QED BY <2>1, <3>1, <3>2
  <2>3. cursor' \in [Receiver -> 0..Len(sent)]
    BY <1>9, <2>1 DEF BridgeReceives, TypeOK
  <2>4. faults' \in 0..MaxFaults
    BY <1>9 DEF BridgeReceives, TypeOK
  <2>5. UNCHANGED <<mesh, sent, bridge, stream, restarts, boot>>
    BY <1>9 DEF BridgeReceives
  <2> QED BY <2>2, <2>3, <2>4, <2>5 DEF TypeOK
<1>10. ASSUME NEW w \in Watcher, WatchReplays(w) PROVE TypeOK'
  <2>1. PICK n \in 0..Len(log) : got' = [got EXCEPT ![w] = SubSeq(log, n + 1, Len(log))]
    BY <1>10 DEF WatchReplays
  <2>2. SubSeq(log, n + 1, Len(log)) \in Seq(1..Len(sent))
    BY Rest DEF TypeOK
  <2> QED BY <1>10, <2>1, <2>2 DEF TypeOK, WatchReplays
<1>11. ASSUME NEW w \in Watcher, WatchSubscribes(w) PROVE TypeOK'
  BY <1>1, <1>11 DEF TypeOK, WatchSubscribes, Receiver
<1>12. ASSUME NEW w \in Watcher, WatchReceives(w) PROVE TypeOK'
  <2>1. UNCHANGED <<mesh, sent, bridge, log, watch, bounds>> /\ w \in Receiver
    BY <1>12 DEF WatchReceives, Receiver
  <2>2. CASE HasEvent(w) /\ cursor' = [cursor EXCEPT ![w] = Upcoming(w)]
    <3>1. Upcoming(w) \in 1..Len(sent) /\ 1..Len(sent) \subseteq 0..Len(sent)
      BY <2>1, <2>2, Received
    <3>2. got[w] \in Seq(1..Len(sent)) /\ Append(got[w], Upcoming(w)) \in Seq(1..Len(sent))
      BY <3>1 DEF TypeOK
    <3>3. \/ got' = [got EXCEPT ![w] = Append(got[w], Upcoming(w))]
          \/ UNCHANGED got
      BY <1>12 DEF WatchReceives
    <3>4. got' \in [Watcher -> Seq(1..Len(sent))] /\ cursor' \in [Receiver -> 0..Len(sent)]
      BY <2>1, <2>2, <3>1, <3>2, <3>3 DEF TypeOK
    <3> QED BY <2>1, <3>4 DEF TypeOK
  <2>3. CASE Lagged(w) /\ UNCHANGED got /\ cursor' = [cursor EXCEPT ![w] = Len(sent) - Capacity]
    <3>1. Len(sent) - Capacity \in 0..Len(sent)
      BY <1>0, <2>1, <2>3 DEF Lagged, TypeOK, Grows
    <3> QED BY <2>1, <2>3, <3>1 DEF TypeOK
  <2> QED BY <1>12, <2>2, <2>3 DEF WatchReceives
<1>13. CASE Restart
  BY <1>1, <1>13 DEF TypeOK, Restart
<1>14. CASE UNCHANGED vars
  BY <1>14 DEF TypeOK, vars
<1> QED BY <1>4, <1>5, <1>6, <1>7, <1>8, <1>9, <1>10, <1>11, <1>12, <1>13, <1>14 DEF Next

------------------------------------------------------------------------------
(* The alerts that receivers are given *)

LEMMA CursorGrows ==
  ASSUME TypeOK, [Next]_vars, NEW r \in Receiver
  PROVE  cursor[r] \in Nat /\ cursor'[r] \in Nat /\ cursor[r] <= cursor'[r]
<1>1. cursor \in [Receiver -> 0..Len(sent)] /\ Len(sent) \in Nat /\ Capacity \in Nat
  BY DiscoveryAssumption DEF TypeOK
<1>2. CASE UNCHANGED cursor
  BY <1>1, <1>2
<1>3. ASSUME NEW q \in Receiver, cursor' = [cursor EXCEPT ![q] = Len(sent)]
      PROVE  cursor'[r] \in Nat /\ cursor[r] <= cursor'[r]
  BY <1>1, <1>3
<1>4. ASSUME NEW q \in Receiver, HasEvent(q), cursor' = [cursor EXCEPT ![q] = Upcoming(q)]
      PROVE  cursor'[r] \in Nat /\ cursor[r] <= cursor'[r]
  <2>1. Upcoming(q) \in Nat /\ cursor[q] < Upcoming(q)
    BY <1>4, Received
  <2> QED BY <1>1, <1>4, <2>1
<1>5. ASSUME NEW q \in Receiver, Lagged(q),
             cursor' = [cursor EXCEPT ![q] = Len(sent) - Capacity]
      PROVE  cursor'[r] \in Nat /\ cursor[r] <= cursor'[r]
  <2>1. Len(sent) - Capacity \in Nat /\ cursor[q] < Len(sent) - Capacity
    BY <1>1, <1>5 DEF Lagged
  <2> QED BY <1>1, <1>5, <2>1
<1>6. CASE BridgeStarts \/ BridgeReceives
  BY <1>1, <1>3, <1>4, <1>6 DEF BridgeStarts, BridgeReceives, Receiver
<1>7. ASSUME NEW w \in Watcher, WatchSubscribes(w) \/ WatchReceives(w)
      PROVE  cursor'[r] \in Nat /\ cursor[r] <= cursor'[r]
  BY <1>1, <1>3, <1>4, <1>5, <1>7 DEF WatchSubscribes, WatchReceives, Receiver
<1> QED BY <1>1, <1>2, <1>6, <1>7
        DEF Next, vars, Unauthorised, ReportPassive, ReportActive, Register, ReportRegistered,
            BridgeDies, WatchReplays, Restart

LEMMA AlertsGrow == ASSUME TypeOK, [Next]_vars PROVE Alerts \subseteq Alerts'
BY SentGrows DEF Grows, Alerts

\* A list in order stays so when more alerts are sent and the cursor moves on ...
LEMMA OrderKeeps ==
  ASSUME NEW s \in Seq(Nat), NEW A, NEW B, A \subseteq B,
         NEW n \in Nat, NEW m \in Nat, n <= m, InOrder(s, A, n)
  PROVE  InOrder(s, B, m)
<1>1. \A i \in 1..Len(s) : s[i] \in Nat
  OBVIOUS
<1> QED BY <1>1 DEF InOrder

\* ... when an alert past the cursor is appended ...
LEMMA OrderAppends ==
  ASSUME NEW s \in Seq(Nat), NEW A,
         NEW n \in Nat, NEW m \in Nat, n < m, m \in A, InOrder(s, A, n)
  PROVE  InOrder(Append(s, m), A, m)
<1>1. /\ Len(Append(s, m)) = Len(s) + 1 /\ Append(s, m)[Len(s) + 1] = m
      /\ \A i \in 1..Len(s) : Append(s, m)[i] = s[i] /\ s[i] \in Nat
      /\ Len(s) \in Nat /\ m \in Nat
  OBVIOUS
<1>2. \A i \in 1..Len(s) : s[i] \in A /\ s[i] <= n
  BY DEF InOrder
<1>3. \A i \in 1..(Len(s) + 1) : i \in 1..Len(s) \/ i = Len(s) + 1
  BY <1>1
<1>4. \A i \in 1..Len(Append(s, m)) : Append(s, m)[i] \in A /\ Append(s, m)[i] <= m
  BY <1>1, <1>2, <1>3
<1>5. ASSUME NEW i \in 1..Len(Append(s, m)), NEW j \in 1..Len(Append(s, m)), i < j
      PROVE  Append(s, m)[i] < Append(s, m)[j]
  <2>1. CASE j = Len(s) + 1
    BY <1>1, <1>2, <1>3, <1>5, <2>1
  <2>2. CASE j \in 1..Len(s)
    BY <1>1, <1>3, <1>5, <2>2 DEF InOrder, Increasing
  <2> QED BY <1>1, <1>3, <2>1, <2>2
<1> QED BY <1>4, <1>5 DEF InOrder, Increasing

\* ... and so does what is left of it without its first n.
LEMMA OrderOfTail ==
  ASSUME NEW S, NEW s \in Seq(S), NEW n \in 0..Len(s), NEW A, NEW m, InOrder(s, A, m)
  PROVE  InOrder(SubSeq(s, n + 1, Len(s)), A, m)
<1>1. /\ Len(SubSeq(s, n + 1, Len(s))) = Len(s) - n /\ Len(s) \in Nat
      /\ \A i \in 1..(Len(s) - n) : /\ SubSeq(s, n + 1, Len(s))[i] = s[n + i]
                                    /\ n + i \in 1..Len(s)
  BY Rest
<1> QED BY <1>1 DEF InOrder, Increasing

Last(w) == IF watch[w] = "live" THEN cursor[w] ELSE Len(sent)

LEMMA OrderStep == Inv /\ [Next]_vars => OrderInv'
<1> SUFFICES ASSUME Inv, [Next]_vars PROVE OrderInv'
  OBVIOUS
<1>1. /\ TypeOK /\ TypeOK' /\ OrderInv /\ Grows /\ Alerts \subseteq Alerts'
  BY TypeCorrect, SentGrows, AlertsGrow DEF Inv
<1>2. /\ log \in Seq(Nat) /\ "bridge" \in Receiver /\ 1..Len(sent) \subseteq Nat
      /\ \A w \in Watcher : w \in Receiver /\ got[w] \in Seq(Nat)
  <2>1. 1..Len(sent) \subseteq Nat
    OBVIOUS
  <2>2. log \in Seq(1..Len(sent)) /\ \A w \in Watcher : got[w] \in Seq(1..Len(sent))
    BY <1>1 DEF TypeOK
  <2> QED BY <2>1, <2>2, Widened DEF Receiver
<1>3. \A r \in Receiver : /\ cursor[r] \in Nat /\ cursor'[r] \in Nat /\ cursor[r] <= cursor'[r]
                          /\ cursor[r] <= Len(sent) /\ cursor'[r] <= Len(sent')
  BY <1>1, CursorGrows DEF TypeOK, Grows
<1>4. /\ InOrder(log, Alerts, cursor["bridge"])
      /\ \A w \in Watcher : InOrder(got[w], Alerts, Last(w))
  BY <1>1 DEF OrderInv, Last
<1>5. \A w \in Watcher : Last(w) \in Nat /\ Last(w)' \in Nat /\ Last(w) <= Len(sent)
  BY <1>1, <1>2, <1>3 DEF Last, Grows
<1>6. InOrder(log', Alerts', cursor'["bridge"])
  <2>1. CASE log' = log
    BY <1>1, <1>2, <1>3, <1>4, <2>1, OrderKeeps
  <2>2. CASE log' # log
    <3>1. /\ BridgeReceives /\ log' = Append(log, Upcoming("bridge"))
          /\ sent[Upcoming("bridge")].kind = "Shadow"
      BY <2>2 DEF Next, vars, Unauthorised, ReportPassive, ReportActive, Register,
                  ReportRegistered, BridgeStarts, BridgeDies, BridgeReceives, WatchReplays,
                  WatchSubscribes, WatchReceives, Restart
    <3>2. /\ Upcoming("bridge") \in 1..Len(sent) /\ cursor["bridge"] < Upcoming("bridge")
          /\ cursor'["bridge"] = Upcoming("bridge")
      BY <1>1, <1>2, <3>1, Received DEF BridgeReceives, TypeOK
    <3>3. Upcoming("bridge") \in Alerts
      BY <3>1, <3>2 DEF Alerts
    <3>4. InOrder(log', Alerts, cursor'["bridge"])
      BY <1>2, <1>3, <1>4, <3>1, <3>2, <3>3, OrderAppends
    <3>5. Alerts' = Alerts
      BY <3>1 DEF BridgeReceives, Alerts
    <3> QED BY <3>4, <3>5
  <2> QED BY <2>1, <2>2
<1>7. ASSUME NEW w \in Watcher PROVE InOrder(got'[w], Alerts', Last(w)')
  <2>1. CASE got'[w] = got[w] /\ Last(w) <= Last(w)'
    BY <1>1, <1>2, <1>4, <1>5, <2>1, OrderKeeps
  <2>2. CASE Restart
    <3>1. got'[w] = << >>
      BY <2>2 DEF Restart
    <3> QED BY <3>1 DEF InOrder, Increasing
  <2>3. CASE WatchReplays(w)
    <3>1. PICK n \in 0..Len(log) : got'[w] = SubSeq(log, n + 1, Len(log))
      BY <1>1, <2>3 DEF WatchReplays, TypeOK
    <3>2. UNCHANGED <<sent, cursor>> /\ watch'[w] = "replayed"
      BY <1>1, <2>3 DEF WatchReplays, TypeOK
    <3>3. InOrder(log, Alerts, Len(sent))
      BY <1>1, <1>2, <1>3, <1>4, OrderKeeps DEF Grows
    <3> QED BY <1>2, <3>1, <3>2, <3>3, OrderOfTail DEF Last, Alerts
  <2>4. CASE WatchReceives(w) /\ got'[w] # got[w]
    <3>1. /\ HasEvent(w) /\ cursor'[w] = Upcoming(w) /\ UNCHANGED <<sent, watch>>
          /\ watch[w] = "live" /\ sent[Upcoming(w)].kind = "Shadow"
          /\ got'[w] = Append(got[w], Upcoming(w))
      BY <1>1, <1>2, <2>4 DEF WatchReceives, TypeOK
    <3>2. Upcoming(w) \in 1..Len(sent) /\ cursor[w] < Upcoming(w)
      BY <1>1, <1>2, <3>1, Received
    <3>3. Upcoming(w) \in Alerts /\ Last(w) = cursor[w] /\ Last(w)' = Upcoming(w)
      BY <3>1, <3>2 DEF Alerts, Last
    <3>4. InOrder(got'[w], Alerts, Upcoming(w))
      BY <1>2, <1>3, <1>4, <3>1, <3>2, <3>3, OrderAppends
    <3> QED BY <3>1, <3>3, <3>4 DEF Alerts
  <2>5. ASSUME ~ Restart, ~ WatchReplays(w), ~ (WatchReceives(w) /\ got'[w] # got[w])
        PROVE  got'[w] = got[w] /\ Last(w) <= Last(w)'
    <3>1. got'[w] = got[w]
      BY <1>1, <2>5 DEF Next, vars, stream, Unauthorised, ReportPassive, ReportActive, Register,
                  ReportRegistered, BridgeStarts, BridgeDies, BridgeReceives, WatchReplays,
                  WatchSubscribes, WatchReceives, Restart, TypeOK
    <3>2. \/ watch'[w] = watch[w]
          \/ watch'[w] = "live" /\ cursor'[w] = Len(sent)
      BY <1>1, <1>2, <2>5 DEF Next, vars, stream, Unauthorised, ReportPassive, ReportActive, Register,
                  ReportRegistered, BridgeStarts, BridgeDies, BridgeReceives, WatchReplays,
                  WatchSubscribes, WatchReceives, TypeOK
    <3> QED BY <1>1, <1>2, <1>3, <1>5, <3>1, <3>2 DEF Last, Grows
  <2> QED BY <2>1, <2>2, <2>3, <2>4, <2>5
<1> QED BY <1>6, <1>7 DEF OrderInv, Last

------------------------------------------------------------------------------
(* The alerts that agents raise *)

\* An alert of d is sent, or something else is: the alerts of every other agent
\* stay the same.
LEMMA AlertsOfSent ==
  ASSUME TypeOK, NEW k \in {"Presence", "Shadow"}, NEW d \in Did, Send(k, d),
         UNCHANGED boot, NEW e \in Did
  PROVE  AlertsOf(e)' = IF k = "Shadow" /\ e = d THEN AlertsOf(e) \cup {Len(sent) + 1}
                        ELSE AlertsOf(e)
<1>1. /\ Len(sent') = Len(sent) + 1 /\ sent'[Len(sent) + 1] = [kind |-> k, did |-> d]
      /\ \A i \in 1..Len(sent) : sent'[i] = sent[i]
      /\ Len(sent) \in Nat /\ boot \in 0..Len(sent)
  BY Sends DEF Grows, TypeOK
<1>2. \A i \in (boot + 1)..Len(sent') :
        /\ i \in 1..Len(sent')
        /\ \/ i \in 1..Len(sent) /\ i \in (boot + 1)..Len(sent)
           \/ i = Len(sent) + 1
  BY <1>1
<1>3. (boot + 1)..Len(sent) \subseteq 1..Len(sent) /\ Len(sent) + 1 \in (boot + 1)..Len(sent')
      /\ 1..Len(sent) \subseteq 1..Len(sent')
      /\ (boot + 1)..Len(sent) \subseteq (boot + 1)..Len(sent')
  BY <1>1
<1>4. AlertsOf(e)' = {i \in (boot + 1)..Len(sent') :
                        /\ i \in 1..Len(sent') /\ sent'[i].kind = "Shadow"
                        /\ sent'[i].did = e}
  BY DEF AlertsOf, IsAlert
<1>5. AlertsOf(e) = {i \in (boot + 1)..Len(sent) :
                       /\ i \in 1..Len(sent) /\ sent[i].kind = "Shadow" /\ sent[i].did = e}
  BY DEF AlertsOf, IsAlert
<1>6. sent'[Len(sent) + 1].kind = k /\ sent'[Len(sent) + 1].did = d
  BY <1>1
<1> QED BY <1>1, <1>2, <1>3, <1>4, <1>5, <1>6

LEMMA AlertsOfSame == ASSUME UNCHANGED <<sent, boot>>, NEW d PROVE AlertsOf(d)' = AlertsOf(d)
BY DEF AlertsOf, IsAlert

LEMMA AlertStep == Inv /\ [Next]_vars => AlertInv'
<1> SUFFICES ASSUME Inv, [Next]_vars, NEW e \in Did
             PROVE  /\ agents'[e] = None => AlertsOf(e)' = {}
                    /\ agents'[e] # None =>
                         IF agents'[e].source = "Passive"
                         THEN \E i \in AlertsOf(e)' : AlertsOf(e)' = {i}
                         ELSE \E i, j \in AlertsOf(e)' : AlertsOf(e)' = {i, j}
  BY DEF AlertInv
<1>0. /\ TypeOK
      /\ agents[e] = None => AlertsOf(e) = {}
      /\ agents[e] # None =>
           IF agents[e].source = "Passive" THEN \E i \in AlertsOf(e) : AlertsOf(e) = {i}
           ELSE \E i, j \in AlertsOf(e) : AlertsOf(e) = {i, j}
  BY DEF Inv, AlertInv
<1>1. CASE AlertsOf(e)' = AlertsOf(e) /\ agents'[e] = agents[e]
  BY <1>0, <1>1
<1>2. ASSUME NEW d \in Did, NEW source \in Source, ReportPresence(d, source), UNCHANGED boot
      PROVE  \/ AlertsOf(e)' = AlertsOf(e) /\ agents'[e] = agents[e]
             \/ /\ agents[e] = None /\ agents'[e] # None /\ AlertsOf(e)' = {Len(sent) + 1}
             \/ /\ agents[e] # None /\ agents'[e] # None
                /\ agents'[e].source = agents[e].source /\ AlertsOf(e)' = AlertsOf(e)
             \/ /\ agents[e] # None /\ agents'[e] # None
                /\ agents[e].source = "Passive" /\ agents'[e].source = "Active"
                /\ AlertsOf(e)' \in {AlertsOf(e), AlertsOf(e) \cup {Len(sent) + 1}}
  <2>1. /\ \A f \in Did \ {d} : agents'[f] = agents[f]
        /\ agents'[d] # None
        /\ agents[d] = None => Send("Shadow", d)
        /\ agents[d] # None =>
             \/ agents'[d].source = agents[d].source /\ UNCHANGED sent
             \/ /\ agents[d].source = "Passive" /\ agents'[d].source = "Active"
                /\ Send("Presence", d) \/ Send("Shadow", d)
    BY <1>0, <1>2, Presence, NoneAssumption
  <2>2. CASE UNCHANGED sent
    <3>1. AlertsOf(e)' = AlertsOf(e)
      BY <1>2, <2>2, AlertsOfSame
    <3>2. ~ Send("Shadow", d) /\ ~ Send("Presence", d)
      BY <1>0, <2>2, Sends
    <3> QED BY <2>1, <3>1, <3>2
  <2>3. CASE Send("Shadow", d)
    <3>1. AlertsOf(e)' = IF e = d THEN AlertsOf(e) \cup {Len(sent) + 1} ELSE AlertsOf(e)
      BY <1>0, <1>2, <2>3, AlertsOfSent
    <3>2. sent' # sent
      BY <1>0, <2>3, Sends
    <3> QED BY <1>0, <2>1, <3>1, <3>2
  <2>4. CASE Send("Presence", d) /\ agents[d] # None
    <3>1. AlertsOf(e)' = AlertsOf(e)
      BY <1>0, <1>2, <2>4, AlertsOfSent
    <3>2. sent' # sent
      BY <1>0, <2>4, Sends
    <3> QED BY <2>1, <2>4, <3>1, <3>2
  <2> QED BY <2>1, <2>2, <2>3, <2>4
<1>3. ASSUME NEW d \in Did, MarkRegistered(d), UNCHANGED boot
      PROVE  /\ AlertsOf(e)' = AlertsOf(e)
             /\ \/ agents'[e] = agents[e]
                \/ /\ agents[e] # None /\ agents'[e] # None
                   /\ agents'[e].source = agents[e].source
  <2>1. /\ \A f \in Did \ {d} : agents'[f] = agents[f]
        /\ agents[d] = None => agents'[d] = None /\ UNCHANGED sent
        /\ agents[d] # None => /\ agents'[d] # None /\ Send("Presence", d)
                               /\ agents'[d].source = agents[d].source
    BY <1>0, <1>3, Registered
  <2> QED BY <1>0, <1>3, <2>1, AlertsOfSent, AlertsOfSame
<1>4. ASSUME NEW d \in Did, ReportPassive(d) \/ ReportActive(d)
      PROVE  \E source \in Source : ReportPresence(d, source) /\ UNCHANGED boot
  BY <1>4 DEF ReportPassive, ReportActive, Source, bounds
<1>5. ASSUME NEW d \in Did, ReportRegistered(d) PROVE MarkRegistered(d) /\ UNCHANGED boot
  BY <1>5 DEF ReportRegistered, bounds
<1>6. CASE Restart
  <2>1. agents'[e] = None /\ boot' = Len(sent') /\ Len(sent) \in Nat /\ sent' = sent
    BY <1>0, <1>6 DEF Restart, TypeOK
  <2>2. AlertsOf(e)' = {}
    BY <2>1 DEF AlertsOf
  <2> QED BY <2>1, <2>2
<1>7. CASE UNCHANGED <<agents, sent, boot>>
  BY <1>1, <1>7, AlertsOfSame
<1>8. \/ \E d \in Did : ReportPassive(d) \/ ReportActive(d) \/ ReportRegistered(d)
      \/ Restart \/ UNCHANGED <<agents, sent, boot>>
  BY DEF Next, vars, mesh, bounds, Unauthorised, Register, BridgeStarts, BridgeDies,
         BridgeReceives, WatchReplays, WatchSubscribes, WatchReceives
<1>9. ASSUME NEW d \in Did, ReportPassive(d) \/ ReportActive(d)
      PROVE  /\ agents'[e] = None => AlertsOf(e)' = {}
             /\ agents'[e] # None =>
                  IF agents'[e].source = "Passive"
                  THEN \E i \in AlertsOf(e)' : AlertsOf(e)' = {i}
                  ELSE \E i, j \in AlertsOf(e)' : AlertsOf(e)' = {i, j}
  <2>1. PICK source \in Source : ReportPresence(d, source) /\ UNCHANGED boot
    BY <1>4, <1>9
  <2> QED BY <1>0, <1>2, <2>1
<1>10. ASSUME NEW d \in Did, ReportRegistered(d)
      PROVE  /\ agents'[e] = None => AlertsOf(e)' = {}
             /\ agents'[e] # None =>
                  IF agents'[e].source = "Passive"
                  THEN \E i \in AlertsOf(e)' : AlertsOf(e)' = {i}
                  ELSE \E i, j \in AlertsOf(e)' : AlertsOf(e)' = {i, j}
  BY <1>0, <1>3, <1>5, <1>10
<1> QED BY <1>6, <1>7, <1>8, <1>9, <1>10

------------------------------------------------------------------------------
(* The list of shadows *)

LEMMA ListStep == Inv /\ [Next]_vars => ListInv'
<1> SUFFICES ASSUME Inv, [Next]_vars PROVE ListInv'
  OBVIOUS
<1>0. TypeOK /\ ListInv
  BY DEF Inv
<1>1. ASSUME NEW d \in Did, ReportPassive(d) \/ ReportActive(d) PROVE ListInv'
  <2>1. PICK source \in Source : ReportPresence(d, source)
    BY <1>1 DEF ReportPassive, ReportActive, Source
  <2>2. /\ \A f \in Did \ {d} : agents'[f] = agents[f]
        /\ agents'[d].registered => agents[d] # None /\ agents[d].registered
    <3>1. agents[d] = None => agents'[d] = [source |-> source, registered |-> FALSE]
      BY <1>0, <2>1, Presence
    <3>2. agents[d] # None => agents'[d].registered = agents[d].registered
      BY <1>0, <2>1, Presence
    <3>3. \A f \in Did \ {d} : agents'[f] = agents[f]
      BY <1>0, <2>1, Presence
    <3> QED BY <3>1, <3>2, <3>3
  <2>3. UNCHANGED <<registry, registering>>
    BY <1>1 DEF ReportPassive, ReportActive
  <2> QED BY <1>0, <2>2, <2>3 DEF ListInv
<1>2. ASSUME NEW d \in Did, ReportRegistered(d) PROVE ListInv'
  <2>1. \A f \in Did \ {d} : agents'[f] = agents[f]
    BY <1>0, <1>2, Registered DEF ReportRegistered
  <2> QED BY <1>0, <1>2, <2>1 DEF ListInv, ReportRegistered
<1>3. ASSUME NEW d \in Did, Register(d) PROVE ListInv'
  BY <1>0, <1>3 DEF ListInv, Register
<1>4. CASE Restart
  BY <1>4 DEF ListInv, Restart
<1>5. CASE UNCHANGED <<registry, registering, agents>>
  BY <1>0, <1>5 DEF ListInv
<1> QED BY <1>1, <1>2, <1>3, <1>4, <1>5
        DEF Next, vars, mesh, Unauthorised, BridgeStarts, BridgeDies, BridgeReceives,
            WatchReplays, WatchSubscribes, WatchReceives

\* Nothing is sent, and no agent loses its registration.
LEMMA ForGoodStays ==
  ASSUME TypeOK, RegisteredForGood, UNCHANGED <<sent, boot>>,
         \A e \in Did : agents[e] # None /\ agents[e].registered =>
                          agents'[e] # None /\ agents'[e].registered
  PROVE  RegisteredForGood'
<1>1. \A i \in (boot + 1)..Len(sent) : sent[i].did \in Did
  <2>1. boot \in 0..Len(sent) /\ \A i \in 1..Len(sent) : sent[i] \in Event
    BY DEF TypeOK
  <2>2. \A x \in Event : x.did \in Did
    BY DEF Event
  <2>3. \A i \in (boot + 1)..Len(sent) : i \in 1..Len(sent)
    BY <2>1
  <2> QED BY <2>1, <2>2, <2>3
<1> QED BY <1>1 DEF RegisteredForGood

\* An event of d is sent as the flag says: a presence only if d is registered then, an
\* alert only if it was not before.
LEMMA ForGoodSends ==
  ASSUME TypeOK, RegisteredForGood, NEW k \in {"Presence", "Shadow"}, NEW d \in Did, Send(k, d),
         UNCHANGED boot, \A e \in Did \ {d} : agents'[e] = agents[e],
         agents[d] # None => agents'[d] # None /\ (agents[d].registered => agents'[d].registered),
         k = "Presence" => agents'[d] # None /\ agents'[d].registered,
         k = "Shadow" => agents[d] = None \/ ~ agents[d].registered
  PROVE  RegisteredForGood'
<1>1. /\ Len(sent') = Len(sent) + 1 /\ Len(sent) \in Nat /\ boot \in 0..Len(sent)
      /\ sent'[Len(sent) + 1].kind = k /\ sent'[Len(sent) + 1].did = d
      /\ \A i \in 1..Len(sent) : sent'[i] = sent[i] /\ sent[i].did \in Did
  <2>1. Grows /\ Len(sent') = Len(sent) + 1 /\ sent'[Len(sent) + 1] = [kind |-> k, did |-> d]
    BY Sends
  <2>2. boot \in 0..Len(sent) /\ \A i \in 1..Len(sent) : sent[i] \in Event
    BY DEF TypeOK
  <2>3. \A x \in Event : x.did \in Did
    BY DEF Event
  <2> QED BY <2>1, <2>2, <2>3 DEF Grows
<1> SUFFICES ASSUME NEW i \in (boot + 1)..Len(sent'), sent'[i].kind = "Presence"
             PROVE  /\ agents'[sent'[i].did] # None /\ agents'[sent'[i].did].registered
                    /\ \A j \in i..Len(sent') :
                         sent'[j].did = sent'[i].did => sent'[j].kind = "Presence"
  BY DEF RegisteredForGood
<1>2. CASE i = Len(sent) + 1
  BY <1>1, <1>2
<1>3. CASE i # Len(sent) + 1
  <2>1. i \in 1..Len(sent) /\ i \in (boot + 1)..Len(sent)
    BY <1>1, <1>3
  <2>2. /\ sent'[i] = sent[i] /\ sent[i].did \in Did
        /\ agents[sent[i].did] # None /\ agents[sent[i].did].registered
        /\ \A j \in i..Len(sent) : sent[j].did = sent[i].did => sent[j].kind = "Presence"
    BY <1>1, <2>1 DEF RegisteredForGood
  <2>3. agents'[sent[i].did] # None /\ agents'[sent[i].did].registered
    BY <2>2
  <2>4. ASSUME NEW j \in i..Len(sent'), sent'[j].did = sent[i].did
        PROVE  sent'[j].kind = "Presence"
    <3>1. CASE j = Len(sent) + 1
      BY <1>1, <2>2, <2>4, <3>1
    <3>2. CASE j # Len(sent) + 1
      <4>1. j \in i..Len(sent) /\ j \in 1..Len(sent)
        BY <1>1, <2>1, <3>2
      <4> QED BY <1>1, <2>2, <2>4, <4>1
    <3> QED BY <3>1, <3>2
  <2> QED BY <2>2, <2>3, <2>4
<1> QED BY <1>2, <1>3

LEMMA ForGoodStep == Inv /\ [Next]_vars => RegisteredForGood'
<1> SUFFICES ASSUME Inv, [Next]_vars PROVE RegisteredForGood'
  OBVIOUS
<1>0. TypeOK /\ RegisteredForGood
  BY DEF Inv
<1>1. CASE UNCHANGED <<agents, sent, boot>>
  BY <1>0, <1>1 DEF RegisteredForGood
<1>2. ASSUME NEW d \in Did, NEW source \in Source, ReportPresence(d, source), UNCHANGED boot
      PROVE  RegisteredForGood'
  <2>1. /\ \A e \in Did \ {d} : agents'[e] = agents[e]
        /\ agents'[d] # None
        /\ agents[d] = None => Send("Shadow", d)
        /\ agents[d] # None =>
             /\ agents'[d].registered = agents[d].registered
             /\ \/ UNCHANGED sent
                \/ Send(IF agents[d].registered THEN "Presence" ELSE "Shadow", d)
    BY <1>0, <1>2, Presence, NoneAssumption
  <2>2. CASE UNCHANGED sent /\ agents[d] # None
    BY <1>0, <1>2, <2>1, <2>2, ForGoodStays
  <2>3. CASE Send("Shadow", d) /\ (agents[d] = None \/ ~ agents[d].registered)
    BY <1>0, <1>2, <2>1, <2>3, ForGoodSends
  <2>4. CASE Send("Presence", d) /\ agents[d] # None /\ agents[d].registered
    BY <1>0, <1>2, <2>1, <2>4, ForGoodSends
  <2> QED BY <2>1, <2>2, <2>3, <2>4
<1>3. ASSUME NEW d \in Did, MarkRegistered(d), UNCHANGED boot PROVE RegisteredForGood'
  <2>1. /\ \A e \in Did \ {d} : agents'[e] = agents[e]
        /\ agents[d] = None => agents'[d] = None /\ UNCHANGED sent
        /\ agents[d] # None => agents'[d] # None /\ agents'[d].registered /\ Send("Presence", d)
    BY <1>0, <1>3, Registered
  <2>2. CASE agents[d] = None
    BY <1>0, <1>3, <2>1, <2>2, ForGoodStays
  <2>3. CASE agents[d] # None
    BY <1>0, <1>3, <2>1, <2>3, ForGoodSends
  <2> QED BY <2>2, <2>3
<1>4. CASE Restart
  <2>1. boot' = Len(sent') /\ Len(sent') \in Nat
    BY <1>0, <1>4 DEF Restart, TypeOK
  <2>2. (boot' + 1)..Len(sent') = {}
    BY <2>1
  <2> QED BY <2>2 DEF RegisteredForGood
<1> QED BY <1>1, <1>2, <1>3, <1>4
        DEF Next, vars, mesh, bounds, Source, Unauthorised, ReportPassive, ReportActive,
            Register, ReportRegistered, BridgeStarts, BridgeDies, BridgeReceives,
            WatchReplays, WatchSubscribes, WatchReceives

------------------------------------------------------------------------------
(* The theorems *)

LEMMA Initially == Init => Inv
<1> SUFFICES ASSUME Init PROVE Inv
  OBVIOUS
<1>1. sent = << >> /\ Len(sent) = 0 /\ log = << >> /\ \A w \in Watcher : got[w] = << >>
  BY DEF Init
<1>2. TypeOK
  BY <1>1, DiscoveryAssumption DEF Init, TypeOK
<1>3. OrderInv
  BY <1>1 DEF OrderInv, InOrder, Increasing
<1>4. AlertInv
  <2>1. (boot + 1)..Len(sent) = {}
    BY <1>1 DEF Init
  <2>2. \A d \in Did : agents[d] = None /\ AlertsOf(d) = {}
    BY <2>1 DEF Init, AlertsOf
  <2> QED BY <2>2 DEF AlertInv
<1>5. ListInv
  BY DEF Init, ListInv
<1>6. RegisteredForGood
  <2>1. (boot + 1)..Len(sent) = {}
    BY <1>1 DEF Init
  <2> QED BY <2>1 DEF RegisteredForGood
<1> QED BY <1>2, <1>3, <1>4, <1>5, <1>6 DEF Inv

LEMMA Invariant == Spec => []Inv
<1>1. Inv /\ [Next]_vars => Inv'
  BY TypeCorrect, OrderStep, AlertStep, ListStep, ForGoodStep DEF Inv
<1> QED BY Initially, <1>1, PTL DEF Spec

\* Every variable keeps its type: a cursor, and what a receiver is given, is never
\* past what was sent.
THEOREM DiscoveryTypes == Spec => []TypeOK
BY Invariant, PTL DEF Inv

\* The bridge of run_server and watch_shadows: the action log, and replay and stream
\* of a watcher together, have alerts only, each once and in the order they were sent.
THEOREM Ordered == Spec => []AlertsInOrder
<1>1. Inv => AlertsInOrder
  <2> SUFFICES ASSUME Inv PROVE AlertsInOrder
    OBVIOUS
  <2>1. OrderInv /\ \A i \in Alerts : IsAlert(i)
    BY DEF Inv, Alerts, IsAlert
  <2> QED BY <2>1 DEF OrderInv, InOrder, AlertsInOrder
<1> QED BY <1>1, Invariant, PTL

\* DiscoveryManager::report_presence: an agent raises an alert when it is discovered
\* and at most one more, whatever handlers report of it and in whichever order.
THEOREM OneAlertOrTwo == Spec => []AlertsPerAgent
<1>1. Inv => AlertsPerAgent
  <2> SUFFICES ASSUME Inv, NEW d \in Did
               PROVE  IF agents[d] = None THEN AlertsOf(d) = {}
                      ELSE \E i, j \in AlertsOf(d) : AlertsOf(d) = {i, j}
    BY DEF AlertsPerAgent, AlertsOf
  <2>1. agents[d] = None => AlertsOf(d) = {}
    BY DEF Inv, AlertInv
  <2>2. agents[d] # None =>
          \/ \E i \in AlertsOf(d) : AlertsOf(d) = {i}
          \/ \E i, j \in AlertsOf(d) : AlertsOf(d) = {i, j}
    BY DEF Inv, AlertInv
  <2> QED BY <2>1, <2>2
<1> QED BY <1>1, Invariant, PTL

\* DiscoveryManager::register_agent: no agent is taken off the list of shadows that
\* the registry does not know.
THEOREM ShadowsListed == Spec => []UnregisteredListed
<1>1. Inv => UnregisteredListed
  BY DEF Inv, ListInv, UnregisteredListed
<1> QED BY <1>1, Invariant, PTL

\* DiscoveryManager::report_presence and register_agent: what was announced as registered
\* is listed no more and raises no alert, whichever handlers report it and in which order.
THEOREM RegisteredTheorem == Spec => []RegisteredForGood
BY Invariant, PTL DEF Inv

------------------------------------------------------------------------------
(* What becomes of an alert *)

\* An alert the bridge was awaiting: it still is, or the alert is in the log, or one
\* of the four things has happened that keep it out.
Kept(i) == Awaited(i) \/ Logged(i) \/ faults > 0 \/ boot >= i \/ bridge = "dead"

\* An alert ahead of a watcher's cursor in its live stream ...
Ahead(w, i) == watch[w] = "live" /\ cursor[w] < i /\ IsAlert(i)

\* ... still is, or the watcher has it, or the daemon has been restarted, or the
\* channel has dropped the alert for Capacity later events.
Reaches(w, i) == \/ Ahead(w, i)
                 \/ watch[w] = "live" /\ \E k \in 1..Len(got[w]) : got[w][k] = i
                 \/ boot >= i
                 \/ Len(sent) - i >= Capacity

\* An alert stays one, and what was sent when the daemon started grows.
LEMMA AlertStays ==
  ASSUME TypeOK, [Next]_vars, NEW i \in Nat, IsAlert(i)
  PROVE  /\ IsAlert(i)' /\ i <= Len(sent) /\ boot <= boot' /\ Len(sent) <= Len(sent')
         /\ boot \in Nat /\ boot' \in Nat /\ Len(sent) \in Nat /\ Len(sent') \in Nat
<1>1. Grows /\ i \in 1..Len(sent) /\ boot \in 0..Len(sent)
  BY SentGrows DEF IsAlert, TypeOK
<1>2. boot' = boot \/ boot' = Len(sent)
  BY DEF Next, vars, bounds, Unauthorised, ReportPassive, ReportActive, Register,
         ReportRegistered, BridgeStarts, BridgeDies, BridgeReceives, WatchReplays,
         WatchSubscribes, WatchReceives, Restart
<1> QED BY <1>1, <1>2 DEF Grows, IsAlert

\* What is appended to a list is in it, and so is what was in it.
LEMMA AppendHas == ASSUME NEW S, NEW s \in Seq(S), NEW x \in S
                   PROVE  \E k \in 1..Len(Append(s, x)) : Append(s, x)[k] = x
<1>1. /\ Len(Append(s, x)) = Len(s) + 1 /\ Append(s, x)[Len(s) + 1] = x
      /\ Len(s) + 1 \in 1..(Len(s) + 1)
  OBVIOUS
<1> QED BY <1>1

LEMMA AppendKeeps ==
  ASSUME NEW S, NEW s \in Seq(S), NEW x \in S, NEW y, \E k \in 1..Len(s) : s[k] = y
  PROVE  \E k \in 1..Len(Append(s, x)) : Append(s, x)[k] = y
<1>1. PICK k \in 1..Len(s) : s[k] = y
  OBVIOUS
<1>2. Append(s, x)[k] = s[k] /\ k \in 1..Len(Append(s, x))
  OBVIOUS
<1> QED BY <1>1, <1>2

LEMMA KeptStays ==
  ASSUME TypeOK, [Next]_vars, NEW i \in Nat, IsAlert(i), Kept(i)
  PROVE  Kept(i)'
<1>0. /\ IsAlert(i)' /\ i <= Len(sent) /\ boot <= boot'
      /\ boot \in Nat /\ boot' \in Nat /\ Len(sent) \in Nat
  BY AlertStays
<1>1. /\ log \in Seq(1..Len(sent)) /\ cursor \in [Receiver -> 0..Len(sent)]
      /\ faults \in Nat /\ "bridge" \in Receiver
  BY DiscoveryAssumption DEF TypeOK, Receiver
<1>2. CASE boot >= i
  BY <1>0, <1>2 DEF Kept
<1>3. CASE ~ (boot >= i) /\ UNCHANGED <<bridge, log, faults>> /\ cursor'["bridge"] = cursor["bridge"]
  BY <1>0, <1>3 DEF Kept, Awaited, Logged
<1>4. CASE BridgeStarts
  BY <1>0, <1>1, <1>4 DEF Kept, Awaited, Logged, BridgeStarts, bounds
<1>5. CASE BridgeDies
  BY <1>5 DEF Kept, BridgeDies
<1>6. CASE BridgeReceives
  <2> DEFINE u == Upcoming("bridge")
  <2>1. /\ u \in 1..Len(sent) /\ u = cursor["bridge"] + 1 /\ cursor'["bridge"] = u
        /\ UNCHANGED <<sent, bridge, boot>> /\ bridge = "running" /\ cursor["bridge"] \in Nat
    BY <1>1, <1>6, Received DEF BridgeReceives, Upcoming
  <2>2. (log' = log \/ log' = Append(log, u)) /\ (faults' = faults \/ faults' = faults + 1)
    BY <1>6 DEF BridgeReceives
  <2> HIDE DEF u
  <2>3. Logged(i) => Logged(i)'
    <3>1. Logged(i) => \E k \in 1..Len(Append(log, u)) : Append(log, u)[k] = i
      BY <1>1, <2>1, AppendKeeps DEF Logged
    <3>2. CASE log' = log
      BY <3>2 DEF Logged
    <3>3. CASE log' = Append(log, u)
      BY <3>1, <3>3, Zenon DEF Logged
    <3> QED BY <2>2, <3>2, <3>3
  <2>4. faults > 0 => faults' > 0
    BY <1>1, <2>2
  <2>5. ASSUME Awaited(i), ~ Awaited(i)' PROVE Logged(i)' \/ faults' > 0
    <3>1. i = u
      BY <1>0, <2>1, <2>5 DEF Awaited
    <3>2. log' = Append(log, u) \/ faults' = faults + 1
      BY <1>6, <2>5, <3>1 DEF BridgeReceives, Awaited, IsAlert, u
    <3>3. log' = Append(log, u) => Logged(i)'
      <4>1. \E k \in 1..Len(Append(log, u)) : Append(log, u)[k] = u
        <5>1. log \in Seq(1..Len(sent)) /\ u \in 1..Len(sent)
          BY <1>1, <2>1
        <5> QED BY <5>1, AppendHas, Zenon
      <4> QED BY <3>1, <4>1, Zenon DEF Logged
    <3> QED BY <1>1, <3>2, <3>3
  <2> QED BY <2>1, <2>3, <2>4, <2>5 DEF Kept
<1>7. CASE Restart
  BY <1>0, <1>7 DEF Kept, Restart
<1>8. ASSUME NEW w \in Watcher, WatchSubscribes(w) \/ WatchReceives(w)
      PROVE  UNCHANGED <<bridge, log, faults>> /\ cursor'["bridge"] = cursor["bridge"]
  <2>1. w # "bridge"
    BY DiscoveryAssumption
  <2> QED BY <1>1, <1>8, <2>1 DEF WatchSubscribes, WatchReceives, bounds
<1> QED BY <1>2, <1>3, <1>4, <1>5, <1>6, <1>7, <1>8
        DEF Next, vars, mesh, stream, bounds, Unauthorised, ReportPassive, ReportActive,
            Register, ReportRegistered, WatchReplays

\* The bridge of run_server: the only ways in which an alert it was subscribed for does
\* not get into the action log are a failed append, a restart, and the bridge's end; and
\* whichever of them it is, or that the alert was logged, is not undone.
THEOREM AlertAccounted ==
  ASSUME NEW i \in Nat
  PROVE  Spec => [](Awaited(i) => []Kept(i))
<1>1. TypeOK /\ IsAlert(i) /\ Kept(i) /\ [Next]_vars => (IsAlert(i) /\ Kept(i))'
  BY AlertStays, KeptStays
<1>2. Awaited(i) => IsAlert(i) /\ Kept(i)
  BY DEF Awaited, Kept
<1> QED BY <1>1, <1>2, DiscoveryTypes, PTL DEF Spec

LEMMA ReachesStays ==
  ASSUME TypeOK, [Next]_vars, NEW i \in Nat, NEW w \in Watcher, IsAlert(i), Reaches(w, i)
  PROVE  Reaches(w, i)'
<1>0. /\ IsAlert(i)' /\ i <= Len(sent) /\ boot <= boot' /\ Len(sent) <= Len(sent')
      /\ boot \in Nat /\ boot' \in Nat /\ Len(sent) \in Nat /\ Len(sent') \in Nat
  BY AlertStays
<1>1. /\ got \in [Watcher -> Seq(1..Len(sent))] /\ cursor \in [Receiver -> 0..Len(sent)]
      /\ watch \in [Watcher -> {"new", "replayed", "live"}] /\ Capacity \in Nat
      /\ w \in Receiver /\ w # "bridge"
  BY DiscoveryAssumption DEF TypeOK, Receiver
<1>2. CASE boot >= i \/ Len(sent) - i >= Capacity
  BY <1>0, <1>1, <1>2 DEF Reaches
<1>3. CASE /\ ~ (boot >= i \/ Len(sent) - i >= Capacity)
           /\ watch'[w] = watch[w] /\ got'[w] = got[w] /\ cursor'[w] = cursor[w]
  BY <1>0, <1>3 DEF Reaches, Ahead
<1>4. CASE Restart
  BY <1>0, <1>4 DEF Reaches, Restart
<1>5. ASSUME NEW v \in Watcher, WatchReplays(v) \/ WatchSubscribes(v), watch[w] = "live"
      PROVE  watch'[w] = watch[w] /\ got'[w] = got[w] /\ cursor'[w] = cursor[w]
  <2>1. watch[v] # "live"
    BY <1>5 DEF WatchReplays, WatchSubscribes
  <2>2. v # w
    BY <1>5, <2>1
  <2> QED BY <1>1, <1>5, <2>2 DEF WatchReplays, WatchSubscribes
<1>6. CASE WatchReceives(w)
  <2> DEFINE u == Upcoming(w)
  <2>1. UNCHANGED <<sent, watch, boot>> /\ watch[w] = "live" /\ cursor[w] \in Nat
    BY <1>1, <1>6 DEF WatchReceives, mesh, bounds
  <2>2. CASE HasEvent(w) /\ cursor' = [cursor EXCEPT ![w] = u]
    <3>1. u \in 1..Len(sent) /\ u = cursor[w] + 1 /\ cursor'[w] = u
      BY <1>1, <2>2, Received DEF Upcoming
    <3>2. /\ got'[w] = got[w] \/ got'[w] = Append(got[w], u)
          /\ sent[u].kind = "Shadow" => got'[w] = Append(got[w], u)
      <4>1. got' = [got EXCEPT ![w] = Append(got[w], u)] \/ UNCHANGED got
        BY <1>6 DEF WatchReceives
      <4>2. sent[u].kind = "Shadow" => got' = [got EXCEPT ![w] = Append(got[w], u)]
        <5>1. ~ Lagged(w)
          BY <2>2 DEF HasEvent
        <5> QED BY <1>6, <5>1 DEF WatchReceives
      <4> QED BY <1>1, <4>1, <4>2
    <3> HIDE DEF u
    <3>3. got[w] \in Seq(1..Len(sent))
      BY <1>1
    <3>4. (\E k \in 1..Len(got[w]) : got[w][k] = i) => \E k \in 1..Len(got'[w]) : got'[w][k] = i
      <4>1. (\E k \in 1..Len(got[w]) : got[w][k] = i) =>
              \E k \in 1..Len(Append(got[w], u)) : Append(got[w], u)[k] = i
        BY <3>1, <3>3, AppendKeeps
      <4>2. CASE got'[w] = got[w]
        BY <4>2, Zenon
      <4>3. CASE got'[w] = Append(got[w], u)
        BY <4>1, <4>3, Zenon
      <4> QED BY <3>2, <4>2, <4>3
    <3>5. i = u => \E k \in 1..Len(got'[w]) : got'[w][k] = i
      <4>1. i = u => got'[w] = Append(got[w], u)
        BY <3>2 DEF IsAlert
      <4>2. \E k \in 1..Len(Append(got[w], u)) : Append(got[w], u)[k] = u
        <5>1. \A x \in 1..Len(sent) :
                \E k \in 1..Len(Append(got[w], x)) : Append(got[w], x)[k] = x
          BY <3>3, AppendHas
        <5>2. u \in 1..Len(sent)
          BY <3>1
        <5> QED BY <5>1, <5>2
      <4> QED BY <4>1, <4>2, Zenon
    <3>6. cursor[w] < i => i = u \/ cursor'[w] < i
      BY <2>1, <3>1
    <3> QED BY <1>0, <2>1, <3>4, <3>5, <3>6 DEF Reaches, Ahead
  <2>3. CASE Lagged(w) /\ UNCHANGED got /\ cursor' = [cursor EXCEPT ![w] = Len(sent) - Capacity]
    <3>1. cursor'[w] = Len(sent) - Capacity
      BY <1>1, <2>3
    <3>2. cursor'[w] < i \/ Len(sent') - i >= Capacity
      BY <1>0, <1>1, <2>1, <3>1
    <3> QED BY <1>0, <2>1, <2>3, <3>2 DEF Reaches, Ahead
  <2> QED BY <1>6, <2>2, <2>3 DEF WatchReceives
<1>7. ASSUME NEW v \in Watcher, WatchReceives(v), v # w
      PROVE  watch'[w] = watch[w] /\ got'[w] = got[w] /\ cursor'[w] = cursor[w]
  BY <1>1, <1>7 DEF WatchReceives
<1>8. ASSUME BridgeStarts \/ BridgeReceives
      PROVE  watch'[w] = watch[w] /\ got'[w] = got[w] /\ cursor'[w] = cursor[w]
  BY <1>1, <1>8 DEF BridgeStarts, BridgeReceives, stream
<1>9. watch[w] # "live" => boot >= i \/ Len(sent) - i >= Capacity
  BY DEF Reaches, Ahead
<1> QED BY <1>2, <1>3, <1>4, <1>5, <1>6, <1>7, <1>8, <1>9
        DEF Next, vars, mesh, stream, bounds, Unauthorised, ReportPassive, ReportActive,
            Register, ReportRegistered, BridgeDies

\* watch_shadows: a live stream loses no alert of this run of the daemon but one that
\* Capacity later events have pushed out of the channel, however often it lags.
THEOREM StreamComplete ==
  ASSUME NEW i \in Nat, NEW w \in Watcher
  PROVE  Spec => [](Ahead(w, i) => []Reaches(w, i))
<1>1. TypeOK /\ IsAlert(i) /\ Reaches(w, i) /\ [Next]_vars => (IsAlert(i) /\ Reaches(w, i))'
  BY AlertStays, ReachesStays
<1>2. Ahead(w, i) => IsAlert(i) /\ Reaches(w, i)
  BY DEF Ahead, Reaches
<1> QED BY <1>1, <1>2, DiscoveryTypes, PTL DEF Spec
==============================================================================
