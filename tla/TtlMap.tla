--------------------------------- MODULE TtlMap ---------------------------------
(***************************************************************************)
(* What a backend of expiring entries promises: a map whose entries count  *)
(* the time they have left and are gone when it is over, and readers that  *)
(* get what the map holds at the moment they read.  The map may stop for   *)
(* good; readers then get nothing.                                         *)
(***************************************************************************)
EXTENDS Naturals

CONSTANTS StateKey, Value, Exec, Ttl, None

VARIABLES
  map,     \* key -> [value, left], or None
  stopped,
  read     \* reader -> the value it got, or None

Init == /\ map = [k \in StateKey |-> None] /\ stopped = FALSE
        /\ read = [e \in Exec |-> None]

\* A time to live of zero is over at once.
Put(k, v, ttl) ==
  /\ ~ stopped
  /\ map' = [map EXCEPT ![k] = IF ttl = 0 THEN None ELSE [value |-> v, left |-> ttl]]
  /\ UNCHANGED <<stopped, read>>

Remove(k) == ~ stopped /\ map' = [map EXCEPT ![k] = None] /\ UNCHANGED <<stopped, read>>

Read(e, k) == /\ ~ stopped /\ read[e] = None
              /\ read' = [read EXCEPT ![e] = IF map[k] = None THEN None ELSE map[k].value]
              /\ UNCHANGED <<map, stopped>>

Age(entry) == IF entry = None \/ entry.left = None THEN entry
              ELSE IF entry.left = 1 THEN None
              ELSE [entry EXCEPT !.left = @ - 1]

Tick == map' = [k \in StateKey |-> Age(map[k])] /\ UNCHANGED <<stopped, read>>

Stop == stopped' = TRUE /\ UNCHANGED <<map, read>>

Next == \/ \E k \in StateKey : \/ \E v \in Value, ttl \in Ttl \cup {None} : Put(k, v, ttl)
                               \/ Remove(k)
                               \/ \E e \in Exec : Read(e, k)
        \/ Tick \/ Stop

Spec == Init /\ [][Next]_<<map, stopped, read>>
=================================================================================
