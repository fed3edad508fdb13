------------------------------- MODULE RiskScore -------------------------------
(***************************************************************************)
(* RiskScorer: the signals that were reported of each agent, never         *)
(* forgotten, and the score that was calculated of them last.  add_signal  *)
(* and recalculate are steps under the write lock; get_score returns the   *)
(* score as it was left, however long ago.                                 *)
(*                                                                         *)
(* A score is the better the higher it is.  Of a signal are kept the       *)
(* component its type names, its reduction, (value * weight * 20) as u32,  *)
(* whether it is critical, and its time, which the caller chooses.         *)
(***************************************************************************)
EXTENDS Clock, Sequences, FiniteSets

CONSTANTS Scored,      \* agents
          SignalKind,  \* the kinds of signals in use: component, reduction, critical
          Day,         \* 24 hours in ticks
          MaxSignals

Component == {"identity", "behavior", "network", "compliance"}
Base   == [identity |-> 80, behavior |-> 70, network |-> 75, compliance |-> 85]
Weight == [identity |-> 2, behavior |-> 3, network |-> 2, compliance |-> 3]

Score == [part : [Component -> Nat], total : Nat, active : Nat, critical : Nat]

ASSUME RiskAssumption ==
  /\ SignalKind \subseteq [component : Component \cup {"other"}, reduction : Nat, critical : BOOLEAN]
  /\ Day \in Nat /\ MaxSignals \in Nat /\ None \notin Score

VARIABLES
  signals,  \* agent -> the signals in the order they came
  scores    \* agent -> its last score, or None

riskVars == <<signals, scores>>

RiskInit == /\ signals = [a \in Scored |-> << >>] /\ scores = [a \in Scored |-> None]

\* Which of the signals s are younger than a day at time t.
Recent(s, t) == {n \in 1..Len(s) : s[n].time + Day > t}

\* saturating_sub of a u32.
SaturatingSub(m, n) == IF n > m THEN 0 ELSE m - n

\* Mutant: a reduction that exceeds the score is ignored (checked_sub for saturating_sub).
ReduceChecked(c, score, signal) ==
  IF signal.component = c /\ signal.reduction <= score THEN score - signal.reduction ELSE score

\* What a signal leaves of the score of component c.
Reduce(c, score, signal) ==
  IF signal.component = c THEN SaturatingSub(score, signal.reduction) ELSE score

\* What is left of the score of component c after each of the signals s in turn, of
\* which those in I count.
Left(c, s, I) ==
  LET Rest[n \in 0..Len(s)] ==
        IF n = 0 THEN Base[c]
        ELSE IF n \in I THEN Reduce(c, Rest[n - 1], s[n]) ELSE Rest[n - 1]
  IN  Rest

\* calculate_score, of the signals s at time t.
Calculate(s, t) ==
  LET recent == Recent(s, t)
      part == [c \in Component |-> Left(c, s, recent)[Len(s)]]
  IN  [part |-> part,
       total |-> (part["identity"] * Weight["identity"] + part["behavior"] * Weight["behavior"]
                  + part["network"] * Weight["network"] + part["compliance"] * Weight["compliance"]) \div 10,
       active |-> Cardinality(recent),
       critical |-> Cardinality({n \in recent : s[n].critical})]

Signal(kind, t) == [component |-> kind.component, reduction |-> kind.reduction,
                    critical |-> kind.critical, time |-> t]

AddSignal(a, kind, t) ==
  /\ Len(signals[a]) < MaxSignals
  /\ signals' = [signals EXCEPT ![a] = Append(@, Signal(kind, t))]
  /\ scores' = [scores EXCEPT ![a] = Calculate(signals'[a], now)]
  /\ UNCHANGED now

Recalculate(a) == /\ scores' = [scores EXCEPT ![a] = Calculate(signals[a], now)]
                  /\ UNCHANGED <<signals, now>>

RiskTick == Advance /\ UNCHANGED riskVars

RiskNext == \/ \E a \in Scored : \/ \E kind \in SignalKind, t \in Time : AddSignal(a, kind, t)
                                 \/ Recalculate(a)
            \/ RiskTick

RiskSpec == ClockInit /\ RiskInit /\ [][RiskNext]_<<riskVars, now>>

-------------------------------------------------------------------------------
(* Property *)

\* What those of the first signals of s that count, by I, take from component c.
Taken(c, s, I) ==
  LET Sum[n \in 0..Len(s)] ==
        IF n = 0 THEN 0
        ELSE Sum[n - 1] + (IF n \in I /\ s[n].component = c THEN s[n].reduction ELSE 0)
  IN  Sum

\* What they leave of its base, in whatever order they came.
Deserved(c, s, I) ==
  LET sum == Taken(c, s, I)[Len(s)] IN IF sum > Base[c] THEN 0 ELSE Base[c] - sum

\* The score that get_score returns is never better than the signals of the last day
\* deserve, and never worse than all that were reported do: it is calculated with
\* every signal, and until it is calculated anew it only counts too many.
ScoreNeverFlatters ==
  \A a \in Scored : signals[a] # << >> =>
    LET recent == Recent(signals[a], now) IN
    /\ scores[a] # None
    /\ \A c \in Component :
         /\ scores[a].part[c] <= Deserved(c, signals[a], recent)
         /\ Deserved(c, signals[a], DOMAIN signals[a]) <= scores[a].part[c]
    /\ Cardinality(recent) <= scores[a].active
    /\ scores[a].critical <= scores[a].active
================================================================================
