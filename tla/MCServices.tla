------------------------------- MODULE MCServices -------------------------------
EXTENDS Services

\* 20 and 16 for behaviour, so that four of them take more than its base of 70.
MCSignalKind == {[component |-> "behavior", reduction |-> 20, critical |-> TRUE],
                 [component |-> "behavior", reduction |-> 16, critical |-> FALSE],
                 [component |-> "identity", reduction |-> 5, critical |-> FALSE]}
=================================================================================
