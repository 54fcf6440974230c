------------------------------- MODULE Barrier -------------------------------
(***************************************************************************)
(* What a barrier promises: the members enter it round after round, nobody *)
(* leaves a round before all of his group have entered it. Who is together *)
(* in a group may change from round to round.                              *)
(***************************************************************************)
EXTENDS Naturals

VARIABLES
  group,     \* round (from 1) -> member -> the name of its group
  entered,   \* member -> rounds it has entered
  left       \* member -> rounds it has left

vars == <<group, entered, left>>

Members == DOMAIN entered

Init == entered = [m \in Members |-> 0] /\ left = [m \in Members |-> 0]

Together(r, m, o) == group[r][o] = group[r][m]

Complete(m) == \A o \in Members : Together(entered[m], m, o) => entered[o] >= entered[m]

Enter(m) ==
  /\ entered[m] = left[m]
  /\ entered' = [entered EXCEPT ![m] = @ + 1]
  /\ UNCHANGED <<group, left>>

Leave(m) ==
  /\ left[m] < entered[m] /\ Complete(m)
  /\ left' = [left EXCEPT ![m] = @ + 1]
  /\ UNCHANGED <<group, entered>>

Next == \E m \in Members : Enter(m) \/ Leave(m)

Safe == Init /\ [][Next]_vars
=============================================================================
