------------------------------ MODULE ForkJoin ------------------------------
(***************************************************************************)
(* What dispatching promises its caller: a round is forked to a non-empty  *)
(* team, every member finishes the round once, in any order, and the round *)
(* is joined only after the last of them.                                  *)
(***************************************************************************)
EXTENDS Naturals

CONSTANTS Members, MaxRound

VARIABLES
  round,   \* number of rounds forked so far
  busy,    \* a round is forked and not yet joined
  todo     \* the members that have not finished it

vars == <<round, busy, todo>>

Init == round = 0 /\ busy = FALSE /\ todo = {}

Fork(team) ==
  /\ ~busy /\ round < MaxRound /\ team # {}
  /\ round' = round + 1
  /\ busy' = TRUE
  /\ todo' = team

Finish(m) ==
  /\ busy /\ m \in todo
  /\ todo' = todo \ {m}
  /\ UNCHANGED <<round, busy>>

Join ==
  /\ busy /\ todo = {}
  /\ busy' = FALSE
  /\ UNCHANGED <<round, todo>>

Next ==
  \/ \E team \in SUBSET Members : Fork(team)
  \/ \E m \in Members : Finish(m)
  \/ Join

Safe == Init /\ [][Next]_vars

\* A caller need not fork, but a forked round is finished and joined.
Fairness == (\A m \in Members : WF_vars(Finish(m))) /\ WF_vars(Join)

Spec == Safe /\ Fairness
=============================================================================
