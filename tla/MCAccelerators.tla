---------------------------- MODULE MCAccelerators ----------------------------
(***************************************************************************)
(* For TLC, the blocks of a tile that work beside the main core: the DMA   *)
(* engine, the Spatz core, and the memory port of its vector unit.  They   *)
(* share no state in these models, so that a behaviour is of one of them.  *)
(***************************************************************************)
EXTENDS MCIdma, MCSpatzDispatch, Splitter

VARIABLE part   \* what this behaviour is of

\* The parts that a behaviour is not of rest in one of their initial states.
AcceleratorsInit ==
  /\ part \in {"dma", "spatz", "splitter"}
  /\ IdmaInit /\ (part # "dma" => program = BothWays)
  /\ Init /\ (part # "spatz" => eu_mask = {})
  /\ SplitterInit

AcceleratorsNext ==
  \/ part = "dma" /\ IdmaNext /\ UNCHANGED <<part, vars, splitterVars>>
  \/ part = "spatz" /\ Next /\ UNCHANGED <<part, idmaVars, splitterVars>>
  \/ part = "splitter" /\ SplitterNext /\ UNCHANGED <<part, idmaVars, vars>>

\* IdmaFairness and Fairness, each for its own part.
AcceleratorsFairness ==
  /\ WF_idmaVars(part = "dma" /\ CoreInCall)
  /\ \A d \in Dirs : WF_idmaVars(part = "dma" /\ Pop(d)) /\ WF_idmaVars(part = "dma" /\ Retire(d))
  /\ WF_vars(part = "spatz" /\ MainInCall)
  /\ WF_vars(part = "spatz" /\ Spatz) /\ WF_vars(part = "spatz" /\ Idle)

AcceleratorsSpec ==
  /\ AcceleratorsInit /\ [][AcceleratorsNext]_<<part, idmaVars, vars, splitterVars>>
  /\ AcceleratorsFairness
=============================================================================
