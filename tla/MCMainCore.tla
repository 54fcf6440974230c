------------------------------ MODULE MCMainCore ------------------------------
(***************************************************************************)
(* The main core for TLC: its waits for events, and its data port.  The    *)
(* two share no state, so that a behaviour is of one of them.              *)
(***************************************************************************)
EXTENDS MCAccelWaits, DataDemux

VARIABLE part   \* what this behaviour is of

\* The part that a behaviour is not of rests in an initial state.
MainCoreInit ==
  /\ part \in {"waits", "port"}
  /\ Init /\ (part # "waits" => program = OneByOne)
  /\ DemuxInit

MainCoreNext ==
  \/ part = "waits" /\ Next /\ UNCHANGED <<part, portVars>>
  \/ part = "port" /\ DemuxNext /\ UNCHANGED <<part, vars>>

\* Fairness and DemuxFairness, each for its own part.
MainCoreFairness ==
  /\ WF_vars(part = "waits" /\ \E F \in SUBSET Running : CoreInCall(F))
  /\ \A j \in Jobs : WF_vars(part = "waits" /\ Finishing(j))
  /\ WF_portVars(part = "port" /\ DemuxNext)
  /\ \A p \in Paths : WF_portVars(part = "port" /\ Answer(p))
  /\ WF_portVars(part = "port" /\ DemuxNext /\ StartClock)

MainCoreSpec ==
  MainCoreInit /\ [][MainCoreNext]_<<part, vars, portVars>> /\ MainCoreFairness
=============================================================================
