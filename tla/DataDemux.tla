----------------------------- MODULE DataDemux -----------------------------
(***************************************************************************)
(* The control core's data port, split between the tile's crossbar and the *)
(* Event Unit's direct link (hw/tile/core_data_demux_eu_direct.sv).  The   *)
(* core has up to two accesses outstanding, takes their responses in the   *)
(* order of issue, and may lose its clock while the Event Unit lets it     *)
(* wait for an event.                                                      *)
(*                                                                         *)
(* A step is one cycle of sys_clk.  Accesses are numbered from 1 in the    *)
(* order of issue, and a response is the number of the access it answers;  *)
(* 0 stands for no response.                                               *)
(***************************************************************************)
EXTENDS Naturals

CONSTANTS
  MaxIssue,   \* bound on the number of accesses
  MaySleep    \* the core is a CV32E40P, which sleeps in a cv.elw; the
              \* CV32E40X waits for an event in a plain lw, awake

ASSUME IssueAssumption == MaxIssue \in Nat /\ MaySleep \in BOOLEAN

Paths == {"xbar", "eu"}

VARIABLES
  num_outstanding,   \* accesses issued and not answered
  arriving_order,    \* their paths: [0] the newest, [1] the oldest
  cap,               \* the capture register of each path
  core_clock_en,     \* the core's clock, given by the Event Unit
  path,              \* the accesses each path has accepted, not answered
  held,              \* those that cannot be answered in this cycle
  slept,             \* the access for which the clock was last stopped
  issued,            \* history: the access issued last
  got                \* history: the response the core took last

demuxVars == <<num_outstanding, arriving_order, cap>>
tileVars  == <<core_clock_en, path, held, slept>>
portVars  == <<demuxVars, tileVars, issued, got>>

DemuxInit ==
  /\ num_outstanding = 0
  /\ arriving_order = [i \in {0, 1} |-> "xbar"]
  /\ cap = [p \in Paths |-> 0]
  /\ core_clock_en = TRUE
  /\ path = [p \in Paths |-> {}] /\ held = {} /\ slept = 0
  /\ issued = 0 /\ got = 0

-----------------------------------------------------------------------------
(* The combinational part.  rsp[p] is the response on path p this cycle.   *)

head ==
  IF num_outstanding = 2 THEN arriving_order[1]
  ELSE IF num_outstanding = 1 THEN arriving_order[0] ELSE "xbar"

\* A response on the path goes before the captured one.
Eff(p, rsp) == IF rsp[p] # 0 THEN rsp[p] ELSE cap[p]

\* Fault: the response is forwarded although the core's clock is off.
RespValidUngated(rsp) == num_outstanding # 0 /\ Eff(head, rsp) # 0

\* resp_valid_to_core, which is fifo_pop as well.
RespValid(rsp) == num_outstanding # 0 /\ core_clock_en /\ Eff(head, rsp) # 0

\* Fault: a third access may be issued.
CanIssueAlways(rsp) == TRUE

CanIssue(rsp) == num_outstanding < 2 \/ RespValid(rsp)

\* request_granted: the path addressed is ready for the request.
Granted(req, rsp) == core_clock_en /\ req # "none" /\ CanIssue(rsp)

-----------------------------------------------------------------------------
(* The clock edge.                                                         *)

\* Fault: a response is captured only behind another one, not when the
\* core's clock is off.
CaptureHeadOnly(rsp) ==
  cap' = [p \in Paths |->
            IF rsp[p] # 0 /\ num_outstanding # 0 /\ head # p THEN rsp[p]
            ELSE IF head = p /\ RespValid(rsp) THEN 0
            ELSE cap[p]]

Capture(rsp) ==
  cap' = [p \in Paths |->
            IF rsp[p] # 0 /\ num_outstanding # 0 /\ (head # p \/ ~core_clock_en)
              THEN rsp[p]
            ELSE IF head = p /\ RespValid(rsp) THEN 0
            ELSE cap[p]]

\* Fault: with a push and a pop the oldest entry is not replaced.
FifoNoShift(push, pop, destination) ==
  /\ num_outstanding' = IF push = pop THEN num_outstanding
                        ELSE IF push THEN num_outstanding + 1 ELSE num_outstanding - 1
  /\ arriving_order' =
       [i \in {0, 1} |->
          IF i = 0 THEN (IF push THEN destination ELSE arriving_order[0])
          ELSE IF push # pop THEN arriving_order[0] ELSE arriving_order[1]]

Fifo(push, pop, destination) ==
  /\ num_outstanding' = IF push = pop THEN num_outstanding
                        ELSE IF push THEN num_outstanding + 1 ELSE num_outstanding - 1
  /\ arriving_order' =
       [i \in {0, 1} |->
          IF i = 0 THEN (IF push THEN destination ELSE arriving_order[0])
          ELSE IF push # pop \/ (push /\ num_outstanding = 2)
                 THEN arriving_order[0] ELSE arriving_order[1]]

\* The response mux, and the core taking the response if it has a clock.
Respond(rsp) ==
  IF RespValid(rsp) /\ core_clock_en
  THEN got' = Eff(head, rsp)
  ELSE UNCHANGED got

-----------------------------------------------------------------------------
(* The rest of the tile.                                                   *)

\* The cuts of the paths (eu_direct_cut; obi_cut behind the crossbar): an
\* access cannot be answered in the cycle after its grant.
Cut(push) == IF push THEN {issued'} ELSE {}

\* Each path answers its accesses in order, at most one per cycle.
Answers(rsp) ==
  \A p \in Paths :
    rsp[p] # 0 => /\ rsp[p] \in path[p] \ held
                  /\ \A n \in path[p] : rsp[p] <= n

\* The Event Unit may stop the clock once, after it has got a wait access of
\* the core; the core issues nothing behind that access.
StopClock ==
  /\ MaySleep
  /\ core_clock_en = TRUE /\ core_clock_en' = FALSE
  /\ issued' = issued /\ issued \in path'["eu"] /\ slept # issued
  /\ slept' = issued

StartClock == core_clock_en = FALSE /\ core_clock_en' = TRUE /\ UNCHANGED slept

KeepClock == UNCHANGED <<core_clock_en, slept>>

\* The wait access is answered with the clock running: the Event Unit starts
\* the clock when the event comes, and the answer takes the cut.
Hold(push) ==
  held' = Cut(push) \cup IF core_clock_en /\ core_clock_en' THEN {} ELSE {slept'}

Cycle(req, rsp) ==
  LET push == Granted(req, rsp)
      pop  == RespValid(rsp)
  IN  /\ Answers(rsp)
      /\ issued' = IF push THEN issued + 1 ELSE issued
      /\ Fifo(push, pop, req)
      /\ Capture(rsp)
      /\ Respond(rsp)
      /\ path' = [p \in Paths |-> (path[p] \ {rsp[p]})
                                    \cup IF push /\ req = p THEN {issued'} ELSE {}]
      /\ StopClock \/ StartClock \/ KeepClock
      /\ Hold(push)

Requests == Paths \cup {"none"}
Rsps     == [Paths -> 0 .. MaxIssue]

\* A request that its path does not grant this cycle is none to the demux.
DemuxNext ==
  \E req \in Requests, rsp \in Rsps :
    /\ issued < MaxIssue \/ req = "none"
    /\ Cycle(req, rsp)

DemuxSpec == DemuxInit /\ [][DemuxNext]_portVars

Answer(p) == \E req \in Requests, rsp \in Rsps :
               /\ rsp[p] # 0
               /\ issued < MaxIssue \/ req = "none"
               /\ Cycle(req, rsp)

\* The clock of the tile runs, each path answers what it has accepted, and
\* the event the core waits for comes.
DemuxFairness ==
  /\ WF_portVars(DemuxNext)
  /\ \A p \in Paths : WF_portVars(Answer(p))
  /\ WF_portVars(DemuxNext /\ StartClock)

DemuxFairSpec == DemuxSpec /\ DemuxFairness

-----------------------------------------------------------------------------
(* Properties.                                                             *)

DemuxTypeOK ==
  /\ num_outstanding \in 0 .. 2
  /\ arriving_order \in [{0, 1} -> Paths]
  /\ cap \in [Paths -> Nat]
  /\ core_clock_en \in BOOLEAN
  /\ path \in [Paths -> SUBSET Nat] /\ held \subseteq Nat /\ slept \in Nat
  /\ issued \in Nat /\ got \in Nat

\* An access that is not answered yet is on its path or its response is
\* captured, never both and never neither.
NothingDropped ==
  LET captured == {cap[p] : p \in Paths} \ {0}
  IN  /\ path["xbar"] \cup path["eu"] \cup captured = {n \in 1 .. issued : n > got}
      /\ path["xbar"] \cap path["eu"] = {}
      /\ captured \cap (path["xbar"] \cup path["eu"]) = {}

\* The core gets the responses in the order of issue, each of them once,
\* whichever path is faster and whenever its clock stops.
InOrder == [][got' # got => got' = got + 1]_portVars

\* Every access is answered.
AllAnswered == \A n \in 1 .. MaxIssue : issued = n ~> got >= n
=============================================================================
