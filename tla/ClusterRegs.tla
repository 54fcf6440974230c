---------------------------- MODULE ClusterRegs ----------------------------
(***************************************************************************)
(* The control registers of a tile's PULP cluster                          *)
(* (hw/tile/obi_slave_ctrl_cluster.sv) and the latch that holds a worker's *)
(* dispatch interrupt until the worker takes it (hw/tile/magia_tile.sv).   *)
(*                                                                         *)
(* One step of a specification built from these operators is one cycle of  *)
(* sys_clk in which at most one register is written: the block is a single *)
(* OBI slave and grants one access per cycle.  Every step therefore ends   *)
(* with Settle (the two quorum comparisons at the end of the always_comb   *)
(* block, then the clock edge) and LatchIrq.                               *)
(***************************************************************************)
EXTENDS Naturals, FiniteSets

CONSTANTS
  Cores,       \* the worker cores of one cluster (8 in the shipped build)
  CounterMod,  \* 2^(N_BIT_CLUSTER_CORES+1), the width of the counters
  ResetEntry,  \* entry_point_q out of reset (0xCC000080)
  Binary       \* the address of the cluster binary

ASSUME CoresAssumption == IsFiniteSet(Cores) /\ Cores # {}
ASSUME WidthAssumption == CounterMod \in Nat /\ Cardinality(Cores) < CounterMod
ASSUME EntryAssumption == ResetEntry # Binary

VARIABLES
  clk_en,       \* clock and fetch enable, broadcast to all workers
  entry_point,  \* boot address of all workers
  nb_wait,      \* nb_cores_to_wait_q
  taskbin,      \* the task to call
  data,         \* the context pointer passed to it
  start,        \* the dispatched core mask; what START reads as
  nb_done,      \* nb_recv_done_reqs_q
  nb_ack,       \* nb_recv_ack_reqs_q
  nb_ready,     \* nb_recv_ready_reqs_q
  done,         \* done_q, the one-cycle event to the Event Unit
  start_irq,    \* start_irq_q, the one-cycle dispatch pulses
  irq_pending   \* cluster_start_irq_pending, the stretched pulses

countVars  == <<nb_done, nb_ack, start, done, start_irq, irq_pending>>
configVars == <<clk_en, entry_point, nb_wait, taskbin, data, nb_ready>>
regVars    == <<countVars, configVars>>

NCores    == Cardinality(Cores)
Succ(n)   == (n + 1) % CounterMod
Counter   == 0 .. CounterMod - 1

RegsInit ==
  /\ clk_en = FALSE
  /\ entry_point = ResetEntry
  /\ nb_wait = NCores
  /\ taskbin = 0
  /\ data = 0
  /\ start = {}
  /\ nb_done = 0 /\ nb_ack = 0 /\ nb_ready = 0
  /\ done = FALSE
  /\ start_irq = {}
  /\ irq_pending = {}

-----------------------------------------------------------------------------
(* The clock edge.                                                         *)

\* Both comparisons use the quorum register before the edge, so a write of
\* NB_CORES_TO_WAIT counts from the next cycle on.
QuorumMet(n) == n >= nb_wait /\ nb_wait # 0

\* Fault: DONE is raised by the last ACK instead of the last DONE.
SettleDoneOnAck(nd, na, st, irq) ==
  /\ done'      = QuorumMet(na)
  /\ nb_done'   = IF QuorumMet(nd) THEN 0 ELSE nd
  /\ start'     = IF QuorumMet(na) THEN {} ELSE st
  /\ nb_ack'    = IF QuorumMet(na) THEN 0 ELSE na
  /\ start_irq' = irq

\* Fault: done_d keeps its value instead of defaulting to 0.
SettleDoneLevel(nd, na, st, irq) ==
  /\ done'      = (done \/ QuorumMet(nd))
  /\ nb_done'   = IF QuorumMet(nd) THEN 0 ELSE nd
  /\ start'     = IF QuorumMet(na) THEN {} ELSE st
  /\ nb_ack'    = IF QuorumMet(na) THEN 0 ELSE na
  /\ start_irq' = irq

\* nd, na, st and irq are what the write of this cycle, if any, made of the
\* two counters, the START mask and the interrupt pulses.
Settle(nd, na, st, irq) ==
  /\ done'      = QuorumMet(nd)
  /\ nb_done'   = IF QuorumMet(nd) THEN 0 ELSE nd
  /\ start'     = IF QuorumMet(na) THEN {} ELSE st
  /\ nb_ack'    = IF QuorumMet(na) THEN 0 ELSE na
  /\ start_irq' = irq

\* Fault: the pulse is not stretched until the worker takes it.
LatchIrqPulseOnly(acked) == irq_pending' = start_irq \ acked

\* Fault: the acknowledge does not clear the latch.
LatchIrqSticky(acked) == irq_pending' = irq_pending \cup start_irq

\* An acknowledge clears the latch and wins over a pulse of the same cycle.
LatchIrq(acked) == irq_pending' = (irq_pending \cup start_irq) \ acked

Edge(nd, na, st, irq) == Settle(nd, na, st, irq) /\ LatchIrq({})

\* A cycle without a write to START or DONE.
QuietEdge == Edge(nb_done, nb_ack, start, {})

\* Something still moves in a cycle in which nothing is written.
Unsettled ==
  \/ done \/ start_irq # {}
  \/ QuorumMet(nb_done) \/ QuorumMet(nb_ack)

-----------------------------------------------------------------------------
(* Register writes, one per offset.                                        *)

WriteClkEn(on) ==
  /\ clk_en' = on
  /\ nb_ready' = 0
  /\ QuietEdge
  /\ UNCHANGED <<entry_point, nb_wait, taskbin, data>>

WriteBinary(addr) ==
  /\ entry_point' = addr
  /\ QuietEdge
  /\ UNCHANGED <<clk_en, nb_wait, taskbin, data, nb_ready>>

WriteNbCoresToWait(n) ==
  /\ nb_wait' = n % CounterMod
  /\ QuietEdge
  /\ UNCHANGED <<clk_en, entry_point, taskbin, data, nb_ready>>

WriteTaskbin(task) ==
  /\ taskbin' = task
  /\ QuietEdge
  /\ UNCHANGED <<clk_en, entry_point, nb_wait, data, nb_ready>>

WriteData(ptr) ==
  /\ data' = ptr
  /\ QuietEdge
  /\ UNCHANGED <<clk_en, entry_point, nb_wait, taskbin, nb_ready>>

\* START with a mask: a dispatch.  Both counters restart and every selected
\* worker gets a pulse.
WriteStartMask(m) ==
  /\ m # {}
  /\ Edge(0, 0, m, m)
  /\ UNCHANGED configVars

\* Fault: any ACK clears the mask.
WriteStartZeroClears ==
  /\ Edge(nb_done, Succ(nb_ack), {}, {})
  /\ UNCHANGED configVars

\* START with zero: one worker's ACK (the writer is not identified).
WriteStartZero ==
  /\ Edge(nb_done, Succ(nb_ack), start, {})
  /\ UNCHANGED configVars

WriteDone ==
  /\ Edge(Succ(nb_done), nb_ack, start, {})
  /\ UNCHANGED configVars

\* Fault: READY saturates one worker early.
WriteReadyShort ==
  /\ nb_ready' = IF nb_ready < NCores - 1 THEN nb_ready + 1 ELSE nb_ready
  /\ QuietEdge
  /\ UNCHANGED <<clk_en, entry_point, nb_wait, taskbin, data>>

\* READY saturates at the number of workers.
WriteReady ==
  /\ nb_ready' = IF nb_ready < NCores THEN nb_ready + 1 ELSE nb_ready
  /\ QuietEdge
  /\ UNCHANGED <<clk_en, entry_point, nb_wait, taskbin, data>>

\* A cycle in which the block is read or not addressed at all.
NoWrite == QuietEdge /\ UNCHANGED configVars

\* A worker's interrupt acknowledge (irq_ack_o) in a cycle without a write.
AckIrq(c) ==
  /\ Settle(nb_done, nb_ack, start, {})
  /\ LatchIrq({c})
  /\ UNCHANGED configVars

\* Fault: READY reads 1 one worker early.
ReadyReads1Early == nb_ready >= NCores - 1

\* What READY reads as.
ReadyReads1 == nb_ready = NCores

RegsTypeOK ==
  /\ clk_en \in BOOLEAN
  /\ entry_point \in {ResetEntry, Binary}
  /\ nb_wait \in Counter
  /\ taskbin \in Nat /\ data \in Nat
  /\ start \subseteq Cores
  /\ nb_done \in Counter /\ nb_ack \in Counter /\ nb_ready \in Counter
  /\ done \in BOOLEAN
  /\ start_irq \subseteq Cores /\ irq_pending \subseteq Cores
=============================================================================
