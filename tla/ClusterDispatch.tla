-------------------------- MODULE ClusterDispatch --------------------------
(***************************************************************************)
(* A tile's main core and the workers of its PULP cluster at work on the   *)
(* cluster registers: the calls of sw/utils/cluster_utils.h and            *)
(* sw/utils/magia_pulp_utils.h on the one side, the dispatcher of          *)
(* sw/kernel_pulp/pulp_crt0.S on the other, and the Event Unit the main    *)
(* core waits on.                                                          *)
(*                                                                         *)
(* The main core follows the flow of the README (boot, then any number of  *)
(* arm, dispatch, wait; then stop), with everything that flow leaves open: *)
(* the workers selected, a context pointer or none, the wait mode, other   *)
(* accelerators used between two dispatches, a second boot.  Dispatch      *)
(* number k runs task k, so that two dispatches never look alike.          *)
(***************************************************************************)
EXTENDS ClusterRegs, EventUnit

CONSTANTS
  MaxDispatch,    \* bound on the number of dispatches
  MaxBoots,       \* bound on the number of calls of cluster_boot
  PollTimesOut    \* whether a task may outlast the 1000000 cycles of a poll

ASSUME DispatchAssumption == MaxDispatch \in Nat /\ MaxBoots \in Nat
ASSUME TimeoutAssumption  == PollTimesOut \in BOOLEAN
ASSUME EventsAssumption   == Events = {"cluster_done", "other"}

VARIABLES
  mpc,     \* the call the main core is in
  boots,   \* how many times it called cluster_boot
  epoch,   \* number of the dispatch it made last
  mask,    \* the core mask it passed to that dispatch
  wpc,     \* each worker's place in pulp_crt0.S
  a0,      \* the context pointer each worker read
  t1,      \* the task each worker read
  last     \* history: the task each worker returned from last

mainVars   == <<mpc, boots, epoch, mask>>
workerVars == <<wpc, a0, t1, last>>
vars       == <<regVars, euVars, mainVars, workerVars>>

Booting  == {"off", "clk_en", "poll_ready"}
Between  == {"booted", "arm_clear", "arm_enable", "armed"}
Calling  == {"set_nb", "set_func", "start"}
Waiting  == {"wait", "wfe", "polling", "poll_clear"}
InFlight == {"poll_start"} \cup Waiting

Handling == {"rd_data", "rd_task", "ack"}         \* before the ACK
WorkerPc == {"off", "ready", "wfi"} \cup Handling \cup {"task", "done", "mret"}

Init ==
  /\ RegsInit /\ EuInit
  /\ mpc = "off" /\ boots = 0 /\ epoch = 0 /\ mask = {}
  /\ wpc = [c \in Cores |-> "off"]
  /\ a0 = [c \in Cores |-> 0] /\ t1 = [c \in Cores |-> 0]
  /\ last = [c \in Cores |-> 0]

\* The event the register block raises in this cycle.
DoneEvent == IF done THEN {"cluster_done"} ELSE {}

-----------------------------------------------------------------------------
(* The main core.                                                          *)

MainGoes(from, to) == mpc = from /\ mpc' = to

\* Steps that touch only the registers, or only the Event Unit.
OnRegs == EuIdle(DoneEvent) /\ UNCHANGED workerVars
OnEu   == NoWrite /\ UNCHANGED workerVars

\* pulp_init: program the binary, enable the clock, poll READY.  A poll that
\* reads 0 changes nothing and is not a step.
SetBinary ==
  /\ boots < MaxBoots
  /\ MainGoes("off", "clk_en")
  /\ boots' = boots + 1
  /\ WriteBinary(Binary) /\ OnRegs
  /\ UNCHANGED <<epoch, mask>>

ClkEn ==
  /\ MainGoes("clk_en", "poll_ready")
  /\ WriteClkEn(TRUE) /\ OnRegs
  /\ UNCHANGED <<boots, epoch, mask>>

PollReady ==
  /\ ReadyReads1
  /\ MainGoes("poll_ready", "booted")
  /\ NoWrite /\ OnRegs
  /\ UNCHANGED <<boots, epoch, mask>>

\* Between two dispatches the program may enable the events of other
\* accelerators, as eu_redmule_init or eu_idma_init do.
UseOther ==
  /\ mpc = "booted" /\ "other" \notin eu_mask
  /\ eu_enable_events({"other"}, DoneEvent) /\ OnEu
  /\ UNCHANGED mainVars

\* Fault: the mask is left as it was (an OR instead of the absolute write).
ArmMaskKeeps ==
  /\ MainGoes("booted", "arm_clear")
  /\ EuIdle(DoneEvent) /\ OnEu
  /\ UNCHANGED <<boots, epoch, mask>>

\* cluster_arm_done_event: three accesses.
ArmMask ==
  /\ MainGoes("booted", "arm_clear")
  /\ EuDisableAll(DoneEvent) /\ OnEu
  /\ UNCHANGED <<boots, epoch, mask>>

ArmClear ==
  /\ MainGoes("arm_clear", "arm_enable")
  /\ eu_clear_events(Events, DoneEvent) /\ OnEu
  /\ UNCHANGED <<boots, epoch, mask>>

ArmEnable ==
  /\ MainGoes("arm_enable", "armed")
  /\ eu_enable_events({"cluster_done"}, DoneEvent) /\ OnEu
  /\ UNCHANGED <<boots, epoch, mask>>

\* pulp_run_task with its arguments; pulp_run_task_with_params writes DATA
\* first.
Dispatch(m) ==
  /\ epoch < MaxDispatch /\ m # {}
  /\ MainGoes("armed", "set_nb")
  /\ epoch' = epoch + 1 /\ mask' = m
  /\ WriteData(epoch + 1) \/ NoWrite
  /\ OnRegs
  /\ UNCHANGED boots

\* Fault: the quorum of the dispatch before is left in place.
SetNbKeeps ==
  /\ MainGoes("set_nb", "set_func")
  /\ NoWrite /\ OnRegs
  /\ UNCHANGED <<boots, epoch, mask>>

\* Fault: the count is off by one.
SetNbShort ==
  /\ MainGoes("set_nb", "set_func")
  /\ WriteNbCoresToWait(Cardinality(mask) - 1) /\ OnRegs
  /\ UNCHANGED <<boots, epoch, mask>>

\* The popcount of the mask.
SetNb ==
  /\ MainGoes("set_nb", "set_func")
  /\ WriteNbCoresToWait(Cardinality(mask)) /\ OnRegs
  /\ UNCHANGED <<boots, epoch, mask>>

SetFunc ==
  /\ MainGoes("set_func", "start")
  /\ WriteTaskbin(epoch) /\ OnRegs
  /\ UNCHANGED <<boots, epoch, mask>>

Start ==
  /\ MainGoes("start", "poll_start")
  /\ WriteStartMask(mask) /\ OnRegs
  /\ UNCHANGED <<boots, epoch, mask>>

PollStart ==
  /\ start = {}
  /\ MainGoes("poll_start", "wait")
  /\ NoWrite /\ OnRegs
  /\ UNCHANGED <<boots, epoch, mask>>

\* eu_cluster_done_wait enables the event again, then waits in either mode.
WaitEnable ==
  /\ mpc = "wait" /\ mpc' \in {"wfe", "polling"}
  /\ eu_enable_events({"cluster_done"}, DoneEvent) /\ OnEu
  /\ UNCHANGED <<boots, epoch, mask>>

\* cluster_wait_done_eu drops the events it was woken by.
WaitWfe ==
  /\ MainGoes("wfe", "booted")
  /\ eu_evt_waitAndClr(DoneEvent) /\ OnEu
  /\ UNCHANGED <<boots, epoch, mask>>

PollSees ==
  /\ EuSees({"cluster_done"})
  /\ MainGoes("polling", "poll_clear")
  /\ EuIdle(DoneEvent) /\ OnEu
  /\ UNCHANGED <<boots, epoch, mask>>

PollClear ==
  /\ MainGoes("poll_clear", "booted")
  /\ eu_clear_events({"cluster_done"}, DoneEvent) /\ OnEu
  /\ UNCHANGED <<boots, epoch, mask>>

\* cluster_wait_done_polling throws away the 0 that tells of a timeout.
PollTimeout ==
  /\ PollTimesOut /\ ~EuSees({"cluster_done"})
  /\ MainGoes("polling", "booted")
  /\ EuIdle(DoneEvent) /\ OnEu
  /\ UNCHANGED <<boots, epoch, mask>>

\* cluster_stop gates the workers' clock, wherever they are.
Stop ==
  /\ MainGoes("booted", "off")
  /\ WriteClkEn(FALSE) /\ OnRegs
  /\ UNCHANGED <<boots, epoch, mask>>

\* The steps inside a call, which follow without a choice of the program.
MainInCall ==
  \/ ClkEn \/ PollReady \/ ArmClear \/ ArmEnable
  \/ SetNb \/ SetFunc \/ Start \/ PollStart
  \/ WaitEnable \/ WaitWfe \/ PollSees \/ PollClear \/ PollTimeout

Main ==
  \/ MainInCall
  \/ SetBinary \/ UseOther \/ ArmMask \/ Stop
  \/ \E m \in SUBSET Cores : Dispatch(m)

-----------------------------------------------------------------------------
(* A worker.  It steps only while its clock runs.                          *)

WorkerGoes(c, from, to) ==
  /\ clk_en
  /\ wpc[c] = from /\ wpc' = [wpc EXCEPT ![c] = to]
  /\ EuIdle(DoneEvent)
  /\ UNCHANGED mainVars

\* Out of reset: clear .bss, install the trap handler, enable MEIE and MIE.
Boot(c) ==
  /\ WorkerGoes(c, "off", "ready")
  /\ NoWrite /\ UNCHANGED <<a0, t1, last>>

SignalReady(c) ==
  /\ WorkerGoes(c, "ready", "wfi")
  /\ WriteReady /\ UNCHANGED <<a0, t1, last>>

TakeIrq(c) ==
  /\ c \in irq_pending
  /\ WorkerGoes(c, "wfi", "rd_data")
  /\ AckIrq(c) /\ UNCHANGED <<a0, t1, last>>

ReadData(c) ==
  /\ WorkerGoes(c, "rd_data", "rd_task")
  /\ a0' = [a0 EXCEPT ![c] = data]
  /\ NoWrite /\ UNCHANGED <<t1, last>>

ReadTaskbin(c) ==
  /\ WorkerGoes(c, "rd_task", "ack")
  /\ t1' = [t1 EXCEPT ![c] = taskbin]
  /\ NoWrite /\ UNCHANGED <<a0, last>>

Ack(c) ==
  /\ WorkerGoes(c, "ack", "task")
  /\ WriteStartZero /\ UNCHANGED <<a0, t1, last>>

\* jalr ra, 0(t1), up to the task's return.
RunTask(c) ==
  /\ WorkerGoes(c, "task", "done")
  /\ last' = [last EXCEPT ![c] = t1[c]]
  /\ NoWrite /\ UNCHANGED <<a0, t1>>

SignalDone(c) ==
  /\ WorkerGoes(c, "done", "mret")
  /\ WriteDone /\ UNCHANGED <<a0, t1, last>>

Mret(c) ==
  /\ WorkerGoes(c, "mret", "wfi")
  /\ NoWrite /\ UNCHANGED <<a0, t1, last>>

Worker(c) ==
  \/ Boot(c) \/ SignalReady(c) \/ TakeIrq(c) \/ ReadData(c) \/ ReadTaskbin(c)
  \/ Ack(c) \/ RunTask(c) \/ SignalDone(c) \/ Mret(c)

-----------------------------------------------------------------------------
(* The clock, and the rest of the tile.                                    *)

\* A cycle in which no core does anything to the registers.
Idle ==
  /\ Unsettled
  /\ NoWrite /\ EuIdle(DoneEvent)
  /\ UNCHANGED <<mainVars, workerVars>>

\* Another accelerator raises an event.
OtherEvent ==
  /\ "other" \notin eu_buffer
  /\ NoWrite /\ EuIdle(DoneEvent \cup {"other"})
  /\ UNCHANGED <<mainVars, workerVars>>

Next == Main \/ (\E c \in Cores : Worker(c)) \/ Idle \/ OtherEvent

Spec == Init /\ [][Next]_vars

\* The clock runs, every core that is clocked executes its instructions, and
\* tasks return.  Nothing obliges the program to make another call.
Fairness ==
  /\ WF_vars(MainInCall)
  /\ \A c \in Cores : WF_vars(Worker(c))
  /\ WF_vars(Idle)

FairSpec == Spec /\ Fairness

-----------------------------------------------------------------------------
(* Properties.                                                             *)

\* Types; nb_wait is never 0 (0 switches both quorums off for good).
TypeOK ==
  /\ RegsTypeOK /\ nb_wait # 0
  /\ EuTypeOK
  /\ mpc \in Booting \cup Between \cup Calling \cup InFlight
  /\ boots \in Nat /\ epoch \in Nat /\ epoch <= MaxDispatch
  /\ mask \subseteq Cores
  /\ wpc \in [Cores -> WorkerPc]
  /\ a0 \in [Cores -> Nat] /\ t1 \in [Cores -> Nat] /\ last \in [Cores -> Nat]

Finished(c) == last[c] = epoch
\* In or past the current task, which is what a worker's ACK stands for.  A
\* worker that is still in an older task has not entered the current one.
Entered(c)  == (wpc[c] = "task" /\ t1[c] = epoch) \/ Finished(c)

\* When a wait for the cluster returns, every selected worker has returned
\* from the task of this dispatch (cluster_wait_done_eu, and
\* cluster_wait_done_polling as long as it does not time out).
JoinSound ==
  mpc \in Between \cup {"poll_clear"} => \A c \in mask : Finished(c)

\* A done event that is on its way or latched while a dispatch is being made
\* or awaited belongs to that dispatch: none survives from an earlier one,
\* and none is raised before the quorum (NB_CORES_TO_WAIT and DONE).
NoStaleDone ==
  /\ mpc \in Calling \cup InFlight
  /\ done \/ "cluster_done" \in eu_buffer
  => \A c \in mask : Finished(c)

\* START reads as 0 again only after the last selected worker has read its
\* task and context, so that pulp_run_task may return and both registers be
\* written again.
StartClearsLast ==
  mpc = "poll_start" /\ start = {} => \A c \in mask : Entered(c)

\* No dispatch interrupt gets lost between the START write and the trap: a
\* selected worker that has not entered the task is in its handler or still
\* has the pulse or the latched request coming.
DispatchReachesAll ==
  mpc = "poll_start" =>
    \A c \in mask :
      Entered(c) \/ wpc[c] \in Handling \/ c \in start_irq \cup irq_pending

\* A dispatch interrupt meets a worker only in its dispatcher loop or on its
\* way back to it: never before READY, although interrupts are enabled there,
\* and never inside the handler of an earlier dispatch.
IrqFindsDispatcher ==
  \A c \in start_irq \cup irq_pending : wpc[c] \in {"wfi", "mret"}

\* While a worker runs a task, the task is the one dispatched last and the
\* context pointer it was called with is the one of that dispatch.
ContextStable ==
  \A c \in Cores : wpc[c] = "task" => t1[c] = epoch /\ a0[c] = data

\* A worker enters a task only when the current dispatch selects it, with that
\* dispatch's task and context pointer, and only once per dispatch.
CalledOnce ==
  [][\A c \in Cores :
       wpc[c] = "ack" /\ wpc'[c] = "task" =>
         c \in mask /\ t1[c] = epoch /\ a0[c] = data /\ last[c] # epoch]_vars

\* cluster_boot returns, however often the cluster is booted: READY reads 1 at
\* some point of its poll. This is what resetting the READY count on a write of
\* CLK_EN is for (obi_slave_ctrl_cluster.sv, 124: "so CV32 can re-poll after
\* each init"). It fails: a worker writes READY only on its way out of reset,
\* and the second boot finds the workers past it.
BootReturns == mpc = "poll_ready" ~> mpc = "booted"

\* A dispatch and the wait for it return.
DispatchReturns == mpc = "start" ~> mpc = "booted"

\* The whole machinery implements fork and join (the safety part of it).
FJ == INSTANCE ForkJoin WITH
        Members  <- Cores,
        MaxRound <- MaxDispatch,
        round    <- epoch,
        busy     <- mpc \in Calling \cup InFlight,
        todo     <- {c \in mask : ~Finished(c)}

ForksAndJoins == FJ!Safe

-----------------------------------------------------------------------------
(* The inductive invariant behind the safety properties, for tasks that do *)
(* not outlast a poll.                                                     *)

Acked == {c \in mask : Entered(c)}
Ended == {c \in mask : Finished(c) /\ wpc[c] # "done"}
Armed == {c \in Cores : wpc[c] \notin {"off", "ready"}}
AtWork == Handling \cup {"task", "done"}

\* READY counts at most the armed workers, and boot waits for all of them.
ReadyInv ==
  /\ nb_ready <= Cardinality(Armed)
  /\ mpc \notin Booting => Armed = Cores

\* While no dispatch is in flight nothing of the last one is left over.
QuietInv ==
  mpc \notin InFlight =>
    /\ start = {} /\ nb_ack = 0 /\ nb_done = 0
    /\ start_irq = {} /\ irq_pending = {}
    /\ ~done /\ "cluster_done" \notin eu_buffer
    /\ \A c \in Cores : wpc[c] \notin AtWork

\* From arming to the wait's return only the cluster's event is enabled.
EventInv ==
  /\ mpc \in {"arm_clear", "arm_enable"} => eu_mask = {}
  /\ mpc \in {"armed"} \cup Calling \cup InFlight => eu_mask = {"cluster_done"}

\* How far the registers have been written for the dispatch being made.
CallInv ==
  /\ mpc \in Calling \cup InFlight => mask # {}
  /\ mpc \in {"set_func", "start"} \cup InFlight => nb_wait = Cardinality(mask)
  /\ mpc \in {"start"} \cup InFlight => taskbin = epoch
  /\ mpc \in Calling => \A c \in Cores : ~Finished(c)
  /\ mpc \in Booting \cup Between => \A c \in mask : Finished(c)
  /\ \A c \in Cores : last[c] <= epoch

\* Where a worker can be while a dispatch is in flight.
PlaceInv ==
  mpc \in InFlight =>
    /\ \A c \in Cores : wpc[c] \in AtWork => c \in mask
    /\ \A c \in mask :
         /\ wpc[c] \in Handling \cup {"task"} => ~Finished(c)
         /\ wpc[c] = "done" => Finished(c)
         /\ wpc[c] \in {"ack", "task"} => t1[c] = epoch
         /\ wpc[c] \in {"rd_task", "ack", "task"} => a0[c] = data

\* The interrupts of the dispatch in flight and the workers they are for.
IrqInv ==
  mpc \in InFlight =>
    /\ \A c \in start_irq \cup irq_pending :
         c \in mask /\ ~Finished(c) /\ wpc[c] \in {"wfi", "mret"}
    /\ \A c \in mask :
         Entered(c) \/ wpc[c] \in Handling \/ c \in start_irq \cup irq_pending

\* The counters count the members that have passed each mark.
AckInv ==
  mpc \in InFlight =>
    /\ Acked # mask => start = mask /\ nb_ack = Cardinality(Acked)
    /\ Acked = mask => start = {} /\ nb_ack = 0
    /\ mpc \in Waiting => Acked = mask

DoneInv ==
  mpc \in InFlight =>
    /\ Ended # mask =>
         nb_done = Cardinality(Ended) /\ ~done /\ "cluster_done" \notin eu_buffer
    /\ Ended = mask => nb_done = 0
    /\ mpc = "poll_clear" => Ended = mask /\ "cluster_done" \in eu_buffer
    /\ ~(done /\ "cluster_done" \in eu_buffer)

IInv ==
  /\ TypeOK
  /\ ReadyInv /\ QuietInv /\ EventInv /\ CallInv
  /\ PlaceInv /\ IrqInv /\ AckInv /\ DoneInv

-----------------------------------------------------------------------------
(* What is left of it when a task may outlast its poll, so that a dispatch *)
(* meets workers that are still in an older task: the ACK side stays sound.*)

\* Between the return of one START poll and the next START write nobody is in
\* the handler before its ACK, and nothing of the dispatch is left over.
RestInv ==
  mpc # "poll_start" =>
    /\ start = {} /\ nb_ack = 0
    /\ start_irq = {} /\ irq_pending = {}
    /\ \A c \in Cores : wpc[c] \notin Handling

\* No worker is ahead of the dispatch, however far behind it may be.
LagInv ==
  /\ mpc \in Calling \cup {"poll_start"} => mask # {}
  /\ mpc \in {"set_func", "start", "poll_start"} => nb_wait = Cardinality(mask)
  /\ mpc \in {"start", "poll_start"} => taskbin = epoch
  /\ mpc \in Calling => \A c \in Cores : ~Entered(c)
  /\ \A c \in Cores :
       /\ last[c] <= epoch
       /\ wpc[c] = "task" => t1[c] <= epoch /\ last[c] < epoch

\* The members that have yet to enter the task, and how each is reached.
ReachInv ==
  mpc = "poll_start" =>
    /\ \A c \in Cores :
         /\ wpc[c] \in Handling => c \in mask /\ ~Finished(c)
         /\ wpc[c] \in {"rd_task", "ack"} => a0[c] = data
         /\ wpc[c] = "ack" => t1[c] = epoch
    /\ \A c \in start_irq \cup irq_pending :
         c \in mask /\ ~Entered(c) /\ wpc[c] \notin Handling \cup {"off", "ready"}
    /\ \A c \in mask :
         Entered(c) \/ wpc[c] \in Handling \/ c \in start_irq \cup irq_pending

\* START holds the mask, and the counter the ACKs, until the last one.
CountInv ==
  mpc = "poll_start" =>
    /\ Acked # mask => start = mask /\ nb_ack = Cardinality(Acked)
    /\ Acked = mask => start = {} /\ nb_ack = 0

LateInv == TypeOK /\ ReadyInv /\ RestInv /\ LagInv /\ ReachInv /\ CountInv
=============================================================================
