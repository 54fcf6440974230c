--------------------------- MODULE SpatzDispatch ---------------------------
(***************************************************************************)
(* A tile's main core hands vector tasks to the Spatz core: the calls of   *)
(* sw/utils/magia_spatz_utils.h and the waits of event_unit_utils.h on one *)
(* side, the runtime of spatz/sw/kernel/spatz_crt0.S on the other, with    *)
(* the registers of hw/tile/obi_slave_ctrl_spatz.sv between them.          *)
(*                                                                         *)
(* A step is a cycle of sys_clk with at most one register access.  START   *)
(* is wired to the Spatz core's external interrupt, so the interrupt is a  *)
(* level.  Dispatch number k runs task k with parameters k.                *)
(***************************************************************************)
EXTENDS EventUnit

CONSTANTS
  MaxDispatch,   \* bound on the number of dispatches
  Overlap,       \* whether the program dispatches a task before it has
                 \* waited for the one before
  MayTrap        \* whether a task may raise an exception

ASSUME SpatzAssumption ==
  /\ MaxDispatch \in Nat /\ Overlap \in BOOLEAN /\ MayTrap \in BOOLEAN
  /\ Events = {"spatz_done", "other"}

VARIABLES
  clk_en, start, ready, done,   \* the one-bit registers; done is a pulse
  taskbin, data, return,        \* SPATZ_TASKBIN, SPATZ_DATA, SPATZ_RETURN
  mpc,      \* the call the main core is in
  epoch,    \* number of the dispatch it made last
  code,     \* the exit code it read last
  spc,      \* the Spatz core's place in spatz_crt0.S
  mepc,     \* where it returns to from its trap handler
  t1,       \* the task its handler read
  params,   \* the parameters the task read
  ran,      \* history: the task that came to its end last
  result    \* history: how that task ended

regVars   == <<clk_en, start, ready, done, taskbin, data, return>>
mainVars  == <<mpc, epoch, code>>
spatzVars == <<spc, mepc, t1, params, ran, result>>
vars      == <<regVars, euVars, mainVars, spatzVars>>

Null  == 0                 \* what TASKBIN holds out of reset
Entry == MaxDispatch + 1   \* SPATZ_BINARY_START, the runtime's own address
Codes == {"ok", "error", "exception"}

\* Places at which the handler may interrupt the runtime: from the write of
\* mstatus.MIE on, between the write of READY and the first wfi as well.
Interruptible == {"set_ready", "first_wfi", "clear_ready", "loop"}
Handler == {"rd_task", "clear_start", "call", "task", "wr_return", "wr_done", "mret",
            "trapped", "trap_done"}
SpatzPc == {"bootrom"} \cup Interruptible \cup Handler \cup {"halt"}

Init ==
  /\ clk_en = FALSE /\ start = FALSE /\ ready = FALSE /\ done = FALSE
  /\ taskbin = Null /\ data = 0 /\ return = "ok"
  /\ EuInit
  /\ mpc = "eu_clear" /\ epoch = 0 /\ code = "ok"
  /\ spc = "bootrom" /\ mepc = "loop" /\ t1 = Null /\ params = 0
  /\ ran = 0 /\ result = "ok"

DoneEvent == IF done THEN {"spatz_done"} ELSE {}

-----------------------------------------------------------------------------
(* Registers: a write changes one of them, and DONE clears itself.         *)

NoWrite       == done' = FALSE /\ UNCHANGED <<clk_en, start, ready, taskbin, data, return>>
WriteClkEn(b) == clk_en' = b /\ done' = FALSE /\ UNCHANGED <<start, ready, taskbin, data, return>>
WriteReady(b) == ready' = b /\ done' = FALSE /\ UNCHANGED <<clk_en, start, taskbin, data, return>>
WriteStart(b) == start' = b /\ done' = FALSE /\ UNCHANGED <<clk_en, ready, taskbin, data, return>>
WriteTaskbin(t) ==
  taskbin' = t /\ done' = FALSE /\ UNCHANGED <<clk_en, start, ready, data, return>>
WriteData(p) == data' = p /\ done' = FALSE /\ UNCHANGED <<clk_en, start, ready, taskbin, return>>
WriteReturn(c) == return' = c /\ done' = FALSE /\ UNCHANGED <<clk_en, start, ready, taskbin, data>>

\* Fault: done_d holds its value.
WriteDoneLost == NoWrite

WriteDone == done' = TRUE /\ UNCHANGED <<clk_en, start, ready, taskbin, data, return>>

-----------------------------------------------------------------------------
(* The main core.                                                          *)

MainGoes(from, to) == mpc = from /\ mpc' = to
OnRegs == EuIdle(DoneEvent) /\ UNCHANGED spatzVars
OnEu   == NoWrite /\ UNCHANGED spatzVars

\* eu_init, then eu_enable_events: the Event Unit is set up once.
EuClear  == /\ MainGoes("eu_clear", "eu_mask") /\ eu_clear_events(Events, DoneEvent)
            /\ OnEu /\ UNCHANGED <<epoch, code>>
EuMask   == /\ MainGoes("eu_mask", "eu_enable") /\ EuDisableAll(DoneEvent)
            /\ OnEu /\ UNCHANGED <<epoch, code>>
EuEnable == /\ MainGoes("eu_enable", "set_entry")
            /\ eu_enable_events({"spatz_done"}, DoneEvent)
            /\ OnEu /\ UNCHANGED <<epoch, code>>

\* spatz_init
SetEntry  == /\ MainGoes("set_entry", "clk_en") /\ WriteTaskbin(Entry)
             /\ OnRegs /\ UNCHANGED <<epoch, code>>
ClkEn     == /\ MainGoes("clk_en", "poll_ready") /\ WriteClkEn(TRUE)
             /\ OnRegs /\ UNCHANGED <<epoch, code>>
PollReady == /\ ready
             /\ MainGoes("poll_ready", "idle") /\ NoWrite
             /\ OnRegs /\ UNCHANGED <<epoch, code>>

\* Between two tasks: another accelerator's events are enabled, or the clock
\* of the Spatz core is stopped for a while.
UseOther == /\ mpc = "idle" /\ "other" \notin eu_mask
            /\ eu_enable_events({"other"}, DoneEvent) /\ OnEu
            /\ UNCHANGED mainVars
ClkDis   == /\ MainGoes("idle", "gated") /\ WriteClkEn(FALSE)
            /\ OnRegs /\ UNCHANGED <<epoch, code>>
ClkEnAgain == /\ MainGoes("gated", "idle") /\ WriteClkEn(TRUE)
              /\ OnRegs /\ UNCHANGED <<epoch, code>>

\* spatz_run_task_with_params, and spatz_run_task, which leaves DATA alone.
\* As in the tests, the program gives up after an exit code other than 0.
Dispatch ==
  /\ epoch < MaxDispatch /\ code = "ok"
  /\ mpc \in {"idle"} \cup IF Overlap THEN {"running"} ELSE {}
  /\ mpc' = "set_func" /\ epoch' = epoch + 1
  /\ WriteData(epoch + 1) \/ NoWrite
  /\ OnRegs /\ UNCHANGED code

\* Fault: TASKBIN is not written.
SetFuncNot == /\ MainGoes("set_func", "start") /\ NoWrite
              /\ OnRegs /\ UNCHANGED <<epoch, code>>
SetFunc == /\ MainGoes("set_func", "start") /\ WriteTaskbin(epoch)
           /\ OnRegs /\ UNCHANGED <<epoch, code>>
Start   == /\ MainGoes("start", "poll_start") /\ WriteStart(TRUE)
           /\ OnRegs /\ UNCHANGED <<epoch, code>>
PollStart == /\ ~start
             /\ MainGoes("poll_start", "running") /\ NoWrite
             /\ OnRegs /\ UNCHANGED <<epoch, code>>

\* eu_wait_spatz_wfe and eu_wait_spatz_polling: look, sleep or look again,
\* and clear the event in the end.
Wait == /\ MainGoes("running", "check") /\ NoWrite
        /\ OnRegs /\ UNCHANGED <<epoch, code>>
CheckSees == /\ EuSees({"spatz_done"}) /\ MainGoes("check", "clear")
             /\ EuIdle(DoneEvent) /\ OnEu /\ UNCHANGED <<epoch, code>>
CheckNot  == /\ ~EuSees({"spatz_done"}) /\ MainGoes("check", "evt_wait")
             /\ EuIdle(DoneEvent) /\ OnEu /\ UNCHANGED <<epoch, code>>
EvtWait   == /\ MainGoes("evt_wait", "check") /\ eu_evt_wait(DoneEvent)
             /\ OnEu /\ UNCHANGED <<epoch, code>>
\* Fault: the event stays latched.
ClearNot  == /\ MainGoes("clear", "rd_code") /\ EuIdle(DoneEvent)
             /\ OnEu /\ UNCHANGED <<epoch, code>>
Clear     == /\ MainGoes("clear", "rd_code") /\ eu_clear_events({"spatz_done"}, DoneEvent)
             /\ OnEu /\ UNCHANGED <<epoch, code>>

\* spatz_get_exit_code
ReadCode == /\ MainGoes("rd_code", "idle") /\ code' = return /\ NoWrite
            /\ OnRegs /\ UNCHANGED epoch

MainInCall ==
  \/ EuMask \/ EuEnable \/ SetEntry \/ ClkEn \/ PollReady
  \/ SetFunc \/ Start \/ PollStart \/ Wait
  \/ CheckSees \/ CheckNot \/ EvtWait \/ Clear \/ ReadCode
Main == MainInCall \/ EuClear \/ UseOther \/ ClkDis \/ ClkEnAgain \/ Dispatch

-----------------------------------------------------------------------------
(* The Spatz core, which steps only while its clock runs.                  *)

SpatzGoes(from, to) ==
  clk_en /\ spc = from /\ spc' = to /\ EuIdle(DoneEvent) /\ UNCHANGED mainVars

\* The boot ROM jumps to what TASKBIN holds; from there to the write of MIE.
BootRom == /\ SpatzGoes("bootrom", "set_ready") /\ t1' = taskbin
           /\ NoWrite /\ UNCHANGED <<mepc, params, ran, result>>
SetReady == /\ SpatzGoes("set_ready", "first_wfi") /\ WriteReady(TRUE)
            /\ UNCHANGED <<mepc, t1, params, ran, result>>
ClearReady == /\ SpatzGoes("clear_ready", "loop") /\ WriteReady(FALSE)
              /\ UNCHANGED <<mepc, t1, params, ran, result>>

\* Fault: START is cleared as the interrupt is taken.
TakeIrqClears == /\ start /\ spc \in Interruptible
                 /\ SpatzGoes(spc, "rd_task")
                 /\ mepc' = spc
                 /\ WriteStart(FALSE) /\ UNCHANGED <<t1, params, ran, result>>

\* An interrupt taken just before the first wfi returns to it, one that wakes
\* the core from it returns behind it.
TakeIrq == /\ start /\ spc \in Interruptible
           /\ SpatzGoes(spc, "rd_task")
           /\ mepc' \in {spc} \cup IF spc = "first_wfi" THEN {"clear_ready"} ELSE {}
           /\ NoWrite /\ UNCHANGED <<t1, params, ran, result>>

\* A null TASKBIN is no task: START stays set and the interrupt comes again.
ReadTask == /\ SpatzGoes("rd_task", IF taskbin = Null THEN "mret" ELSE "clear_start")
            /\ t1' = taskbin
            /\ NoWrite /\ UNCHANGED <<mepc, params, ran, result>>
ClearStart == /\ SpatzGoes("clear_start", "call") /\ WriteStart(FALSE)
              /\ UNCHANGED <<mepc, t1, params, ran, result>>

\* The task is called and begins by reading DATA.
Call == /\ SpatzGoes("call", "task") /\ params' = data
        /\ NoWrite /\ UNCHANGED <<mepc, t1, ran, result>>
Return == /\ SpatzGoes("task", "wr_return")
          /\ ran' = t1 /\ result' \in {"ok", "error"}
          /\ NoWrite /\ UNCHANGED <<mepc, t1, params>>
Trap == /\ MayTrap
        /\ SpatzGoes("task", "trapped")
        /\ ran' = t1 /\ result' = "exception"
        /\ NoWrite /\ UNCHANGED <<mepc, t1, params>>

\* RETURN becomes 0 whatever the task returned in a0.
WrReturn == /\ SpatzGoes("wr_return", "wr_done") /\ WriteReturn("ok")
            /\ UNCHANGED <<mepc, t1, params, ran, result>>
WrDone   == /\ SpatzGoes("wr_done", "mret") /\ WriteDone
            /\ UNCHANGED <<mepc, t1, params, ran, result>>
Mret     == /\ SpatzGoes("mret", mepc) /\ NoWrite
            /\ UNCHANGED <<mepc, t1, params, ran, result>>

\* Fault: the exception leaves RETURN alone.
TrappedNot == /\ SpatzGoes("trapped", "trap_done") /\ NoWrite
              /\ UNCHANGED <<mepc, t1, params, ran, result>>
\* An exception: RETURN, DONE, and a wfi for ever.
Trapped  == /\ SpatzGoes("trapped", "trap_done") /\ WriteReturn("exception")
            /\ UNCHANGED <<mepc, t1, params, ran, result>>
TrapDone == /\ SpatzGoes("trap_done", "halt") /\ WriteDone
            /\ UNCHANGED <<mepc, t1, params, ran, result>>

Spatz ==
  \/ BootRom \/ SetReady \/ ClearReady \/ TakeIrq
  \/ ReadTask \/ ClearStart \/ Call \/ Return \/ Trap
  \/ WrReturn \/ WrDone \/ Mret \/ Trapped \/ TrapDone

-----------------------------------------------------------------------------
(* The clock, and the rest of the tile.                                    *)

\* The cycle after a write of DONE, if nobody uses it.
Idle == /\ done /\ NoWrite /\ EuIdle(DoneEvent)
        /\ UNCHANGED <<mainVars, spatzVars>>

\* Another accelerator raises an event.
OtherEvent == /\ "other" \notin eu_buffer
              /\ NoWrite /\ EuIdle(DoneEvent \cup {"other"})
              /\ UNCHANGED <<mainVars, spatzVars>>

Next == Main \/ Spatz \/ Idle \/ OtherEvent
Spec == Init /\ [][Next]_vars

\* Clocked cores execute their instructions, and tasks come to an end.
Fairness == WF_vars(MainInCall) /\ WF_vars(Spatz) /\ WF_vars(Idle)
FairSpec == Spec /\ Fairness

-----------------------------------------------------------------------------
(* Properties.                                                             *)

Busy    == {"set_func", "start", "poll_start", "running", "check", "evt_wait", "clear",
            "rd_code"}
MainPc  == {"eu_clear", "eu_mask", "eu_enable", "set_entry", "clk_en", "poll_ready",
            "idle", "gated"} \cup Busy
Tasks   == 0..Entry

\* Types; the Spatz core never meets a null or runtime address as a task.
TypeOK ==
  /\ {clk_en, start, ready, done} \subseteq BOOLEAN
  /\ {taskbin, data, t1, params, ran} \subseteq Tasks /\ return \in Codes
  /\ EuTypeOK
  /\ mpc \in MainPc /\ epoch \in 0..MaxDispatch /\ code \in Codes
  /\ spc \in SpatzPc /\ mepc \in Interruptible /\ result \in Codes
  /\ spc \in {"clear_start", "call", "task"} => t1 \in 1..MaxDispatch

\* When START reads as 0 the Spatz core has read the task of this dispatch:
\* spatz_run_task may return, and TASKBIN may be written again.
StartClearsLate ==
  mpc \in {"poll_start", "running"} /\ ~start => t1 = epoch

\* The parameter pointer a task works on is never one passed for a later task
\* ("safe to write to DATA" once START is cleared, spatz/README.md).
ParamsOwn == spc = "task" => params <= t1

\* After an exception, and only then, the program reads the exception's code.
ExceptionReported ==
  mpc \in {"idle", "gated"} => (code = "exception" <=> result = "exception")

\* With one task at a time the machinery implements fork and join for a team
\* of one: a task runs once per dispatch although START is a level, a wait that
\* is over was for the task dispatched last and not for an event of another
\* accelerator or of an earlier task, and every dispatched task is joined.
FJ == INSTANCE ForkJoin WITH
        Members  <- {"spatz"},
        MaxRound <- MaxDispatch,
        round    <- epoch,
        busy     <- mpc \in Busy,
        todo     <- IF ran # epoch THEN {"spatz"} ELSE {}
ImplementsForkJoin == FJ!Spec
=============================================================================
