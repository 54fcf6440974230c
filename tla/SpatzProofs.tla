---------------------------- MODULE SpatzProofs ----------------------------
(***************************************************************************)
(* Theorems about SpatzDispatch, for any number of dispatches, with or     *)
(* without exceptions, as long as the program waits for a task before it   *)
(* dispatches the next one.                                                *)
(***************************************************************************)
EXTENDS SpatzDispatch, TLAPS

USE SpatzAssumption

Booting == {"eu_clear", "eu_mask", "eu_enable", "set_entry", "clk_en", "poll_ready"}
Calling == {"set_func", "start"}
Waiting == {"poll_start", "running", "check", "evt_wait"}
Joined  == {"clear", "rd_code"}
Between == {"idle", "gated"}

\* Where the Spatz core is between two tasks.
Resting == {"mret", "first_wfi", "clear_ready", "loop"}

Pending  == "spatz_done" \in eu_buffer
Silent   == ~done /\ ~Pending
Signaled == done <=> ~Pending

\* The runtime is up before the first dispatch, and no interrupt comes earlier.
BootInv ==
  mpc \in Booting =>
    /\ epoch = 0 /\ ran = 0 /\ result = "ok" /\ code = "ok"
    /\ ~start /\ Silent
    /\ spc \in {"bootrom", "set_ready", "first_wfi"}
    /\ mpc # "poll_ready" => ~clk_en /\ ~ready /\ spc = "bootrom"
    /\ ready => spc = "first_wfi"

\* The task dispatched last has come to its end and its code stands in RETURN.
Over ==
  /\ spc \in Resting \cup {"halt"}
  /\ epoch \in Nat \ {0}
  /\ ran = epoch /\ ~start
  /\ spc = "halt" <=> result = "exception"
  /\ return = IF result = "exception" THEN "exception" ELSE "ok"

\* No task of the dispatch before is left when TASKBIN and START are written.
CallInv ==
  mpc \in Calling =>
    /\ ~start /\ Silent
    /\ epoch \in Nat \ {0} /\ ran = epoch - 1
    /\ spc \in Resting /\ code = "ok"
    /\ mpc = "start" => taskbin = epoch

\* START stands for the task in TASKBIN until the handler has read it.
Asked ==
  /\ mpc = "poll_start" /\ start /\ Silent
  /\ taskbin = epoch /\ epoch \in Nat \ {0} /\ ran = epoch - 1
  /\ spc \in Resting \cup {"rd_task", "clear_start"}
  /\ spc = "clear_start" => t1 = epoch

\* The task runs.
Running ==
  /\ ~start /\ Silent /\ t1 = epoch
  /\ epoch \in Nat \ {0} /\ ran = epoch - 1
  /\ spc \in {"call", "task"}

\* It has ended; its code and its event are on their way.
Ending ==
  /\ ~start /\ Silent /\ t1 = epoch
  /\ epoch \in Nat \ {0} /\ ran = epoch
  /\ \/ spc \in {"wr_return", "wr_done"} /\ result # "exception"
     \/ spc \in {"trapped", "trap_done"} /\ result = "exception"
  /\ spc = "wr_done" => return = "ok"
  /\ spc = "trap_done" => return = "exception"

Signaling == Over /\ Signaled /\ t1 = epoch

WaitInv  == mpc \in Waiting => Asked \/ Running \/ Ending \/ Signaling
JoinInv  == mpc \in Joined => /\ Over /\ ~done
                              /\ mpc = "rd_code" => Silent
IdleInv  ==
  mpc \in Between =>
    /\ ~start /\ Silent /\ ran = epoch
    /\ spc \in Resting \cup {"halt"}
    /\ spc = "halt" <=> result = "exception"
    /\ code = "exception" <=> result = "exception"

\* Parameters are those of the last dispatch or of an earlier one.
DataInv == data <= epoch /\ (spc = "task" => params <= epoch)

\* The handler returns into the runtime, past the write of READY.
MepcInv == mepc \in Resting \ {"mret"}

IInv == /\ TypeOK /\ BootInv /\ CallInv /\ WaitInv /\ JoinInv /\ IdleInv
        /\ DataInv /\ MepcInv

-----------------------------------------------------------------------------
(* What a cycle does to the Spatz core's event: it is latched, unless the  *)
(* program clears it, which it never does while the event arrives.         *)

EuClears == EuClear \/ Clear

LEMMA EventStep ==
  ASSUME IInv, Next
  PROVE  /\ EuTypeOK'
         /\ EuClears => ~Pending'
         /\ ~EuClears => (Pending' <=> Pending \/ done)
<1>1. EuTypeOK
  BY DEF IInv, TypeOK
<1> USE DEF EuTypeOK, Pending, DoneEvent, EuLatch, EuIdle
<1>2. CASE EuIdle(DoneEvent) /\ ~EuClears
  BY <1>1, <1>2
<1>3. CASE EuClears
  <2>1. ~done
    BY <1>3 DEF EuClears, EuClear, Clear, MainGoes, IInv, BootInv, JoinInv,
       Silent, Booting, Joined
  <2> QED
    BY <1>1, <1>3, <2>1 DEF EuClears, EuClear, Clear, eu_clear_events
<1>4. CASE EuMask \/ EuEnable \/ UseOther \/ EvtWait \/ OtherEvent
  <2>1. ~EuClears
    BY <1>4 DEF EuClears, EuClear, Clear, EuMask, EuEnable, UseOther, EvtWait,
       OtherEvent,
                MainGoes, mainVars
  <2> QED
    BY <1>1, <1>4, <2>1 DEF EuMask, EuEnable, UseOther, EvtWait, OtherEvent,
                EuDisableAll, eu_enable_events, eu_evt_wait
<1>5. EuClears \/ EuMask \/ EuEnable \/ UseOther \/ EvtWait \/ OtherEvent
        \/ EuIdle(DoneEvent)
  <2>1. CASE Main
    BY <2>1 DEF Main, MainInCall, EuClears, SetEntry, ClkEn, PollReady, ClkDis,
       ClkEnAgain,
                Dispatch, SetFunc, Start, PollStart, Wait, CheckSees, CheckNot,
                ReadCode, OnRegs
  <2>2. CASE Spatz
    BY <2>2 DEF Spatz, BootRom, SetReady, ClearReady, TakeIrq, ReadTask,
       ClearStart, Call,
                Return, Trap, WrReturn, WrDone, Mret, Trapped, TrapDone,
                SpatzGoes
  <2> QED
    BY <2>1, <2>2 DEF Next, Idle
<1> QED
  BY <1>2, <1>3, <1>4, <1>5

-----------------------------------------------------------------------------
(* Types.                                                                  *)

\* TypeOK, in three parts.
Flags == clk_en \in BOOLEAN /\ start \in BOOLEAN /\ ready \in BOOLEAN /\ done \in BOOLEAN
Numbers ==
  /\ taskbin \in Tasks /\ data \in Tasks /\ t1 \in Tasks /\ params \in Tasks
  /\ ran \in Tasks /\ epoch \in 0..MaxDispatch
  /\ spc \in {"clear_start", "call", "task"} => t1 \in 1..MaxDispatch
Places ==
  /\ return \in Codes /\ code \in Codes /\ result \in Codes
  /\ mpc \in MainPc /\ spc \in SpatzPc /\ mepc \in Interruptible
Typed == Flags /\ Numbers /\ Places

LEMMA TypesTyped == (TypeOK <=> Typed /\ EuTypeOK) /\ (TypeOK' <=> Typed' /\ EuTypeOK')
BY DEF TypeOK, Typed, Flags, Numbers, Places

USE DEF NoWrite, WriteClkEn, WriteReady, WriteStart, WriteTaskbin, WriteData,
        WriteReturn, WriteDone, MainGoes, OnRegs, OnEu, SpatzGoes,
        regVars, mainVars, spatzVars

LEMMA TypesStep ==
  ASSUME IInv, Next
  PROVE  Typed'
<1>1. Flags /\ Numbers /\ Places
  BY TypesTyped DEF IInv, Typed
<1> USE DEF Tasks, Codes, MainPc, Busy, SpatzPc, Interruptible, Handler, Entry, Null
<1>2. CASE EuClear
  <2>1. Flags'
    BY <1>1, <1>2 DEF EuClear, Flags
  <2>2. Numbers'
    BY <1>1, <1>2 DEF EuClear, Numbers
  <2>3. Places'
    BY <1>1, <1>2 DEF EuClear, Places
  <2> QED
    BY <2>1, <2>2, <2>3 DEF Typed
<1>3. CASE EuMask
  <2>1. Flags'
    BY <1>1, <1>3 DEF EuMask, Flags
  <2>2. Numbers'
    BY <1>1, <1>3 DEF EuMask, Numbers
  <2>3. Places'
    BY <1>1, <1>3 DEF EuMask, Places
  <2> QED
    BY <2>1, <2>2, <2>3 DEF Typed
<1>4. CASE EuEnable
  <2>1. Flags'
    BY <1>1, <1>4 DEF EuEnable, Flags
  <2>2. Numbers'
    BY <1>1, <1>4 DEF EuEnable, Numbers
  <2>3. Places'
    BY <1>1, <1>4 DEF EuEnable, Places
  <2> QED
    BY <2>1, <2>2, <2>3 DEF Typed
<1>5. CASE SetEntry
  <2>1. Flags'
    BY <1>1, <1>5 DEF SetEntry, Flags
  <2>2. Numbers'
    BY <1>1, <1>5 DEF SetEntry, Numbers
  <2>3. Places'
    BY <1>1, <1>5 DEF SetEntry, Places
  <2> QED
    BY <2>1, <2>2, <2>3 DEF Typed
<1>6. CASE ClkEn
  <2>1. Flags'
    BY <1>1, <1>6 DEF ClkEn, Flags
  <2>2. Numbers'
    BY <1>1, <1>6 DEF ClkEn, Numbers
  <2>3. Places'
    BY <1>1, <1>6 DEF ClkEn, Places
  <2> QED
    BY <2>1, <2>2, <2>3 DEF Typed
<1>7. CASE PollReady
  <2>1. Flags'
    BY <1>1, <1>7 DEF PollReady, Flags
  <2>2. Numbers'
    BY <1>1, <1>7 DEF PollReady, Numbers
  <2>3. Places'
    BY <1>1, <1>7 DEF PollReady, Places
  <2> QED
    BY <2>1, <2>2, <2>3 DEF Typed
<1>8. CASE UseOther
  <2>1. Flags'
    BY <1>1, <1>8 DEF UseOther, Flags
  <2>2. Numbers'
    BY <1>1, <1>8 DEF UseOther, Numbers
  <2>3. Places'
    BY <1>1, <1>8 DEF UseOther, Places
  <2> QED
    BY <2>1, <2>2, <2>3 DEF Typed
<1>9. CASE ClkDis
  <2>1. Flags'
    BY <1>1, <1>9 DEF ClkDis, Flags
  <2>2. Numbers'
    BY <1>1, <1>9 DEF ClkDis, Numbers
  <2>3. Places'
    BY <1>1, <1>9 DEF ClkDis, Places
  <2> QED
    BY <2>1, <2>2, <2>3 DEF Typed
<1>10. CASE ClkEnAgain
  <2>1. Flags'
    BY <1>1, <1>10 DEF ClkEnAgain, Flags
  <2>2. Numbers'
    BY <1>1, <1>10 DEF ClkEnAgain, Numbers
  <2>3. Places'
    BY <1>1, <1>10 DEF ClkEnAgain, Places
  <2> QED
    BY <2>1, <2>2, <2>3 DEF Typed
<1>11. CASE Dispatch
  <2>1. Flags'
    BY <1>1, <1>11 DEF Dispatch, Flags
  <2>2. Numbers'
    BY <1>1, <1>11 DEF Dispatch, Numbers
  <2>3. Places'
    BY <1>1, <1>11 DEF Dispatch, Places
  <2> QED
    BY <2>1, <2>2, <2>3 DEF Typed
<1>12. CASE SetFunc
  <2>1. Flags'
    BY <1>1, <1>12 DEF SetFunc, Flags
  <2>2. Numbers'
    BY <1>1, <1>12 DEF SetFunc, Numbers
  <2>3. Places'
    BY <1>1, <1>12 DEF SetFunc, Places
  <2> QED
    BY <2>1, <2>2, <2>3 DEF Typed
<1>13. CASE Start
  <2>1. Flags'
    BY <1>1, <1>13 DEF Start, Flags
  <2>2. Numbers'
    BY <1>1, <1>13 DEF Start, Numbers
  <2>3. Places'
    BY <1>1, <1>13 DEF Start, Places
  <2> QED
    BY <2>1, <2>2, <2>3 DEF Typed
<1>14. CASE PollStart
  <2>1. Flags'
    BY <1>1, <1>14 DEF PollStart, Flags
  <2>2. Numbers'
    BY <1>1, <1>14 DEF PollStart, Numbers
  <2>3. Places'
    BY <1>1, <1>14 DEF PollStart, Places
  <2> QED
    BY <2>1, <2>2, <2>3 DEF Typed
<1>15. CASE Wait
  <2>1. Flags'
    BY <1>1, <1>15 DEF Wait, Flags
  <2>2. Numbers'
    BY <1>1, <1>15 DEF Wait, Numbers
  <2>3. Places'
    BY <1>1, <1>15 DEF Wait, Places
  <2> QED
    BY <2>1, <2>2, <2>3 DEF Typed
<1>16. CASE CheckSees
  <2>1. Flags'
    BY <1>1, <1>16 DEF CheckSees, Flags
  <2>2. Numbers'
    BY <1>1, <1>16 DEF CheckSees, Numbers
  <2>3. Places'
    BY <1>1, <1>16 DEF CheckSees, Places
  <2> QED
    BY <2>1, <2>2, <2>3 DEF Typed
<1>17. CASE CheckNot
  <2>1. Flags'
    BY <1>1, <1>17 DEF CheckNot, Flags
  <2>2. Numbers'
    BY <1>1, <1>17 DEF CheckNot, Numbers
  <2>3. Places'
    BY <1>1, <1>17 DEF CheckNot, Places
  <2> QED
    BY <2>1, <2>2, <2>3 DEF Typed
<1>18. CASE EvtWait
  <2>1. Flags'
    BY <1>1, <1>18 DEF EvtWait, Flags
  <2>2. Numbers'
    BY <1>1, <1>18 DEF EvtWait, Numbers
  <2>3. Places'
    BY <1>1, <1>18 DEF EvtWait, Places
  <2> QED
    BY <2>1, <2>2, <2>3 DEF Typed
<1>19. CASE Clear
  <2>1. Flags'
    BY <1>1, <1>19 DEF Clear, Flags
  <2>2. Numbers'
    BY <1>1, <1>19 DEF Clear, Numbers
  <2>3. Places'
    BY <1>1, <1>19 DEF Clear, Places
  <2> QED
    BY <2>1, <2>2, <2>3 DEF Typed
<1>20. CASE ReadCode
  <2>1. Flags'
    BY <1>1, <1>20 DEF ReadCode, Flags
  <2>2. Numbers'
    BY <1>1, <1>20 DEF ReadCode, Numbers
  <2>3. Places'
    BY <1>1, <1>20 DEF ReadCode, Places
  <2> QED
    BY <2>1, <2>2, <2>3 DEF Typed
<1>21. CASE BootRom
  <2>1. Flags'
    BY <1>1, <1>21 DEF BootRom, Flags
  <2>2. Numbers'
    BY <1>1, <1>21 DEF BootRom, Numbers
  <2>3. Places'
    BY <1>1, <1>21 DEF BootRom, Places
  <2> QED
    BY <2>1, <2>2, <2>3 DEF Typed
<1>22. CASE SetReady
  <2>1. Flags'
    BY <1>1, <1>22 DEF SetReady, Flags
  <2>2. Numbers'
    BY <1>1, <1>22 DEF SetReady, Numbers
  <2>3. Places'
    BY <1>1, <1>22 DEF SetReady, Places
  <2> QED
    BY <2>1, <2>2, <2>3 DEF Typed
<1>23. CASE ClearReady
  <2>1. Flags'
    BY <1>1, <1>23 DEF ClearReady, Flags
  <2>2. Numbers'
    BY <1>1, <1>23 DEF ClearReady, Numbers
  <2>3. Places'
    BY <1>1, <1>23 DEF ClearReady, Places
  <2> QED
    BY <2>1, <2>2, <2>3 DEF Typed
<1>24. CASE TakeIrq
  <2>1. Flags'
    BY <1>1, <1>24 DEF TakeIrq, Flags
  <2>2. Numbers'
    BY <1>1, <1>24 DEF TakeIrq, Numbers
  <2>3. Places'
    BY <1>1, <1>24 DEF TakeIrq, Places
  <2> QED
    BY <2>1, <2>2, <2>3 DEF Typed
<1>25. CASE ReadTask
  <2>1. taskbin = epoch /\ epoch \in Nat \ {0}
    BY <1>1, <1>25 DEF ReadTask, IInv, BootInv, CallInv, WaitInv, JoinInv,
       IdleInv, Asked, Running,
                Ending, Signaling, Over, Booting, Calling, Waiting, Joined,
                Between, Resting, Places
  <2>2. Flags'
    BY <1>1, <1>25 DEF ReadTask, Flags
  <2>3. Numbers'
    BY <1>1, <1>25, <2>1 DEF ReadTask, Numbers
  <2>4. Places'
    BY <1>1, <1>25 DEF ReadTask, Places
  <2> QED
    BY <2>2, <2>3, <2>4 DEF Typed
<1>26. CASE ClearStart
  <2>1. Flags'
    BY <1>1, <1>26 DEF ClearStart, Flags
  <2>2. Numbers'
    BY <1>1, <1>26 DEF ClearStart, Numbers
  <2>3. Places'
    BY <1>1, <1>26 DEF ClearStart, Places
  <2> QED
    BY <2>1, <2>2, <2>3 DEF Typed
<1>27. CASE Call
  <2>1. Flags'
    BY <1>1, <1>27 DEF Call, Flags
  <2>2. Numbers'
    BY <1>1, <1>27 DEF Call, Numbers
  <2>3. Places'
    BY <1>1, <1>27 DEF Call, Places
  <2> QED
    BY <2>1, <2>2, <2>3 DEF Typed
<1>28. CASE Return
  <2>1. Flags'
    BY <1>1, <1>28 DEF Return, Flags
  <2>2. Numbers'
    BY <1>1, <1>28 DEF Return, Numbers
  <2>3. Places'
    BY <1>1, <1>28 DEF Return, Places
  <2> QED
    BY <2>1, <2>2, <2>3 DEF Typed
<1>29. CASE Trap
  <2>1. Flags'
    BY <1>1, <1>29 DEF Trap, Flags
  <2>2. Numbers'
    BY <1>1, <1>29 DEF Trap, Numbers
  <2>3. Places'
    BY <1>1, <1>29 DEF Trap, Places
  <2> QED
    BY <2>1, <2>2, <2>3 DEF Typed
<1>30. CASE WrReturn
  <2>1. Flags'
    BY <1>1, <1>30 DEF WrReturn, Flags
  <2>2. Numbers'
    BY <1>1, <1>30 DEF WrReturn, Numbers
  <2>3. Places'
    BY <1>1, <1>30 DEF WrReturn, Places
  <2> QED
    BY <2>1, <2>2, <2>3 DEF Typed
<1>31. CASE WrDone
  <2>1. Flags'
    BY <1>1, <1>31 DEF WrDone, Flags
  <2>2. Numbers'
    BY <1>1, <1>31 DEF WrDone, Numbers
  <2>3. Places'
    BY <1>1, <1>31 DEF WrDone, Places
  <2> QED
    BY <2>1, <2>2, <2>3 DEF Typed
<1>32. CASE Mret
  <2>1. Flags'
    BY <1>1, <1>32 DEF Mret, Flags
  <2>2. Numbers'
    BY <1>1, <1>32 DEF Mret, Numbers, Places
  <2>3. Places'
    BY <1>1, <1>32 DEF Mret, Places
  <2> QED
    BY <2>1, <2>2, <2>3 DEF Typed
<1>33. CASE Trapped
  <2>1. Flags'
    BY <1>1, <1>33 DEF Trapped, Flags
  <2>2. Numbers'
    BY <1>1, <1>33 DEF Trapped, Numbers
  <2>3. Places'
    BY <1>1, <1>33 DEF Trapped, Places
  <2> QED
    BY <2>1, <2>2, <2>3 DEF Typed
<1>34. CASE TrapDone
  <2>1. Flags'
    BY <1>1, <1>34 DEF TrapDone, Flags
  <2>2. Numbers'
    BY <1>1, <1>34 DEF TrapDone, Numbers
  <2>3. Places'
    BY <1>1, <1>34 DEF TrapDone, Places
  <2> QED
    BY <2>1, <2>2, <2>3 DEF Typed
<1>35. CASE Idle
  <2>1. Flags'
    BY <1>1, <1>35 DEF Idle, Flags
  <2>2. Numbers'
    BY <1>1, <1>35 DEF Idle, Numbers
  <2>3. Places'
    BY <1>1, <1>35 DEF Idle, Places
  <2> QED
    BY <2>1, <2>2, <2>3 DEF Typed
<1>36. CASE OtherEvent
  <2>1. Flags'
    BY <1>1, <1>36 DEF OtherEvent, Flags
  <2>2. Numbers'
    BY <1>1, <1>36 DEF OtherEvent, Numbers
  <2>3. Places'
    BY <1>1, <1>36 DEF OtherEvent, Places
  <2> QED
    BY <2>1, <2>2, <2>3 DEF Typed
<1> QED
  BY <1>2, <1>3, <1>4, <1>5, <1>6, <1>7, <1>8, <1>9, <1>10, <1>11, <1>12,
     <1>13, <1>14, <1>15, <1>16, <1>17, <1>18, <1>19, <1>20, <1>21, <1>22,
     <1>23, <1>24, <1>25, <1>26, <1>27, <1>28, <1>29, <1>30, <1>31, <1>32,
     <1>33, <1>34, <1>35, <1>36 DEF Next, Main, MainInCall, Spatz

-----------------------------------------------------------------------------
(* The phases of a dispatch.                                               *)

USE DEF Booting, Calling, Waiting, Joined, Between, Resting, Silent, Signaled,
        BootInv, Over, CallInv, Asked, Running, Ending, Signaling, WaitInv,
        JoinInv, IdleInv, DataInv, MepcInv, Tasks, Codes, MainPc, Busy, SpatzPc,
        Interruptible, Handler, Entry, Null

\* What the steps below use.
Ground ==
  /\ IInv /\ Typed /\ Typed'
  /\ EuClears => ~Pending'
  /\ ~EuClears => (Pending' <=> Pending \/ done)

PhasesInv == BootInv /\ CallInv /\ WaitInv /\ JoinInv /\ IdleInv /\ DataInv /\ MepcInv

LEMMA EuClearStep ==
  ASSUME Ground, ~Overlap, EuClear
  PROVE  PhasesInv'
<1>1. ~Pending'
  BY DEF Ground, EuClears
<1>3. IInv /\ Typed /\ Typed'
  BY DEF Ground
<1>4. BootInv' /\ CallInv'
  BY <1>1, <1>3 DEF IInv, EuClear, Typed, Flags, Numbers, Places
<1>5. WaitInv'
  BY <1>1, <1>3 DEF IInv, EuClear, Typed, Flags, Numbers, Places
<1>6. JoinInv' /\ IdleInv'
  BY <1>1, <1>3 DEF IInv, EuClear, Typed, Flags, Numbers, Places
<1>7. DataInv' /\ MepcInv'
  BY <1>1, <1>3 DEF IInv, EuClear, Typed, Flags, Numbers, Places
<1> QED
  BY <1>4, <1>5, <1>6, <1>7 DEF PhasesInv

LEMMA EuMaskStep ==
  ASSUME Ground, ~Overlap, EuMask
  PROVE  PhasesInv'
<1>1. Pending' <=> Pending \/ done
  BY DEF Ground, EuClears, EuClear, Clear, EuMask
<1>3. IInv /\ Typed /\ Typed'
  BY DEF Ground
<1>4. BootInv' /\ CallInv'
  BY <1>1, <1>3 DEF IInv, EuMask, Typed, Flags, Numbers, Places
<1>5. WaitInv'
  BY <1>1, <1>3 DEF IInv, EuMask, Typed, Flags, Numbers, Places
<1>6. JoinInv' /\ IdleInv'
  BY <1>1, <1>3 DEF IInv, EuMask, Typed, Flags, Numbers, Places
<1>7. DataInv' /\ MepcInv'
  BY <1>1, <1>3 DEF IInv, EuMask, Typed, Flags, Numbers, Places
<1> QED
  BY <1>4, <1>5, <1>6, <1>7 DEF PhasesInv

LEMMA EuEnableStep ==
  ASSUME Ground, ~Overlap, EuEnable
  PROVE  PhasesInv'
<1>1. Pending' <=> Pending \/ done
  BY DEF Ground, EuClears, EuClear, Clear, EuEnable
<1>3. IInv /\ Typed /\ Typed'
  BY DEF Ground
<1>4. BootInv' /\ CallInv'
  BY <1>1, <1>3 DEF IInv, EuEnable, Typed, Flags, Numbers, Places
<1>5. WaitInv'
  BY <1>1, <1>3 DEF IInv, EuEnable, Typed, Flags, Numbers, Places
<1>6. JoinInv' /\ IdleInv'
  BY <1>1, <1>3 DEF IInv, EuEnable, Typed, Flags, Numbers, Places
<1>7. DataInv' /\ MepcInv'
  BY <1>1, <1>3 DEF IInv, EuEnable, Typed, Flags, Numbers, Places
<1> QED
  BY <1>4, <1>5, <1>6, <1>7 DEF PhasesInv

LEMMA SetEntryStep ==
  ASSUME Ground, ~Overlap, SetEntry
  PROVE  PhasesInv'
<1>1. Pending' <=> Pending \/ done
  BY DEF Ground, EuClears, EuClear, Clear, SetEntry
<1>3. IInv /\ Typed /\ Typed'
  BY DEF Ground
<1>4. BootInv' /\ CallInv'
  BY <1>1, <1>3 DEF IInv, SetEntry, Typed, Flags, Numbers, Places
<1>5. WaitInv'
  BY <1>1, <1>3 DEF IInv, SetEntry, Typed, Flags, Numbers, Places
<1>6. JoinInv' /\ IdleInv'
  BY <1>1, <1>3 DEF IInv, SetEntry, Typed, Flags, Numbers, Places
<1>7. DataInv' /\ MepcInv'
  BY <1>1, <1>3 DEF IInv, SetEntry, Typed, Flags, Numbers, Places
<1> QED
  BY <1>4, <1>5, <1>6, <1>7 DEF PhasesInv

LEMMA ClkEnStep ==
  ASSUME Ground, ~Overlap, ClkEn
  PROVE  PhasesInv'
<1>1. Pending' <=> Pending \/ done
  BY DEF Ground, EuClears, EuClear, Clear, ClkEn
<1>3. IInv /\ Typed /\ Typed'
  BY DEF Ground
<1>4. BootInv' /\ CallInv'
  BY <1>1, <1>3 DEF IInv, ClkEn, Typed, Flags, Numbers, Places
<1>5. WaitInv'
  BY <1>1, <1>3 DEF IInv, ClkEn, Typed, Flags, Numbers, Places
<1>6. JoinInv' /\ IdleInv'
  BY <1>1, <1>3 DEF IInv, ClkEn, Typed, Flags, Numbers, Places
<1>7. DataInv' /\ MepcInv'
  BY <1>1, <1>3 DEF IInv, ClkEn, Typed, Flags, Numbers, Places
<1> QED
  BY <1>4, <1>5, <1>6, <1>7 DEF PhasesInv

LEMMA PollReadyStep ==
  ASSUME Ground, ~Overlap, PollReady
  PROVE  PhasesInv'
<1>1. Pending' <=> Pending \/ done
  BY DEF Ground, EuClears, EuClear, Clear, PollReady
<1>3. IInv /\ Typed /\ Typed'
  BY DEF Ground
<1>4. BootInv' /\ CallInv'
  BY <1>1, <1>3 DEF IInv, PollReady, Typed, Flags, Numbers, Places
<1>5. WaitInv'
  BY <1>1, <1>3 DEF IInv, PollReady, Typed, Flags, Numbers, Places
<1>6. JoinInv' /\ IdleInv'
  BY <1>1, <1>3 DEF IInv, PollReady, Typed, Flags, Numbers, Places
<1>7. DataInv' /\ MepcInv'
  BY <1>1, <1>3 DEF IInv, PollReady, Typed, Flags, Numbers, Places
<1> QED
  BY <1>4, <1>5, <1>6, <1>7 DEF PhasesInv

LEMMA UseOtherStep ==
  ASSUME Ground, ~Overlap, UseOther
  PROVE  PhasesInv'
<1>1. Pending' <=> Pending \/ done
  BY DEF Ground, EuClears, EuClear, Clear, UseOther
<1>3. IInv /\ Typed /\ Typed'
  BY DEF Ground
<1>4. BootInv' /\ CallInv'
  BY <1>1, <1>3 DEF IInv, UseOther, Typed, Flags, Numbers, Places
<1>5. WaitInv'
  BY <1>1, <1>3 DEF IInv, UseOther, Typed, Flags, Numbers, Places
<1>6. JoinInv' /\ IdleInv'
  BY <1>1, <1>3 DEF IInv, UseOther, Typed, Flags, Numbers, Places
<1>7. DataInv' /\ MepcInv'
  BY <1>1, <1>3 DEF IInv, UseOther, Typed, Flags, Numbers, Places
<1> QED
  BY <1>4, <1>5, <1>6, <1>7 DEF PhasesInv

LEMMA ClkDisStep ==
  ASSUME Ground, ~Overlap, ClkDis
  PROVE  PhasesInv'
<1>1. Pending' <=> Pending \/ done
  BY DEF Ground, EuClears, EuClear, Clear, ClkDis
<1>3. IInv /\ Typed /\ Typed'
  BY DEF Ground
<1>4. BootInv' /\ CallInv'
  BY <1>1, <1>3 DEF IInv, ClkDis, Typed, Flags, Numbers, Places
<1>5. WaitInv'
  BY <1>1, <1>3 DEF IInv, ClkDis, Typed, Flags, Numbers, Places
<1>6. JoinInv' /\ IdleInv'
  BY <1>1, <1>3 DEF IInv, ClkDis, Typed, Flags, Numbers, Places
<1>7. DataInv' /\ MepcInv'
  BY <1>1, <1>3 DEF IInv, ClkDis, Typed, Flags, Numbers, Places
<1> QED
  BY <1>4, <1>5, <1>6, <1>7 DEF PhasesInv

LEMMA ClkEnAgainStep ==
  ASSUME Ground, ~Overlap, ClkEnAgain
  PROVE  PhasesInv'
<1>1. Pending' <=> Pending \/ done
  BY DEF Ground, EuClears, EuClear, Clear, ClkEnAgain
<1>3. IInv /\ Typed /\ Typed'
  BY DEF Ground
<1>4. BootInv' /\ CallInv'
  BY <1>1, <1>3 DEF IInv, ClkEnAgain, Typed, Flags, Numbers, Places
<1>5. WaitInv'
  BY <1>1, <1>3 DEF IInv, ClkEnAgain, Typed, Flags, Numbers, Places
<1>6. JoinInv' /\ IdleInv'
  BY <1>1, <1>3 DEF IInv, ClkEnAgain, Typed, Flags, Numbers, Places
<1>7. DataInv' /\ MepcInv'
  BY <1>1, <1>3 DEF IInv, ClkEnAgain, Typed, Flags, Numbers, Places
<1> QED
  BY <1>4, <1>5, <1>6, <1>7 DEF PhasesInv

LEMMA DispatchStep ==
  ASSUME Ground, ~Overlap, Dispatch
  PROVE  PhasesInv'
<1>1. Pending' <=> Pending \/ done
  BY DEF Ground, EuClears, EuClear, Clear, Dispatch
<1>3. IInv /\ Typed /\ Typed'
  BY DEF Ground
<1>4. BootInv' /\ CallInv'
  BY <1>1, <1>3 DEF IInv, Dispatch, Typed, Flags, Numbers, Places
<1>5. WaitInv'
  BY <1>1, <1>3 DEF IInv, Dispatch, Typed, Flags, Numbers, Places
<1>6. JoinInv' /\ IdleInv'
  BY <1>1, <1>3 DEF IInv, Dispatch, Typed, Flags, Numbers, Places
<1>7. DataInv' /\ MepcInv'
  BY <1>1, <1>3 DEF IInv, Dispatch, Typed, Flags, Numbers, Places
<1> QED
  BY <1>4, <1>5, <1>6, <1>7 DEF PhasesInv

LEMMA SetFuncStep ==
  ASSUME Ground, ~Overlap, SetFunc
  PROVE  PhasesInv'
<1>1. Pending' <=> Pending \/ done
  BY DEF Ground, EuClears, EuClear, Clear, SetFunc
<1>3. IInv /\ Typed /\ Typed'
  BY DEF Ground
<1>4. BootInv' /\ CallInv'
  BY <1>1, <1>3 DEF IInv, SetFunc, Typed, Flags, Numbers, Places
<1>5. WaitInv'
  BY <1>1, <1>3 DEF IInv, SetFunc, Typed, Flags, Numbers, Places
<1>6. JoinInv' /\ IdleInv'
  BY <1>1, <1>3 DEF IInv, SetFunc, Typed, Flags, Numbers, Places
<1>7. DataInv' /\ MepcInv'
  BY <1>1, <1>3 DEF IInv, SetFunc, Typed, Flags, Numbers, Places
<1> QED
  BY <1>4, <1>5, <1>6, <1>7 DEF PhasesInv

LEMMA StartStep ==
  ASSUME Ground, ~Overlap, Start
  PROVE  PhasesInv'
<1>1. Pending' <=> Pending \/ done
  BY DEF Ground, EuClears, EuClear, Clear, Start
<1>3. IInv /\ Typed /\ Typed'
  BY DEF Ground
<1>4. BootInv' /\ CallInv'
  BY <1>1, <1>3 DEF IInv, Start, Typed, Flags, Numbers, Places
<1>5. WaitInv'
  BY <1>1, <1>3 DEF IInv, Start, Typed, Flags, Numbers, Places
<1>6. JoinInv' /\ IdleInv'
  BY <1>1, <1>3 DEF IInv, Start, Typed, Flags, Numbers, Places
<1>7. DataInv' /\ MepcInv'
  BY <1>1, <1>3 DEF IInv, Start, Typed, Flags, Numbers, Places
<1> QED
  BY <1>4, <1>5, <1>6, <1>7 DEF PhasesInv

LEMMA PollStartStep ==
  ASSUME Ground, ~Overlap, PollStart
  PROVE  PhasesInv'
<1>1. Pending' <=> Pending \/ done
  BY DEF Ground, EuClears, EuClear, Clear, PollStart
<1>3. IInv /\ Typed /\ Typed'
  BY DEF Ground
<1>4. BootInv' /\ CallInv'
  BY <1>1, <1>3 DEF IInv, PollStart, Typed, Flags, Numbers, Places
<1>5. WaitInv'
  BY <1>1, <1>3 DEF IInv, PollStart, Typed, Flags, Numbers, Places
<1>6. JoinInv' /\ IdleInv'
  BY <1>1, <1>3 DEF IInv, PollStart, Typed, Flags, Numbers, Places
<1>7. DataInv' /\ MepcInv'
  BY <1>1, <1>3 DEF IInv, PollStart, Typed, Flags, Numbers, Places
<1> QED
  BY <1>4, <1>5, <1>6, <1>7 DEF PhasesInv

LEMMA WaitStep ==
  ASSUME Ground, ~Overlap, Wait
  PROVE  PhasesInv'
<1>1. Pending' <=> Pending \/ done
  BY DEF Ground, EuClears, EuClear, Clear, Wait
<1>3. IInv /\ Typed /\ Typed'
  BY DEF Ground
<1>4. BootInv' /\ CallInv'
  BY <1>1, <1>3 DEF IInv, Wait, Typed, Flags, Numbers, Places
<1>5. WaitInv'
  BY <1>1, <1>3 DEF IInv, Wait, Typed, Flags, Numbers, Places
<1>6. JoinInv' /\ IdleInv'
  BY <1>1, <1>3 DEF IInv, Wait, Typed, Flags, Numbers, Places
<1>7. DataInv' /\ MepcInv'
  BY <1>1, <1>3 DEF IInv, Wait, Typed, Flags, Numbers, Places
<1> QED
  BY <1>4, <1>5, <1>6, <1>7 DEF PhasesInv

LEMMA CheckSeesStep ==
  ASSUME Ground, ~Overlap, CheckSees
  PROVE  PhasesInv'
<1>1. Pending' <=> Pending \/ done
  BY DEF Ground, EuClears, EuClear, Clear, CheckSees
<1>2. Pending
  BY DEF CheckSees, EuSees, EuMasked, Pending
<1>3. IInv /\ Typed /\ Typed'
  BY DEF Ground
<1>4. BootInv' /\ CallInv'
  BY <1>1, <1>3 DEF IInv, CheckSees, Typed, Flags, Numbers, Places
<1>5. WaitInv'
  BY <1>1, <1>3, <1>2 DEF IInv, CheckSees, Typed, Flags, Numbers, Places
<1>6. JoinInv' /\ IdleInv'
  BY <1>1, <1>3, <1>2 DEF IInv, CheckSees, Typed, Flags, Numbers, Places
<1>7. DataInv' /\ MepcInv'
  BY <1>1, <1>3 DEF IInv, CheckSees, Typed, Flags, Numbers, Places
<1> QED
  BY <1>4, <1>5, <1>6, <1>7 DEF PhasesInv

LEMMA CheckNotStep ==
  ASSUME Ground, ~Overlap, CheckNot
  PROVE  PhasesInv'
<1>1. Pending' <=> Pending \/ done
  BY DEF Ground, EuClears, EuClear, Clear, CheckNot
<1>3. IInv /\ Typed /\ Typed'
  BY DEF Ground
<1>4. BootInv' /\ CallInv'
  BY <1>1, <1>3 DEF IInv, CheckNot, Typed, Flags, Numbers, Places
<1>5. WaitInv'
  BY <1>1, <1>3 DEF IInv, CheckNot, Typed, Flags, Numbers, Places
<1>6. JoinInv' /\ IdleInv'
  BY <1>1, <1>3 DEF IInv, CheckNot, Typed, Flags, Numbers, Places
<1>7. DataInv' /\ MepcInv'
  BY <1>1, <1>3 DEF IInv, CheckNot, Typed, Flags, Numbers, Places
<1> QED
  BY <1>4, <1>5, <1>6, <1>7 DEF PhasesInv

LEMMA EvtWaitStep ==
  ASSUME Ground, ~Overlap, EvtWait
  PROVE  PhasesInv'
<1>1. Pending' <=> Pending \/ done
  BY DEF Ground, EuClears, EuClear, Clear, EvtWait
<1>3. IInv /\ Typed /\ Typed'
  BY DEF Ground
<1>4. BootInv' /\ CallInv'
  BY <1>1, <1>3 DEF IInv, EvtWait, Typed, Flags, Numbers, Places
<1>5. WaitInv'
  BY <1>1, <1>3 DEF IInv, EvtWait, Typed, Flags, Numbers, Places
<1>6. JoinInv' /\ IdleInv'
  BY <1>1, <1>3 DEF IInv, EvtWait, Typed, Flags, Numbers, Places
<1>7. DataInv' /\ MepcInv'
  BY <1>1, <1>3 DEF IInv, EvtWait, Typed, Flags, Numbers, Places
<1> QED
  BY <1>4, <1>5, <1>6, <1>7 DEF PhasesInv

LEMMA ClearStep ==
  ASSUME Ground, ~Overlap, Clear
  PROVE  PhasesInv'
<1>1. ~Pending'
  BY DEF Ground, EuClears
<1>3. IInv /\ Typed /\ Typed'
  BY DEF Ground
<1>4. BootInv' /\ CallInv'
  BY <1>1, <1>3 DEF IInv, Clear, Typed, Flags, Numbers, Places
<1>5. WaitInv'
  BY <1>1, <1>3 DEF IInv, Clear, Typed, Flags, Numbers, Places
<1>6. JoinInv' /\ IdleInv'
  BY <1>1, <1>3 DEF IInv, Clear, Typed, Flags, Numbers, Places
<1>7. DataInv' /\ MepcInv'
  BY <1>1, <1>3 DEF IInv, Clear, Typed, Flags, Numbers, Places
<1> QED
  BY <1>4, <1>5, <1>6, <1>7 DEF PhasesInv

LEMMA ReadCodeStep ==
  ASSUME Ground, ~Overlap, ReadCode
  PROVE  PhasesInv'
<1>1. Pending' <=> Pending \/ done
  BY DEF Ground, EuClears, EuClear, Clear, ReadCode
<1>3. IInv /\ Typed /\ Typed'
  BY DEF Ground
<1>4. BootInv' /\ CallInv'
  BY <1>1, <1>3 DEF IInv, ReadCode, Typed, Flags, Numbers, Places
<1>5. WaitInv'
  BY <1>1, <1>3 DEF IInv, ReadCode, Typed, Flags, Numbers, Places
<1>6. JoinInv' /\ IdleInv'
  BY <1>1, <1>3 DEF IInv, ReadCode, Typed, Flags, Numbers, Places
<1>7. DataInv' /\ MepcInv'
  BY <1>1, <1>3 DEF IInv, ReadCode, Typed, Flags, Numbers, Places
<1> QED
  BY <1>4, <1>5, <1>6, <1>7 DEF PhasesInv

LEMMA BootRomStep ==
  ASSUME Ground, ~Overlap, BootRom
  PROVE  PhasesInv'
<1>1. Pending' <=> Pending \/ done
  BY DEF Ground, EuClears, EuClear, Clear, BootRom
<1>3. IInv /\ Typed /\ Typed'
  BY DEF Ground
<1>4. BootInv' /\ CallInv'
  BY <1>1, <1>3 DEF IInv, BootRom, Typed, Flags, Numbers, Places
<1>5. WaitInv'
  BY <1>1, <1>3 DEF IInv, BootRom, Typed, Flags, Numbers, Places
<1>6. JoinInv' /\ IdleInv'
  BY <1>1, <1>3 DEF IInv, BootRom, Typed, Flags, Numbers, Places
<1>7. DataInv' /\ MepcInv'
  BY <1>1, <1>3 DEF IInv, BootRom, Typed, Flags, Numbers, Places
<1> QED
  BY <1>4, <1>5, <1>6, <1>7 DEF PhasesInv

LEMMA SetReadyStep ==
  ASSUME Ground, ~Overlap, SetReady
  PROVE  PhasesInv'
<1>1. Pending' <=> Pending \/ done
  BY DEF Ground, EuClears, EuClear, Clear, SetReady
<1>3. IInv /\ Typed /\ Typed'
  BY DEF Ground
<1>4. BootInv' /\ CallInv'
  BY <1>1, <1>3 DEF IInv, SetReady, Typed, Flags, Numbers, Places
<1>5. WaitInv'
  BY <1>1, <1>3 DEF IInv, SetReady, Typed, Flags, Numbers, Places
<1>6. JoinInv' /\ IdleInv'
  BY <1>1, <1>3 DEF IInv, SetReady, Typed, Flags, Numbers, Places
<1>7. DataInv' /\ MepcInv'
  BY <1>1, <1>3 DEF IInv, SetReady, Typed, Flags, Numbers, Places
<1> QED
  BY <1>4, <1>5, <1>6, <1>7 DEF PhasesInv

LEMMA ClearReadyStep ==
  ASSUME Ground, ~Overlap, ClearReady
  PROVE  PhasesInv'
<1>1. Pending' <=> Pending \/ done
  BY DEF Ground, EuClears, EuClear, Clear, ClearReady
<1>3. IInv /\ Typed /\ Typed'
  BY DEF Ground
<1>4. BootInv' /\ CallInv'
  BY <1>1, <1>3 DEF IInv, ClearReady, Typed, Flags, Numbers, Places
<1>5. WaitInv'
  BY <1>1, <1>3 DEF IInv, ClearReady, Typed, Flags, Numbers, Places
<1>6. JoinInv' /\ IdleInv'
  BY <1>1, <1>3 DEF IInv, ClearReady, Typed, Flags, Numbers, Places
<1>7. DataInv' /\ MepcInv'
  BY <1>1, <1>3 DEF IInv, ClearReady, Typed, Flags, Numbers, Places
<1> QED
  BY <1>4, <1>5, <1>6, <1>7 DEF PhasesInv

LEMMA TakeIrqStep ==
  ASSUME Ground, ~Overlap, TakeIrq
  PROVE  PhasesInv'
<1>1. Pending' <=> Pending \/ done
  BY DEF Ground, EuClears, EuClear, Clear, TakeIrq
<1>3. IInv /\ Typed /\ Typed'
  BY DEF Ground
<1>4. BootInv' /\ CallInv'
  BY <1>1, <1>3 DEF IInv, TakeIrq, Typed, Flags, Numbers, Places
<1>5. WaitInv'
  BY <1>1, <1>3 DEF IInv, TakeIrq, Typed, Flags, Numbers, Places
<1>6. JoinInv' /\ IdleInv'
  BY <1>1, <1>3 DEF IInv, TakeIrq, Typed, Flags, Numbers, Places
<1>7. DataInv' /\ MepcInv'
  BY <1>1, <1>3 DEF IInv, TakeIrq, Typed, Flags, Numbers, Places
<1> QED
  BY <1>4, <1>5, <1>6, <1>7 DEF PhasesInv

LEMMA ReadTaskStep ==
  ASSUME Ground, ~Overlap, ReadTask
  PROVE  PhasesInv'
<1>1. Pending' <=> Pending \/ done
  BY DEF Ground, EuClears, EuClear, Clear, ReadTask
<1>3. IInv /\ Typed /\ Typed'
  BY DEF Ground
<1>4. BootInv' /\ CallInv'
  BY <1>1, <1>3 DEF IInv, ReadTask, Typed, Flags, Numbers, Places
<1>5. WaitInv'
  BY <1>1, <1>3 DEF IInv, ReadTask, Typed, Flags, Numbers, Places
<1>6. JoinInv' /\ IdleInv'
  BY <1>1, <1>3 DEF IInv, ReadTask, Typed, Flags, Numbers, Places
<1>7. DataInv' /\ MepcInv'
  BY <1>1, <1>3 DEF IInv, ReadTask, Typed, Flags, Numbers, Places
<1> QED
  BY <1>4, <1>5, <1>6, <1>7 DEF PhasesInv

LEMMA ClearStartStep ==
  ASSUME Ground, ~Overlap, ClearStart
  PROVE  PhasesInv'
<1>1. Pending' <=> Pending \/ done
  BY DEF Ground, EuClears, EuClear, Clear, ClearStart
<1>3. IInv /\ Typed /\ Typed'
  BY DEF Ground
<1>4. BootInv' /\ CallInv'
  BY <1>1, <1>3 DEF IInv, ClearStart, Typed, Flags, Numbers, Places
<1>5. WaitInv'
  BY <1>1, <1>3 DEF IInv, ClearStart, Typed, Flags, Numbers, Places
<1>6. JoinInv' /\ IdleInv'
  BY <1>1, <1>3 DEF IInv, ClearStart, Typed, Flags, Numbers, Places
<1>7. DataInv' /\ MepcInv'
  BY <1>1, <1>3 DEF IInv, ClearStart, Typed, Flags, Numbers, Places
<1> QED
  BY <1>4, <1>5, <1>6, <1>7 DEF PhasesInv

LEMMA CallStep ==
  ASSUME Ground, ~Overlap, Call
  PROVE  PhasesInv'
<1>1. Pending' <=> Pending \/ done
  BY DEF Ground, EuClears, EuClear, Clear, Call
<1>3. IInv /\ Typed /\ Typed'
  BY DEF Ground
<1>4. BootInv' /\ CallInv'
  BY <1>1, <1>3 DEF IInv, Call, Typed, Flags, Numbers, Places
<1>5. WaitInv'
  BY <1>1, <1>3 DEF IInv, Call, Typed, Flags, Numbers, Places
<1>6. JoinInv' /\ IdleInv'
  BY <1>1, <1>3 DEF IInv, Call, Typed, Flags, Numbers, Places
<1>7. DataInv' /\ MepcInv'
  BY <1>1, <1>3 DEF IInv, Call, Typed, Flags, Numbers, Places
<1> QED
  BY <1>4, <1>5, <1>6, <1>7 DEF PhasesInv

LEMMA ReturnStep ==
  ASSUME Ground, ~Overlap, Return
  PROVE  PhasesInv'
<1>1. Pending' <=> Pending \/ done
  BY DEF Ground, EuClears, EuClear, Clear, Return
<1>3. IInv /\ Typed /\ Typed'
  BY DEF Ground
<1>4. BootInv' /\ CallInv'
  BY <1>1, <1>3 DEF IInv, Return, Typed, Flags, Numbers, Places
<1>5. WaitInv'
  BY <1>1, <1>3 DEF IInv, Return, Typed, Flags, Numbers, Places
<1>6. JoinInv' /\ IdleInv'
  BY <1>1, <1>3 DEF IInv, Return, Typed, Flags, Numbers, Places
<1>7. DataInv' /\ MepcInv'
  BY <1>1, <1>3 DEF IInv, Return, Typed, Flags, Numbers, Places
<1> QED
  BY <1>4, <1>5, <1>6, <1>7 DEF PhasesInv

LEMMA TrapStep ==
  ASSUME Ground, ~Overlap, Trap
  PROVE  PhasesInv'
<1>1. Pending' <=> Pending \/ done
  BY DEF Ground, EuClears, EuClear, Clear, Trap
<1>3. IInv /\ Typed /\ Typed'
  BY DEF Ground
<1>4. BootInv' /\ CallInv'
  BY <1>1, <1>3 DEF IInv, Trap, Typed, Flags, Numbers, Places
<1>5. WaitInv'
  BY <1>1, <1>3 DEF IInv, Trap, Typed, Flags, Numbers, Places
<1>6. JoinInv' /\ IdleInv'
  BY <1>1, <1>3 DEF IInv, Trap, Typed, Flags, Numbers, Places
<1>7. DataInv' /\ MepcInv'
  BY <1>1, <1>3 DEF IInv, Trap, Typed, Flags, Numbers, Places
<1> QED
  BY <1>4, <1>5, <1>6, <1>7 DEF PhasesInv

LEMMA WrReturnStep ==
  ASSUME Ground, ~Overlap, WrReturn
  PROVE  PhasesInv'
<1>1. Pending' <=> Pending \/ done
  BY DEF Ground, EuClears, EuClear, Clear, WrReturn
<1>3. IInv /\ Typed /\ Typed'
  BY DEF Ground
<1>4. BootInv' /\ CallInv'
  BY <1>1, <1>3 DEF IInv, WrReturn, Typed, Flags, Numbers, Places
<1>5. WaitInv'
  BY <1>1, <1>3 DEF IInv, WrReturn, Typed, Flags, Numbers, Places
<1>6. JoinInv' /\ IdleInv'
  BY <1>1, <1>3 DEF IInv, WrReturn, Typed, Flags, Numbers, Places
<1>7. DataInv' /\ MepcInv'
  BY <1>1, <1>3 DEF IInv, WrReturn, Typed, Flags, Numbers, Places
<1> QED
  BY <1>4, <1>5, <1>6, <1>7 DEF PhasesInv

LEMMA WrDoneStep ==
  ASSUME Ground, ~Overlap, WrDone
  PROVE  PhasesInv'
<1>1. Pending' <=> Pending \/ done
  BY DEF Ground, EuClears, EuClear, Clear, WrDone
<1>3. IInv /\ Typed /\ Typed'
  BY DEF Ground
<1>4. BootInv' /\ CallInv'
  BY <1>1, <1>3 DEF IInv, WrDone, Typed, Flags, Numbers, Places
<1>5. WaitInv'
  BY <1>1, <1>3 DEF IInv, WrDone, Typed, Flags, Numbers, Places
<1>6. JoinInv' /\ IdleInv'
  BY <1>1, <1>3 DEF IInv, WrDone, Typed, Flags, Numbers, Places
<1>7. DataInv' /\ MepcInv'
  BY <1>1, <1>3 DEF IInv, WrDone, Typed, Flags, Numbers, Places
<1> QED
  BY <1>4, <1>5, <1>6, <1>7 DEF PhasesInv

LEMMA MretStep ==
  ASSUME Ground, ~Overlap, Mret
  PROVE  PhasesInv'
<1>1. Pending' <=> Pending \/ done
  BY DEF Ground, EuClears, EuClear, Clear, Mret
<1>3. IInv /\ Typed /\ Typed'
  BY DEF Ground
<1>4. BootInv' /\ CallInv'
  BY <1>1, <1>3 DEF IInv, Mret, Typed, Flags, Numbers, Places
<1>5. WaitInv'
  BY <1>1, <1>3 DEF IInv, Mret, Typed, Flags, Numbers, Places
<1>6. JoinInv' /\ IdleInv'
  BY <1>1, <1>3 DEF IInv, Mret, Typed, Flags, Numbers, Places
<1>7. DataInv' /\ MepcInv'
  BY <1>1, <1>3 DEF IInv, Mret, Typed, Flags, Numbers, Places
<1> QED
  BY <1>4, <1>5, <1>6, <1>7 DEF PhasesInv

LEMMA TrappedStep ==
  ASSUME Ground, ~Overlap, Trapped
  PROVE  PhasesInv'
<1>1. Pending' <=> Pending \/ done
  BY DEF Ground, EuClears, EuClear, Clear, Trapped
<1>3. IInv /\ Typed /\ Typed'
  BY DEF Ground
<1>4. BootInv' /\ CallInv'
  BY <1>1, <1>3 DEF IInv, Trapped, Typed, Flags, Numbers, Places
<1>5. WaitInv'
  BY <1>1, <1>3 DEF IInv, Trapped, Typed, Flags, Numbers, Places
<1>6. JoinInv' /\ IdleInv'
  BY <1>1, <1>3 DEF IInv, Trapped, Typed, Flags, Numbers, Places
<1>7. DataInv' /\ MepcInv'
  BY <1>1, <1>3 DEF IInv, Trapped, Typed, Flags, Numbers, Places
<1> QED
  BY <1>4, <1>5, <1>6, <1>7 DEF PhasesInv

LEMMA TrapDoneStep ==
  ASSUME Ground, ~Overlap, TrapDone
  PROVE  PhasesInv'
<1>1. Pending' <=> Pending \/ done
  BY DEF Ground, EuClears, EuClear, Clear, TrapDone
<1>3. IInv /\ Typed /\ Typed'
  BY DEF Ground
<1>4. BootInv' /\ CallInv'
  BY <1>1, <1>3 DEF IInv, TrapDone, Typed, Flags, Numbers, Places
<1>5. WaitInv'
  BY <1>1, <1>3 DEF IInv, TrapDone, Typed, Flags, Numbers, Places
<1>6. JoinInv' /\ IdleInv'
  BY <1>1, <1>3 DEF IInv, TrapDone, Typed, Flags, Numbers, Places
<1>7. DataInv' /\ MepcInv'
  BY <1>1, <1>3 DEF IInv, TrapDone, Typed, Flags, Numbers, Places
<1> QED
  BY <1>4, <1>5, <1>6, <1>7 DEF PhasesInv

LEMMA IdleStep ==
  ASSUME Ground, ~Overlap, Idle
  PROVE  PhasesInv'
<1>1. Pending' <=> Pending \/ done
  BY DEF Ground, EuClears, EuClear, Clear, Idle
<1>3. IInv /\ Typed /\ Typed'
  BY DEF Ground
<1>4. BootInv' /\ CallInv'
  BY <1>1, <1>3 DEF IInv, Idle, Typed, Flags, Numbers, Places
<1>5. WaitInv'
  BY <1>1, <1>3 DEF IInv, Idle, Typed, Flags, Numbers, Places
<1>6. JoinInv' /\ IdleInv'
  BY <1>1, <1>3 DEF IInv, Idle, Typed, Flags, Numbers, Places
<1>7. DataInv' /\ MepcInv'
  BY <1>1, <1>3 DEF IInv, Idle, Typed, Flags, Numbers, Places
<1> QED
  BY <1>4, <1>5, <1>6, <1>7 DEF PhasesInv

LEMMA OtherEventStep ==
  ASSUME Ground, ~Overlap, OtherEvent
  PROVE  PhasesInv'
<1>1. Pending' <=> Pending \/ done
  BY DEF Ground, EuClears, EuClear, Clear, OtherEvent
<1>3. IInv /\ Typed /\ Typed'
  BY DEF Ground
<1>4. BootInv' /\ CallInv'
  BY <1>1, <1>3 DEF IInv, OtherEvent, Typed, Flags, Numbers, Places
<1>5. WaitInv'
  BY <1>1, <1>3 DEF IInv, OtherEvent, Typed, Flags, Numbers, Places
<1>6. JoinInv' /\ IdleInv'
  BY <1>1, <1>3 DEF IInv, OtherEvent, Typed, Flags, Numbers, Places
<1>7. DataInv' /\ MepcInv'
  BY <1>1, <1>3 DEF IInv, OtherEvent, Typed, Flags, Numbers, Places
<1> QED
  BY <1>4, <1>5, <1>6, <1>7 DEF PhasesInv

-----------------------------------------------------------------------------
(* The invariant.                                                          *)

LEMMA Unchanged ==
  ASSUME IInv, UNCHANGED vars
  PROVE  IInv'
<1>1. TypeOK'
  BY DEF IInv, vars, euVars, TypeOK, EuTypeOK
<1> QED
  BY <1>1 DEF IInv, vars, euVars, Pending

LEMMA InitInv == ASSUME Init PROVE IInv
<1>1. Flags
  BY DEF Init, Flags
<1>2. Numbers
  BY DEF Init, Numbers
<1>3. Places /\ EuTypeOK
  BY DEF Init, EuInit, Places, EuTypeOK
<1>4. TypeOK
  BY <1>1, <1>2, <1>3, TypesTyped DEF Typed
<1> QED
  BY <1>4 DEF Init, EuInit, IInv, Pending

LEMMA NextStep ==
  ASSUME ~Overlap, IInv, [Next]_vars
  PROVE  IInv'
<1>1. CASE Next
  <2>1. Ground /\ EuTypeOK'
    BY <1>1, EventStep, TypesStep, TypesTyped DEF Ground, IInv
  <2>2. PhasesInv'
    <3>1. CASE Main
      BY <2>1, <3>1, EuClearStep, EuMaskStep, EuEnableStep, SetEntryStep,
         ClkEnStep,
         PollReadyStep, UseOtherStep, ClkDisStep, ClkEnAgainStep,
         DispatchStep, SetFuncStep, StartStep, PollStartStep, WaitStep,
         CheckSeesStep, CheckNotStep, EvtWaitStep, ClearStep, ReadCodeStep
         DEF Main, MainInCall
    <3>2. CASE Spatz \/ Idle \/ OtherEvent
      BY <2>1, <3>2, BootRomStep, SetReadyStep, ClearReadyStep, TakeIrqStep,
         ReadTaskStep, ClearStartStep, CallStep, ReturnStep, TrapStep,
         WrReturnStep, WrDoneStep, MretStep, TrappedStep, TrapDoneStep,
         IdleStep, OtherEventStep
         DEF Spatz
    <3> QED
      BY <1>1, <3>1, <3>2 DEF Next
  <2> QED
    BY <2>1, <2>2, TypesTyped DEF Ground, PhasesInv, IInv
<1>2. CASE UNCHANGED vars
  BY <1>2, Unchanged
<1> QED
  BY <1>1, <1>2

\* As long as every task is waited for before the next one is dispatched, the
\* inductive invariant holds: the phase of the program's call, the Spatz core's
\* place, START, TASKBIN, the event and the exit code fit together.
THEOREM InvariantHolds ==
  ASSUME ~Overlap
  PROVE  Spec => []IInv
<1>1. Init => IInv
  BY InitInv
<1>2. IInv /\ [Next]_vars => IInv'
  BY NextStep
<1> QED
  BY <1>1, <1>2, PTL DEF Spec

\* Types; the runtime never takes a null TASKBIN or its own address for a task.
THEOREM TypeCorrect ==
  ASSUME ~Overlap
  PROVE  Spec => []TypeOK
<1>1. IInv => TypeOK
  BY DEF IInv
<1> QED
  BY <1>1, InvariantHolds, PTL

\* START reads as 0 only after the handler has read this dispatch's task: the
\* return of spatz_run_task is the acknowledgement it is taken for.
THEOREM StartAcknowledges ==
  ASSUME ~Overlap
  PROVE  Spec => []StartClearsLate
<1>1. IInv => StartClearsLate
  BY DEF IInv, StartClearsLate
<1> QED
  BY <1>1, InvariantHolds, PTL

\* A task works on parameters that were in DATA when it was dispatched.
THEOREM ParamsAreOwn ==
  ASSUME ~Overlap
  PROVE  Spec => []ParamsOwn
<1>1. IInv => ParamsOwn
  <2> SUFFICES ASSUME IInv, spc = "task"
               PROVE  params <= t1
    BY DEF ParamsOwn
  <2>1. Flags /\ Numbers /\ Places
    BY TypesTyped DEF IInv, Typed
  <2>2. t1 = epoch
    BY <2>1 DEF IInv, Places, MainPc, Busy
  <2> QED
    BY <2>2 DEF IInv
<1> QED
  BY <1>1, InvariantHolds, PTL

\* The program reads the exception's code exactly when its task raised one.
THEOREM ExceptionIsReported ==
  ASSUME ~Overlap
  PROVE  Spec => []ExceptionReported
<1>1. IInv => ExceptionReported
  BY DEF IInv, ExceptionReported
<1> QED
  BY <1>1, InvariantHolds, PTL

-----------------------------------------------------------------------------
(* The refinement.                                                         *)

team == IF ran # epoch THEN {"spatz"} ELSE {}

LEMMA ForkStep ==
  ASSUME IInv, Dispatch, ~Overlap
  PROVE  FJ!Fork({"spatz"})
<1>1. Flags /\ Numbers /\ Places
  BY TypesTyped DEF IInv, Typed
<1>2. mpc = "idle" /\ mpc' = "set_func" /\ epoch' = epoch + 1 /\ epoch < MaxDispatch
  BY DEF Dispatch
<1>3. ran' = epoch
  BY <1>2 DEF Dispatch, IInv
<1>4. team' = {"spatz"}
  BY <1>1, <1>2, <1>3 DEF team, Numbers
<1> QED
  BY <1>2, <1>4 DEF FJ!Fork, Busy, team

LEMMA FinishStep ==
  ASSUME IInv, Return \/ Trap
  PROVE  FJ!Finish("spatz")
<1>1. Flags /\ Numbers /\ Places
  BY TypesTyped DEF IInv, Typed
<1>2. Running /\ mpc \in Waiting
  BY <1>1 DEF Return, Trap, IInv, Places, MainPc, Busy
<1>3. ran' = epoch /\ epoch' = epoch /\ mpc' = mpc
  BY <1>2 DEF Return, Trap
<1>4. team = {"spatz"} /\ team' = {}
  BY <1>2, <1>3 DEF team
<1> QED
  BY <1>2, <1>3, <1>4 DEF FJ!Finish, Busy, team

LEMMA JoinStep ==
  ASSUME IInv, ReadCode
  PROVE  FJ!Join
BY DEF ReadCode, IInv, FJ!Join, Busy

\* Everything else changes neither the round, nor the call's phase, nor what
\* is left to do.
LEMMA OtherSteps ==
  ASSUME IInv, Next, ~Dispatch, ~Return, ~Trap, ~ReadCode
  PROVE  UNCHANGED <<epoch, mpc \in Busy, ran>>
<1>1. CASE Main
  BY <1>1 DEF Main, MainInCall, EuClear, EuMask, EuEnable, SetEntry, ClkEn,
     PollReady, UseOther,
              ClkDis, ClkEnAgain, SetFunc, Start, PollStart, Wait, CheckSees,
              CheckNot, EvtWait,
              Clear, Busy
<1>2. CASE Spatz
  BY <1>2 DEF Spatz, BootRom, SetReady, ClearReady, TakeIrq, ReadTask,
     ClearStart, Call, WrReturn,
              WrDone, Mret, Trapped, TrapDone
<1> QED
  BY <1>1, <1>2 DEF Next, Idle, OtherEvent

\* The registers, the interrupt, the runtime and the calls implement the safety
\* part of fork and join: no dispatch is run twice or by a stale START, none is
\* joined by another event or before its task has ended.
THEOREM ImplementsFork ==
  ASSUME ~Overlap
  PROVE  Spec => FJ!Safe
<1>1. Init => FJ!Init
  BY DEF Init, FJ!Init, Busy
<1>2. IInv /\ [Next]_vars => [FJ!Next]_FJ!vars
  <2> SUFFICES ASSUME IInv, [Next]_vars
               PROVE  [FJ!Next]_FJ!vars
    OBVIOUS
  <2>1. CASE Dispatch
    BY <2>1, ForkStep DEF FJ!Next
  <2>2. CASE Return \/ Trap
    BY <2>2, FinishStep DEF FJ!Next
  <2>3. CASE ReadCode
    BY <2>3, JoinStep DEF FJ!Next
  <2>4. CASE Next /\ ~Dispatch /\ ~Return /\ ~Trap /\ ~ReadCode
    BY <2>4, OtherSteps DEF FJ!vars
  <2>5. CASE UNCHANGED vars
    BY <2>5 DEF FJ!vars, vars
  <2> QED
    BY <2>1, <2>2, <2>3, <2>4, <2>5
<1> QED
  BY <1>1, <1>2, InvariantHolds, PTL DEF Spec, FJ!Safe
=============================================================================
