-------------------------------- MODULE Idma --------------------------------
(***************************************************************************)
(* The tile's DMA engine as a program sees it: the register decoder        *)
(* (hw/tile/idma_obi_ctrl_decoder.sv), the two transfer channels           *)
(* (idma_ctrl_mm.sv, idma_axi_obi_transfer_ch.sv) and the calls of         *)
(* sw/utils/idma_mm_utils.h, access by access.                             *)
(*                                                                         *)
(* A channel numbers its transfers by itself, queues them and retires them *)
(* in order.  Reading NEXT_ID starts a transfer with the values the        *)
(* registers have at that moment.                                          *)
(***************************************************************************)
EXTENDS Integers, Sequences, FiniteSets

CONSTANTS
  Programs,     \* the programs: the transfers they ask for, the wait
                \* functions they use, and how many transfers of a channel
                \* they start without waiting
  FifoDepth,    \* iDMA_JobFifoDepth
  InFlight,     \* jobs the mid-end and back-end hold at once
  FirstId,      \* the identifier of a channel's first transfer
  MaxCalls,     \* bound on the transfers started
  MaxPolls      \* timeout of idma_mm_wait_for_completion

Dirs == {0, 1}   \* is_l1_to_l2: 0 reads L2, 1 writes L2

ASSUME IdmaAssumption ==
  /\ \A p \in Programs :
       /\ p.pending \in Nat
       /\ p.calls \subseteq [dir : Dirs, collective : BOOLEAN, dst : Nat, src : Nat,
                             size : Nat, dst_stride : Nat, src_stride : Nat,
                             reps : Nat, mask : Nat, op : Nat]
       /\ \A c \in p.calls :
            IF c.collective THEN c.dir = 1 /\ c.dst_stride = 0 /\ c.src_stride = 0 /\ c.reps = 1
            ELSE c.mask = 0 /\ c.op = 0   \* it has one destination
  /\ FifoDepth \in Nat \ {0} /\ InFlight \in Nat \ {0} /\ FirstId \in Nat \ {0}
  /\ MaxCalls \in Nat /\ MaxPolls \in Nat

VARIABLES
  program,   \* the program that runs
  regs,      \* the configuration registers of each channel
  jobs,      \* the transfers of each channel, with their registers, in order
  popped,    \* how many of them have left the job queue
  retired,   \* how many have completed
  pc,        \* where the main core is
  todo,      \* accesses the current call has still to make
  target,    \* the transfer it waits for, <<channel, position>>
  seen,      \* what it has read in this round of the wait
  timeout,   \* its poll counter
  asked,     \* history: the calls that started the transfers
  told       \* history: the transfers a wait reported as complete

channelVars == <<regs, jobs, popped, retired>>
coreVars    == <<pc, todo, target, seen, timeout>>
idmaVars    == <<program, channelVars, coreVars, asked, told>>

-----------------------------------------------------------------------------
(* Registers and addresses, relative to IDMA_BASE.                         *)

CONF           == 0
STATUS         == 4
NEXT_ID        == 68
DONE_ID        == 132
MULTICAST_MASK == 196
COLLECTIVE_SEL == 200
DST_ADDR_LOW   == 208
SRC_ADDR_LOW   == 216
LENGTH_LOW     == 224
DST_STRIDE_2   == 232
SRC_STRIDE_2   == 240
REPS_2         == 248
DST_STRIDE_3   == 256
SRC_STRIDE_3   == 264
REPS_3         == 272

TransferRegs ==
  {CONF, DST_ADDR_LOW, SRC_ADDR_LOW, LENGTH_LOW, DST_STRIDE_2, SRC_STRIDE_2,
   REPS_2, DST_STRIDE_3, SRC_STRIDE_3, REPS_3}
CollectiveRegs == {MULTICAST_MASK, COLLECTIVE_SEL}
ConfigRegs     == TransferRegs \cup CollectiveRegs

DIRECTION_OFFSET == 512

\* The address macros of the API, IDMA_..._ADDR(is_l1_to_l2).
Addr(dir, reg) == dir * DIRECTION_OFFSET + reg

\* The decoder.  Offsets 4 to 64, 68 to 128 and 132 to 192 are the arrays
\* STATUS, NEXT_ID and DONE_ID.
direction(addr)  == IF addr >= DIRECTION_OFFSET THEN 1 ELSE 0
reg_offset(addr) == addr - direction(addr) * DIRECTION_OFFSET

\* Fault: the collective registers are left out of the address check.
is_valid_accessPlain(addr) ==
  /\ addr <= 1023
  /\ \/ reg_offset(addr) \in TransferRegs
     \/ reg_offset(addr) \in (4 .. 64) \cup (68 .. 128) \cup (132 .. 192)
        /\ reg_offset(addr) % 4 = 0

is_valid_access(addr) ==
  /\ addr <= 1023
  /\ \/ reg_offset(addr) \in ConfigRegs
     \/ reg_offset(addr) \in (4 .. 64) \cup (68 .. 128) \cup (132 .. 192)
        /\ reg_offset(addr) % 4 = 0

-----------------------------------------------------------------------------
(* The calls that start a transfer: the accesses each makes, in order.     *)

Write(dir, reg, value) == [addr |-> Addr(dir, reg), we |-> TRUE, wdata |-> value]
ReadOf(dir, reg)       == [addr |-> Addr(dir, reg), we |-> FALSE, wdata |-> 0]

\* The protocols of source and destination and enable_nd = 3.
idma_mm_conf_default_dir(dir) ==
  <<Write(dir, CONF, 3 * 1024 + (IF dir = 1 THEN 2 ^ 12 ELSE 2 ^ 15))>>

idma_mm_set_addr_len_dir(dir, dst, src, length) ==
  <<Write(dir, DST_ADDR_LOW, dst), Write(dir, SRC_ADDR_LOW, src),
    Write(dir, LENGTH_LOW, length)>>

idma_mm_set_2d_params_dir(dir, dst_stride, src_stride, reps) ==
  <<Write(dir, DST_STRIDE_2, dst_stride), Write(dir, SRC_STRIDE_2, src_stride),
    Write(dir, REPS_2, reps)>>

idma_mm_set_3d_params_dir(dir, dst_stride, src_stride, reps) ==
  <<Write(dir, DST_STRIDE_3, dst_stride), Write(dir, SRC_STRIDE_3, src_stride),
    Write(dir, REPS_3, reps)>>

idma_mm_start_transfer_dir(dir) == <<ReadOf(dir, NEXT_ID)>>

\* Fault: a transfer of one dimension leaves the repetitions of the last one.
TransferKeepsReps(c) ==
  idma_mm_conf_default_dir(c.dir)
    \o idma_mm_set_addr_len_dir(c.dir, c.dst, c.src, c.size)
    \o (IF c.reps = 1 THEN <<>>
        ELSE idma_mm_set_2d_params_dir(c.dir, c.dst_stride, c.src_stride, c.reps))
    \o idma_mm_set_3d_params_dir(c.dir, 0, 0, 1)
    \o idma_mm_start_transfer_dir(c.dir)

\* idma_L1ToL2, idma_L2ToL1, idma_L1ToL1_pull and _push, and their forms of
\* two dimensions; those of one dimension have strides 0 and one repetition.
Transfer(c) ==
  idma_mm_conf_default_dir(c.dir)
    \o idma_mm_set_addr_len_dir(c.dir, c.dst, c.src, c.size)
    \o idma_mm_set_2d_params_dir(c.dir, c.dst_stride, c.src_stride, c.reps)
    \o idma_mm_set_3d_params_dir(c.dir, 0, 0, 1)
    \o idma_mm_start_transfer_dir(c.dir)

collective(c) ==
  idma_mm_conf_default_dir(1)
    \o idma_mm_set_addr_len_dir(1, c.dst, c.src, c.size)
    \o idma_mm_set_2d_params_dir(1, 0, 0, 1)
    \o idma_mm_set_3d_params_dir(1, 0, 0, 1)
    \o <<Write(1, MULTICAST_MASK, c.mask), Write(1, COLLECTIVE_SEL, c.op)>>
    \o idma_mm_start_transfer_dir(1)

Accesses(c) == IF c.collective THEN collective(c) ELSE Transfer(c)

-----------------------------------------------------------------------------
(* The channels.                                                           *)

next_id(d) == FirstId + Len(jobs[d])
done_id(d) == FirstId + retired[d] - 1

\* A channel is busy while it has a transfer it has not retired.
busy(d) == retired[d] < Len(jobs[d])

\* The front-end answers a read of NEXT_ID only when the job queue has room.
req_ready(d) == Len(jobs[d]) - popped[d] < FifoDepth

IdmaInit ==
  /\ program \in Programs
  /\ regs = [d \in Dirs |-> [r \in ConfigRegs |-> 0]]
  /\ jobs = [d \in Dirs |-> <<>>]
  /\ popped = [d \in Dirs |-> 0] /\ retired = [d \in Dirs |-> 0]
  /\ pc = "ready" /\ todo = <<>> /\ target = <<0, 0>> /\ seen = 0 /\ timeout = 0
  /\ asked = [d \in Dirs |-> <<>>] /\ told = {}

\* The mid-end takes the oldest job.
Pop(d) ==
  /\ popped[d] < Len(jobs[d]) /\ popped[d] - retired[d] < InFlight
  /\ popped' = [popped EXCEPT ![d] = @ + 1]
  /\ UNCHANGED <<program, regs, jobs, retired, coreVars, asked, told>>

\* The back-end completes a job: retire_id, transfer_done_o.
Retire(d) ==
  /\ retired[d] < popped[d]
  /\ retired' = [retired EXCEPT ![d] = @ + 1]
  /\ UNCHANGED <<program, regs, jobs, popped, coreVars, asked, told>>

-----------------------------------------------------------------------------
(* The main core: starting a transfer.                                     *)

Started == {t \in Dirs \X (1 .. MaxCalls) : t[2] <= Len(jobs[t[1]])}
Pending(d) == Len(jobs[d]) - Cardinality({t \in told : t[1] = d})

CallTransfer(c) ==
  /\ pc = "ready" /\ Cardinality(Started) < MaxCalls /\ Pending(c.dir) < program.pending
  /\ pc' = "call" /\ todo' = Accesses(c)
  /\ asked' = [asked EXCEPT ![c.dir] = Append(@, c)]
  /\ UNCHANGED <<program, channelVars, target, seen, timeout, told>>

\* The decoder grants an access of a known offset at once, and the response
\* is that of the channel in this very cycle.
WriteReg ==
  LET a == Head(todo)  d == direction(a.addr)
  IN  /\ pc = "call" /\ a.we /\ is_valid_access(a.addr)
      /\ regs' = [regs EXCEPT ![d][reg_offset(a.addr)] = a.wdata]
      /\ todo' = Tail(todo)
      /\ UNCHANGED <<program, jobs, popped, retired, pc, target, seen, timeout, asked, told>>

ReadNextId ==
  LET a == Head(todo)  d == direction(a.addr)
  IN  /\ pc = "call" /\ ~a.we /\ is_valid_access(a.addr) /\ req_ready(d)
      /\ jobs' = [jobs EXCEPT ![d] = Append(@, regs[d])]
      /\ todo' = <<>> /\ pc' = "ready"
      /\ UNCHANGED <<program, regs, popped, retired, target, seen, timeout, asked, told>>

\* Granted while the job queue is full: the request is gone in the next
\* cycle, the channel has not seen it and there will be no response.
LoseNextId ==
  LET a == Head(todo)  d == direction(a.addr)
  IN  /\ pc = "call" /\ ~a.we /\ is_valid_access(a.addr) /\ ~req_ready(d)
      /\ pc' = "hung" /\ todo' = <<>>
      /\ UNCHANGED <<program, channelVars, target, seen, timeout, asked, told>>

-----------------------------------------------------------------------------
(* The main core: waiting.                                                 *)

Idof(t) == FirstId + t[2] - 1

Unchanged == UNCHANGED <<program, channelVars, todo, asked>>

\* dma_wait(id): read both DONE_IDs, leave when one of them is id.
CallDmaWait(t) ==
  /\ pc = "ready" /\ "dma_wait" \in program.waits /\ t \in Started \ told
  /\ pc' = "dma_wait" /\ target' = t
  /\ UNCHANGED <<seen, timeout, told>> /\ Unchanged

DmaWaitReadA2o ==
  /\ pc = "dma_wait" /\ is_valid_access(Addr(0, DONE_ID))
  /\ pc' = "dma_wait_o2a" /\ seen' = done_id(0)
  /\ UNCHANGED <<target, timeout, told>> /\ Unchanged

\* Fault: the transfer under way is taken for the last one completed.
idma_tx_cpltEarly(id, a2o, o2a) == a2o + 1 = id \/ o2a + 1 = id

idma_tx_cplt(id, a2o, o2a) == a2o = id \/ o2a = id

DmaWaitReadO2a ==
  /\ pc = "dma_wait_o2a" /\ is_valid_access(Addr(1, DONE_ID))
  /\ IF idma_tx_cplt(Idof(target), seen, done_id(1))
     THEN pc' = "ready" /\ told' = told \cup {target}
     ELSE pc' = "dma_wait" /\ UNCHANGED told
  /\ seen' = 0 /\ UNCHANGED <<target, timeout>> /\ Unchanged

\* dma_barrier(): until both STATUS registers read idle; the second is read
\* only after the first was.
CallBarrier ==
  /\ pc = "ready" /\ "dma_barrier" \in program.waits /\ Started \ told # {}
  /\ pc' = "barrier"
  /\ UNCHANGED <<target, seen, timeout, told>> /\ Unchanged

BarrierReadA2o ==
  /\ pc = "barrier" /\ is_valid_access(Addr(0, STATUS)) /\ ~busy(0)
  /\ pc' = "barrier_o2a"
  /\ UNCHANGED <<target, seen, timeout, told>> /\ Unchanged

\* Fault: the second status is not looked at.
BarrierReadO2aBlind ==
  /\ pc = "barrier_o2a" /\ is_valid_access(Addr(1, STATUS))
  /\ pc' = "ready" /\ told' = Started
  /\ UNCHANGED <<target, seen, timeout>> /\ Unchanged

BarrierReadO2a ==
  /\ pc = "barrier_o2a" /\ is_valid_access(Addr(1, STATUS))
  /\ IF busy(1) THEN pc' = "barrier" /\ UNCHANGED told
                ELSE pc' = "ready" /\ told' = Started
  /\ UNCHANGED <<target, seen, timeout>> /\ Unchanged

\* idma_mm_wait_for_completion(direction, id): an idle channel whose last
\* transfer is this one, or a timeout, after which nothing is promised.
CallMmWait(t) ==
  /\ pc = "ready" /\ "mm_wait" \in program.waits /\ t \in Started \ told
  /\ pc' = "mm_wait" /\ target' = t /\ timeout' = MaxPolls
  /\ UNCHANGED <<seen, told>> /\ Unchanged

MmWaitTimeout ==
  /\ pc = "mm_wait" /\ timeout = 0
  /\ pc' = "ready"
  /\ UNCHANGED <<target, seen, timeout, told>> /\ Unchanged

MmWaitReadStatus ==
  /\ pc = "mm_wait" /\ timeout > 0 /\ is_valid_access(Addr(target[1], STATUS))
  /\ timeout' = timeout - 1
  /\ pc' = IF busy(target[1]) THEN "mm_wait" ELSE "mm_wait_done"
  /\ UNCHANGED <<target, seen, told>> /\ Unchanged

MmWaitReadDone ==
  /\ pc = "mm_wait_done" /\ is_valid_access(Addr(target[1], DONE_ID))
  /\ IF done_id(target[1]) = Idof(target)
     THEN pc' = "ready" /\ told' = told \cup {target}
     ELSE pc' = "mm_wait" /\ UNCHANGED told
  /\ UNCHANGED <<target, seen, timeout>> /\ Unchanged

-----------------------------------------------------------------------------
CoreInCall ==
  \/ WriteReg \/ ReadNextId \/ LoseNextId
  \/ DmaWaitReadA2o \/ DmaWaitReadO2a
  \/ BarrierReadA2o \/ BarrierReadO2a
  \/ MmWaitTimeout \/ MmWaitReadStatus \/ MmWaitReadDone

IdmaNext ==
  \/ \E d \in Dirs : Pop(d) \/ Retire(d)
  \/ \E c \in program.calls : CallTransfer(c)
  \/ \E t \in Started : CallDmaWait(t) \/ CallMmWait(t)
  \/ CallBarrier
  \/ CoreInCall

IdmaSpec == IdmaInit /\ [][IdmaNext]_idmaVars

\* The core executes its instructions, and a channel carries out the jobs
\* it has accepted.
IdmaFairness ==
  /\ WF_idmaVars(CoreInCall)
  /\ \A d \in Dirs : WF_idmaVars(Pop(d)) /\ WF_idmaVars(Retire(d))

IdmaFairSpec == IdmaSpec /\ IdmaFairness

-----------------------------------------------------------------------------
(* Properties.                                                             *)

\* A transfer reported as complete has been retired by its channel
\* (README.md 316, idma_mm_utils.h 366 to 377).  This fails: dma_wait takes
\* a transfer of the other channel for one of the same number.
WaitSound == \A t \in told : t[2] <= retired[t[1]]

\* The program gives dma_wait nothing to mix up.
TellsApart == "dma_wait" \in program.waits => \A c, e \in program.calls : c.dir = e.dir

\* What a wait that ends does tell: the channel has retired the transfer, or,
\* if dma_wait may mix the channels up, the other one has retired a transfer
\* of that number (idma_mm_utils.h 187 to 208 and 362 to 383).
WaitReports ==
  [][\A t \in told' \ told :
       \/ t[2] <= retired[t[1]]
       \/ pc = "dma_wait_o2a" /\ ~TellsApart /\ t[2] <= retired[1 - t[1]]]_idmaVars

\* What the registers must hold for a call to be carried out as asked: one
\* that is no collective has a mask of zero.
Wanted(c) ==
  [r \in ConfigRegs |->
     CASE r = CONF -> 3 * 1024 + (IF c.dir = 1 THEN 2 ^ 12 ELSE 2 ^ 15)
       [] r = DST_ADDR_LOW -> c.dst          [] r = SRC_ADDR_LOW -> c.src
       [] r = LENGTH_LOW -> c.size           [] r = DST_STRIDE_2 -> c.dst_stride
       [] r = SRC_STRIDE_2 -> c.src_stride   [] r = REPS_2 -> c.reps
       [] r = MULTICAST_MASK -> c.mask       [] r = COLLECTIVE_SEL -> c.op
       [] r = REPS_3 -> 1                    [] OTHER -> 0]

\* Every transfer a channel accepts is the one its call asked for, whatever
\* earlier calls left in the registers (idma_mm_utils.h 252 to 350, README.md
\* 310).  This fails: nothing sets the mask of a collective back.
JobMatchesCall ==
  \A d \in Dirs : \A k \in 1 .. Len(jobs[d]) :
    \A r \in ConfigRegs : jobs[d][k][r] = Wanted(asked[d][k])[r]

\* What does hold of it: only the mask and the operation of a collective ever
\* stay, and only in later transfers of its channel that are none themselves.
Stays(d, k, r) ==
  /\ r \in CollectiveRegs /\ ~asked[d][k].collective
  /\ \E i \in 1 .. k - 1 : asked[d][i].collective /\ jobs[d][k][r] = Wanted(asked[d][i])[r]

OnlyCollectivesStay ==
  \A d \in Dirs : \A k \in 1 .. Len(jobs[d]) : \A r \in ConfigRegs :
    jobs[d][k][r] = Wanted(asked[d][k])[r] \/ Stays(d, k, r)

\* Every call returns: no access is left without a grant, and a wait ends
\* after the transfer it is for; only a start may be lost instead.  Programs
\* with dma_wait wait for a transfer before they start the next one of its
\* channel: later, the channel may have gone past its number
\* (idma_obi_ctrl_decoder.sv 108 to 182, idma_mm_utils.h 187 to 208 and 362
\* to 383).
CallReturns == pc # "ready" ~> pc \in {"ready", "hung"}

\* A start is lost only if the program has more transfers of a channel
\* under way than its job queue holds, or takes a transfer for complete that
\* is not: waits that tell the truth bound the queue
\* (idma_obi_ctrl_decoder.sv 169 to 182, magia_tile_pkg.sv 356).
StartAnswered == pc = "hung" => program.pending > FifoDepth \/ ~TellsApart
=============================================================================
