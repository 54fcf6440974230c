---------------------------- MODULE IdmaProofs -----------------------------
(***************************************************************************)
(* Theorems about Idma, for any programs, any depth of the job queue and   *)
(* any number of transfers: what a wait tells, dma_wait with both          *)
(* directions included; a start is lost only by a program that lets more   *)
(* transfers of a channel be under way than the job queue holds, or mixes  *)
(* the channels up; only collectives leave something to later transfers.   *)
(***************************************************************************)
EXTENDS Idma, FiniteSetTheorems, SequenceTheorems, TLAPS

USE IdmaAssumption

AnyAccess   == [addr : Nat, we : BOOLEAN, wdata : Nat]
AccessTo(d) == {a \in AnyAccess : direction(a.addr) = d}

\* Accesses that end in a start of channel d, its only read.
Starts(todos, d) ==
  /\ todos \in Seq(AccessTo(d)) /\ todos # <<>>
  /\ ~todos[Len(todos)].we

TypesInv ==
  /\ program \in Programs
  /\ regs \in [Dirs -> [ConfigRegs -> Nat]]
  /\ jobs \in [Dirs -> Seq([ConfigRegs -> Nat])]
  /\ popped \in [Dirs -> Nat] /\ retired \in [Dirs -> Nat]
  /\ told \in SUBSET (Dirs \X Nat)
  /\ pc \in {"ready", "call", "hung", "dma_wait", "dma_wait_o2a", "barrier", "barrier_o2a",
             "mm_wait", "mm_wait_done"}

\* A job is queued, then taken, then retired.
CountInv == \A d \in Dirs : retired[d] <= popped[d] /\ popped[d] <= Len(jobs[d])

Asked(d) == \E c \in program.calls : c.dir = d

CallInv ==
  /\ \A d \in Dirs : jobs[d] # <<>> => Asked(d)
  /\ pc = "call" =>
       \E d \in Dirs : Starts(todo, d) /\ Asked(d) /\ Pending(d) < program.pending

WaitInv ==
  /\ pc \in {"dma_wait", "dma_wait_o2a", "mm_wait", "mm_wait_done"} => target \in Started
  /\ pc \in {"dma_wait", "dma_wait_o2a"} => "dma_wait" \in program.waits
  /\ pc = "dma_wait_o2a" => seen \in Int /\ seen <= done_id(0)
  /\ pc = "barrier_o2a" => ~busy(0)
  /\ \A t \in told : t[2] \in Nat \ {0}

SoundInv == TellsApart => WaitSound

IInv == TypesInv /\ CountInv /\ CallInv /\ WaitInv /\ SoundInv /\ StartAnswered

-----------------------------------------------------------------------------
(* What the calls write and read.                                          *)

LEMMA Directions ==
  ASSUME NEW d \in Dirs, NEW reg \in Nat, reg < 512
  PROVE  Addr(d, reg) \in Nat /\ direction(Addr(d, reg)) = d
BY DEF Addr, direction, DIRECTION_OFFSET, Dirs

LEMMA Writes ==
  ASSUME NEW d \in Dirs, NEW reg \in Nat, reg < 512, NEW v \in Nat
  PROVE  /\ Write(d, reg, v) \in AccessTo(d)
         /\ ReadOf(d, reg) \in AccessTo(d) /\ ~ReadOf(d, reg).we
<1>1. Addr(d, reg) \in Nat /\ direction(Addr(d, reg)) = d
  BY Directions
<1> QED
  BY <1>1 DEF Write, ReadOf, AccessTo, AnyAccess

LEMMA Parts ==
  ASSUME NEW d \in Dirs, NEW x \in Nat, NEW y \in Nat, NEW z \in Nat
  PROVE  /\ idma_mm_conf_default_dir(d) \in Seq(AccessTo(d))
         /\ idma_mm_set_addr_len_dir(d, x, y, z) \in Seq(AccessTo(d))
         /\ idma_mm_set_2d_params_dir(d, x, y, z) \in Seq(AccessTo(d))
         /\ idma_mm_set_3d_params_dir(d, x, y, z) \in Seq(AccessTo(d))
         /\ <<Write(d, MULTICAST_MASK, x), Write(d, COLLECTIVE_SEL, y)>> \in Seq(AccessTo(d))
         /\ idma_mm_start_transfer_dir(d) \in Seq(AccessTo(d))
         /\ Starts(idma_mm_start_transfer_dir(d), d)
<1> DEFINE conf == 3 * 1024 + (IF d = 1 THEN 2 ^ 12 ELSE 2 ^ 15)
<1>1. conf \in Nat
  OBVIOUS
<1>2. Write(d, CONF, conf) \in AccessTo(d)
  BY <1>1, Writes DEF CONF
<1>3. /\ Write(d, DST_ADDR_LOW, x) \in AccessTo(d)
      /\ Write(d, SRC_ADDR_LOW, y) \in AccessTo(d)
      /\ Write(d, LENGTH_LOW, z) \in AccessTo(d)
  BY Writes DEF DST_ADDR_LOW, SRC_ADDR_LOW, LENGTH_LOW
<1>4. /\ Write(d, DST_STRIDE_2, x) \in AccessTo(d)
      /\ Write(d, SRC_STRIDE_2, y) \in AccessTo(d)
      /\ Write(d, REPS_2, z) \in AccessTo(d)
  BY Writes DEF DST_STRIDE_2, SRC_STRIDE_2, REPS_2
<1>5. /\ Write(d, DST_STRIDE_3, x) \in AccessTo(d)
      /\ Write(d, SRC_STRIDE_3, y) \in AccessTo(d)
      /\ Write(d, REPS_3, z) \in AccessTo(d)
  BY Writes DEF DST_STRIDE_3, SRC_STRIDE_3, REPS_3
<1>6. /\ Write(d, MULTICAST_MASK, x) \in AccessTo(d)
      /\ Write(d, COLLECTIVE_SEL, y) \in AccessTo(d)
  BY Writes DEF MULTICAST_MASK, COLLECTIVE_SEL
<1>7. ReadOf(d, NEXT_ID) \in AccessTo(d) /\ ~ReadOf(d, NEXT_ID).we
  BY Writes DEF NEXT_ID
<1>8. \A a, b, c \in AccessTo(d) : <<a>> \in Seq(AccessTo(d)) /\ <<a, b>> \in Seq(AccessTo(d))
                                   /\ <<a, b, c>> \in Seq(AccessTo(d))
  OBVIOUS
<1>9. idma_mm_conf_default_dir(d) = <<Write(d, CONF, conf)>>
  BY DEF idma_mm_conf_default_dir
<1> HIDE DEF conf
<1>10. idma_mm_conf_default_dir(d) \in Seq(AccessTo(d))
  BY <1>2, <1>8, <1>9
<1>11. idma_mm_set_addr_len_dir(d, x, y, z) \in Seq(AccessTo(d))
  BY <1>3, <1>8 DEF idma_mm_set_addr_len_dir
<1>12. idma_mm_set_2d_params_dir(d, x, y, z) \in Seq(AccessTo(d))
  BY <1>4, <1>8 DEF idma_mm_set_2d_params_dir
<1>13. idma_mm_set_3d_params_dir(d, x, y, z) \in Seq(AccessTo(d))
  BY <1>5, <1>8 DEF idma_mm_set_3d_params_dir
<1>14. <<Write(d, MULTICAST_MASK, x), Write(d, COLLECTIVE_SEL, y)>> \in Seq(AccessTo(d))
  BY <1>6, <1>8
<1>15. idma_mm_start_transfer_dir(d) \in Seq(AccessTo(d)) /\ Starts(idma_mm_start_transfer_dir(d), d)
  <2> DEFINE rd == ReadOf(d, NEXT_ID)
  <2>1. idma_mm_start_transfer_dir(d) = <<rd>>
    BY DEF idma_mm_start_transfer_dir
  <2> HIDE DEF rd
  <2>2. <<rd>> \in Seq(AccessTo(d)) /\ <<rd>> # <<>> /\ Len(<<rd>>) = 1 /\ <<rd>>[1] = rd
    BY <1>7, <1>8 DEF rd
  <2> QED
    BY <1>7, <2>1, <2>2 DEF Starts, rd
<1> QED
  BY <1>10, <1>11, <1>12, <1>13, <1>14, <1>15

LEMMA EndsInStart ==
  ASSUME NEW d \in Dirs, NEW s \in Seq(AccessTo(d)), NEW e, Starts(e, d)
  PROVE  Starts(s \o e, d)
<1>1. e \in Seq(AccessTo(d)) /\ e # <<>> /\ Len(e) \in Nat \ {0} /\ Len(s) \in Nat
  BY EmptySeq, LenProperties DEF Starts
<1>2. s \o e \in Seq(AccessTo(d)) /\ Len(s \o e) = Len(s) + Len(e)
      /\ (s \o e)[Len(s) + Len(e)] = e[Len(e)]
  <2>1. /\ s \o e \in Seq(AccessTo(d)) /\ Len(s \o e) = Len(s) + Len(e)
        /\ \A i \in 1 .. Len(s) + Len(e) : (s \o e)[i] = IF i <= Len(s) THEN s[i] ELSE e[i - Len(s)]
    BY <1>1, ConcatProperties
  <2>2. \A m, n \in Nat : n # 0 => m + n \in 1 .. m + n /\ ~(m + n <= m) /\ (m + n) - m = n
    OBVIOUS
  <2> QED
    BY <1>1, <2>1, <2>2
<1>3. s \o e # <<>>
  <2>1. \A m, n \in Nat : n # 0 => m + n # 0
    OBVIOUS
  <2> QED
    BY <1>1, <1>2, <2>1, EmptySeq
<1> QED
  BY <1>1, <1>2, <1>3 DEF Starts

\* Every call ends in the read that starts its channel, and touches no other.
LEMMA CallStarts ==
  ASSUME program \in Programs, NEW c \in program.calls
  PROVE  c.dir \in Dirs /\ Starts(Accesses(c), c.dir)
<1> DEFINE d == c.dir
<1>1. /\ d \in Dirs /\ c.dst \in Nat /\ c.src \in Nat /\ c.size \in Nat /\ c.dst_stride \in Nat
      /\ c.src_stride \in Nat /\ c.reps \in Nat /\ c.mask \in Nat /\ c.op \in Nat
      /\ c.collective => d = 1
  OBVIOUS
<1>2. \A s, e \in Seq(AccessTo(d)) : s \o e \in Seq(AccessTo(d))
  BY ConcatProperties
<1> DEFINE base == idma_mm_conf_default_dir(d) \o idma_mm_set_addr_len_dir(d, c.dst, c.src, c.size)
           flat == base \o idma_mm_set_2d_params_dir(d, 0, 0, 1)
                     \o idma_mm_set_3d_params_dir(d, 0, 0, 1)
                     \o <<Write(d, MULTICAST_MASK, c.mask), Write(d, COLLECTIVE_SEL, c.op)>>
           plain == base \o idma_mm_set_2d_params_dir(d, c.dst_stride, c.src_stride, c.reps)
                      \o idma_mm_set_3d_params_dir(d, 0, 0, 1)
<1>3. base \in Seq(AccessTo(d))
  BY <1>1, <1>2, Parts
<1> HIDE DEF base
<1>4. flat \in Seq(AccessTo(d))
  BY <1>1, <1>2, <1>3, Parts
<1>5. plain \in Seq(AccessTo(d))
  BY <1>1, <1>2, <1>3, Parts
<1>6. Accesses(c) = IF c.collective THEN flat \o idma_mm_start_transfer_dir(d)
                    ELSE plain \o idma_mm_start_transfer_dir(d)
  BY <1>1 DEF Accesses, collective, Transfer, base
<1>7. Starts(idma_mm_start_transfer_dir(d), d)
  BY <1>1, Parts
<1> HIDE DEF flat, plain
<1> QED
  BY <1>1, <1>4, <1>5, <1>6, <1>7, EndsInStart

-----------------------------------------------------------------------------
(* Sets of transfers.                                                      *)

ToldOf(d) == {t \in told : t[1] = d}

\* No more transfers of a channel are reported as complete than it has retired.
LEMMA ToldCount ==
  ASSUME TypesInv, WaitInv, WaitSound, NEW d \in Dirs
  PROVE  /\ Cardinality(ToldOf(d)) \in Nat /\ Cardinality(ToldOf(d)) <= retired[d]
<1> DEFINE f == [t \in ToldOf(d) |-> t[2]]
           S == 1 .. retired[d]
<1>1. retired[d] \in Nat
  BY DEF TypesInv
<1>2. \A t \in ToldOf(d) : t[2] \in S
  BY <1>1 DEF ToldOf, WaitInv, WaitSound
<1>3. \A t, u \in ToldOf(d) : t[2] = u[2] => t = u
  <2>1. \A t \in Dirs \X Nat : t = <<t[1], t[2]>>
    OBVIOUS
  <2>2. \A t \in ToldOf(d) : t \in Dirs \X Nat /\ t[1] = d
    BY DEF ToldOf, TypesInv
  <2> QED
    BY <2>1, <2>2
<1>4. f \in Injection(ToldOf(d), S)
  BY <1>2, <1>3 DEF Injection, IsInjective
<1>5. IsFiniteSet(S) /\ Cardinality(S) = retired[d]
  BY SMTT(30), <1>1, FS_Interval
<1> HIDE DEF f, S
<1>6. IsFiniteSet(ToldOf(d)) /\ Cardinality(ToldOf(d)) <= Cardinality(S)
  BY <1>4, <1>5, FS_Injection
<1> QED
  BY <1>5, <1>6, FS_CardinalityType

LEMMA PendingIs ==
  ASSUME NEW d \in Dirs
  PROVE  Pending(d) = Len(jobs[d]) - Cardinality(ToldOf(d))
BY DEF Pending, ToldOf

LEMMA Lengths ==
  ASSUME TypesInv, NEW d \in Dirs
  PROVE  Len(jobs[d]) \in Nat /\ (jobs[d] = <<>> <=> Len(jobs[d]) = 0)
BY EmptySeq DEF TypesInv

-----------------------------------------------------------------------------
(* The invariant, action by action.                                        *)

LEMMA InitInv == IdmaInit => IInv
<1> SUFFICES ASSUME IdmaInit
             PROVE  IInv
  OBVIOUS
<1>1. /\ \A d \in Dirs : jobs[d] = <<>> /\ popped[d] = 0 /\ retired[d] = 0
      /\ told = {} /\ pc = "ready"
  BY DEF IdmaInit
<1>2. TypesInv
  <2>1. jobs \in [Dirs -> Seq([ConfigRegs -> Nat])]
    BY DEF IdmaInit
  <2>2. regs \in [Dirs -> [ConfigRegs -> Nat]]
    BY DEF IdmaInit
  <2> QED
    BY <2>1, <2>2 DEF IdmaInit, TypesInv
<1>3. CountInv
  BY <1>1 DEF CountInv
<1> QED
  BY <1>1, <1>2, <1>3 DEF IInv, CallInv, WaitInv, SoundInv, WaitSound, StartAnswered

\* The steps of the channels: a job is taken or retired, nothing else changes.
LEMMA ChannelInv ==
  ASSUME IInv, NEW d \in Dirs, Pop(d) \/ Retire(d)
  PROVE  IInv'
<1>1. /\ program' = program /\ regs' = regs /\ jobs' = jobs /\ told' = told /\ pc' = pc
      /\ todo' = todo /\ target' = target /\ seen' = seen
  BY DEF Pop, Retire, coreVars
<1>2. /\ popped' \in [Dirs -> Nat] /\ retired' \in [Dirs -> Nat]
      /\ \A e \in Dirs : /\ retired[e] \in Nat /\ retired[e] <= retired'[e]
                         /\ retired'[e] <= popped'[e] /\ popped'[e] <= Len(jobs[e])
  <2>1. \A e \in Dirs : Len(jobs[e]) \in Nat /\ popped[e] \in Nat /\ retired[e] \in Nat
                        /\ retired[e] <= popped[e] /\ popped[e] <= Len(jobs[e])
    BY Lengths DEF IInv, TypesInv, CountInv
  <2>2. popped \in [Dirs -> Nat] /\ retired \in [Dirs -> Nat]
    BY DEF IInv, TypesInv
  <2>3. CASE Pop(d)
    <3>1. popped[d] < Len(jobs[d]) /\ popped' = [popped EXCEPT ![d] = @ + 1] /\ retired' = retired
      BY <2>3 DEF Pop
    <3> QED
      BY <2>1, <2>2, <3>1
  <2>4. CASE Retire(d)
    <3>1. retired[d] < popped[d] /\ retired' = [retired EXCEPT ![d] = @ + 1] /\ popped' = popped
      BY <2>4 DEF Retire
    <3> QED
      BY <2>1, <2>2, <3>1
  <2> QED
    BY <2>3, <2>4
<1>3. TypesInv' /\ CountInv'
  BY <1>1, <1>2 DEF IInv, TypesInv, CountInv
<1>4. CallInv'
  BY <1>1 DEF IInv, CallInv, Asked, Pending
<1>5. WaitInv'
  <2>1. pc = "dma_wait_o2a" => seen' \in Int /\ seen' <= done_id(0)'
    BY SMTT(30), <1>1, <1>2 DEF IInv, WaitInv, done_id, Dirs
  <2>2. pc = "barrier_o2a" => ~busy(0)'
    BY <1>1, <1>2, Lengths DEF IInv, WaitInv, busy, Dirs
  <2> QED
    BY <1>1, <2>1, <2>2 DEF IInv, WaitInv, Started
<1>6. SoundInv'
  <2>1. \A t \in told : t[1] \in Dirs /\ t[2] \in Nat
    BY DEF IInv, TypesInv
  <2>2. WaitSound => WaitSound'
    BY <1>1, <1>2, <2>1 DEF WaitSound
  <2> QED
    BY <1>1, <2>2 DEF IInv, SoundInv, TellsApart
<1>7. StartAnswered'
  BY <1>1 DEF IInv, StartAnswered, TellsApart
<1> QED
  BY <1>3, <1>4, <1>5, <1>6, <1>7 DEF IInv

LEMMA CallStep ==
  ASSUME IInv, NEW c \in program.calls, CallTransfer(c)
  PROVE  IInv'
<1>1. /\ UNCHANGED <<program, regs, jobs, popped, retired, target, seen, told>>
      /\ pc' = "call" /\ todo' = Accesses(c) /\ Pending(c.dir) < program.pending
  BY DEF CallTransfer, channelVars
<1>2. c.dir \in Dirs /\ Starts(todo', c.dir)
  BY <1>1, CallStarts DEF IInv, TypesInv
<1>3. CallInv'
  BY <1>1, <1>2 DEF IInv, CallInv, Asked, Pending
<1> QED
  BY <1>1, <1>3 DEF IInv, TypesInv, CountInv, WaitInv, SoundInv, WaitSound, StartAnswered,
                         TellsApart

LEMMA WriteRegInv ==
  ASSUME IInv, WriteReg
  PROVE  IInv'
<1> DEFINE a == Head(todo)
<1>1. /\ UNCHANGED <<program, jobs, popped, retired, pc, target, seen, told>>
      /\ pc = "call" /\ a.we /\ todo' = Tail(todo)
      /\ regs' = [regs EXCEPT ![direction(a.addr)][reg_offset(a.addr)] = a.wdata]
  BY DEF WriteReg
<1>2. PICK d \in Dirs : Starts(todo, d) /\ Asked(d) /\ Pending(d) < program.pending
  BY <1>1 DEF IInv, CallInv
<1>3. /\ a \in AccessTo(d) /\ Tail(todo) \in Seq(AccessTo(d))
      /\ Len(Tail(todo)) = Len(todo) - 1 /\ Len(todo) \in Nat \ {0} /\ a = todo[1]
      /\ \A i \in 1 .. Len(Tail(todo)) : Tail(todo)[i] = todo[i + 1]
  BY <1>2, HeadTailProperties, EmptySeq DEF Starts
<1>4. Len(todo) > 1
  <2>1. Len(todo) # 1
    BY <1>1, <1>2, <1>3 DEF Starts
  <2> QED
    BY <1>3, <2>1
<1>5. Starts(Tail(todo), d)
  <2>1. Tail(todo) # <<>>
    <3>1. \A n \in Nat : n > 1 => n - 1 # 0
      OBVIOUS
    <3>2. Len(Tail(todo)) # 0 /\ Len(<<>>) = 0
      BY <1>3, <1>4, <3>1
    <3> QED
      BY <3>2
  <2>2. Tail(todo)[Len(todo) - 1] = todo[Len(todo)]
    <3>1. Len(todo) - 1 \in 1 .. Len(Tail(todo)) /\ Len(todo) - 1 + 1 = Len(todo)
      BY <1>3, <1>4
    <3> QED
      BY <1>3, <3>1
  <2> QED
    BY <1>2, <1>3, <2>1, <2>2 DEF Starts
<1>6. CallInv'
  BY <1>1, <1>2, <1>5 DEF IInv, CallInv, Asked, Pending
<1>7. TypesInv'
  <2>1. a.wdata \in Nat
    BY <1>3 DEF AccessTo, AnyAccess
  <2>2. regs \in [Dirs -> [ConfigRegs -> Nat]]
    BY DEF IInv, TypesInv
  <2> HIDE DEF a
  <2>3. regs' \in [Dirs -> [ConfigRegs -> Nat]]
    BY <1>1, <2>1, <2>2
  <2> QED
    BY <1>1, <2>3 DEF IInv, TypesInv
<1> QED
  BY <1>1, <1>6, <1>7 DEF IInv, CountInv, WaitInv, SoundInv, WaitSound, StartAnswered, TellsApart,
                         Started, done_id, busy

LEMMA ReadNextIdInv ==
  ASSUME IInv, ReadNextId
  PROVE  IInv'
<1> DEFINE d == direction(Head(todo).addr)
<1>1. /\ UNCHANGED <<program, regs, popped, retired, target, seen, told>>
      /\ pc = "call" /\ pc' = "ready" /\ jobs' = [jobs EXCEPT ![d] = Append(@, regs[d])]
  BY DEF ReadNextId
<1>2. d \in Dirs /\ Asked(d)
  <2>1. PICK e \in Dirs : Starts(todo, e) /\ Asked(e)
    BY <1>1 DEF IInv, CallInv
  <2>2. Head(todo) \in AccessTo(e)
    BY <2>1, HeadTailProperties DEF Starts
  <2> QED
    BY <2>1, <2>2 DEF AccessTo
<1>3. jobs \in [Dirs -> Seq([ConfigRegs -> Nat])] /\ regs[d] \in [ConfigRegs -> Nat]
  BY <1>2 DEF IInv, TypesInv
<1> HIDE DEF d
<1>4. /\ Append(jobs[d], regs[d]) \in Seq([ConfigRegs -> Nat])
      /\ Len(Append(jobs[d], regs[d])) = Len(jobs[d]) + 1 /\ Len(jobs[d]) \in Nat
  BY <1>2, <1>3, AppendProperties
<1>5. /\ jobs' \in [Dirs -> Seq([ConfigRegs -> Nat])]
      /\ \A e \in Dirs : Len(jobs[e]) <= Len(jobs'[e])
      /\ \A e \in Dirs \ {d} : jobs'[e] = jobs[e]
  <2>1. \A e \in Dirs : Len(jobs[e]) \in Nat
    BY Lengths DEF IInv
  <2> QED
    BY <1>1, <1>2, <1>3, <1>4, <2>1
<1>6. TypesInv'
  BY <1>1, <1>5 DEF IInv, TypesInv
<1>7. CountInv'
  <2>1. \A e \in Dirs : Len(jobs[e]) \in Nat /\ Len(jobs'[e]) \in Nat /\ popped[e] \in Nat
    BY SMTT(30), <1>5, Lengths DEF IInv, TypesInv
  <2> QED
    BY <1>1, <1>5, <2>1 DEF IInv, CountInv
<1>8. CallInv'
  BY <1>1, <1>2, <1>5 DEF IInv, CallInv, Asked
<1> QED
  BY <1>1, <1>6, <1>7, <1>8 DEF IInv, WaitInv, SoundInv, WaitSound, StartAnswered, TellsApart

\* The queue is full of transfers that have not been retired, and so have not
\* been reported as complete.
LEMMA LoseNextIdInv ==
  ASSUME IInv, LoseNextId
  PROVE  IInv'
<1>1. /\ UNCHANGED <<program, regs, jobs, popped, retired, target, seen, told>>
      /\ pc = "call" /\ pc' = "hung" /\ ~req_ready(direction(Head(todo).addr))
  BY DEF LoseNextId, channelVars
<1>2. PICK d \in Dirs : Starts(todo, d) /\ Pending(d) < program.pending
  BY <1>1 DEF IInv, CallInv
<1>3. Head(todo) \in AccessTo(d)
  BY <1>2, HeadTailProperties DEF Starts
<1>4. ~req_ready(d)
  BY <1>1, <1>3 DEF AccessTo
<1>5. TellsApart => program.pending > FifoDepth
  <2> SUFFICES ASSUME TellsApart
               PROVE  program.pending > FifoDepth
    OBVIOUS
  <2>1. /\ Cardinality(ToldOf(d)) \in Nat /\ Cardinality(ToldOf(d)) <= retired[d]
        /\ retired[d] \in Nat /\ popped[d] \in Nat /\ Len(jobs[d]) \in Nat
        /\ retired[d] <= popped[d] /\ program.pending \in Nat
    BY ToldCount, Lengths DEF IInv, TypesInv, CountInv, SoundInv
  <2>2. Len(jobs[d]) - Cardinality(ToldOf(d)) < program.pending
    BY <1>2, PendingIs
  <2> QED
    BY <1>4, <2>1, <2>2 DEF req_ready
<1>6. StartAnswered'
  BY <1>1, <1>5 DEF StartAnswered, TellsApart
<1> QED
  BY <1>1, <1>6 DEF IInv, TypesInv, CountInv, CallInv, Asked, WaitInv, SoundInv, WaitSound,
                    TellsApart

\* What the steps of a wait leave alone.
LEMMA WaitStep ==
  ASSUME IInv, UNCHANGED <<program, channelVars, told>>, pc' # "call", pc' # "hung",
         TypesInv', WaitInv'
  PROVE  IInv'
BY DEF IInv, channelVars, CountInv, CallInv, Asked, SoundInv, WaitSound, StartAnswered, TellsApart

\* The same for a step that ends a wait with a report.
LEMMA ReportStep ==
  ASSUME IInv, UNCHANGED <<program, channelVars>>, pc' = "ready",
         told' \subseteq told \cup Started,
         TellsApart => \A t \in told' : t[2] <= retired[t[1]]
  PROVE  IInv'
<1>1. \A t \in Started : t \in Dirs \X Nat /\ t[2] \in Nat \ {0}
  BY DEF Started, IdmaAssumption
<1>2. told' \in SUBSET (Dirs \X Nat) /\ \A t \in told' : t[2] \in Nat \ {0}
  BY <1>1 DEF IInv, TypesInv, WaitInv
<1> QED
  BY <1>2 DEF IInv, channelVars, TypesInv, CountInv, CallInv, Asked, WaitInv, SoundInv, WaitSound,
              StartAnswered, TellsApart

LEMMA StartWaitInv ==
  ASSUME IInv, NEW t \in Started, CallDmaWait(t) \/ CallMmWait(t) \/ CallBarrier
  PROVE  IInv'
<1>1. UNCHANGED <<program, channelVars, told>> /\ pc' \in {"dma_wait", "mm_wait", "barrier"}
  BY DEF CallDmaWait, CallMmWait, CallBarrier, Unchanged, channelVars
<1>2. TypesInv'
  BY <1>1 DEF IInv, TypesInv, channelVars
<1>3. WaitInv'
  <2>1. Started' = Started
    BY <1>1 DEF Started, channelVars
  <2>2. pc' \in {"dma_wait", "mm_wait"} => target' = t
    BY DEF CallDmaWait, CallMmWait, CallBarrier
  <2>3. pc' = "dma_wait" => "dma_wait" \in program.waits
    BY DEF CallDmaWait, CallMmWait, CallBarrier
  <2> QED
    BY <1>1, <2>1, <2>2, <2>3 DEF IInv, WaitInv
<1> QED
  BY <1>1, <1>2, <1>3, WaitStep

\* The reads after which a wait goes on.
LEMMA ReadsInv ==
  ASSUME IInv, DmaWaitReadA2o \/ BarrierReadA2o \/ MmWaitTimeout \/ MmWaitReadStatus
  PROVE  IInv'
<1>1. /\ UNCHANGED <<program, channelVars, told, target>>
      /\ pc' \in {"dma_wait_o2a", "barrier_o2a", "ready", "mm_wait", "mm_wait_done"}
  BY DEF DmaWaitReadA2o, BarrierReadA2o, MmWaitTimeout, MmWaitReadStatus, Unchanged, channelVars
<1>2. TypesInv'
  BY <1>1 DEF IInv, TypesInv, channelVars
<1>3. WaitInv'
  <2>1. Started' = Started /\ done_id(0)' = done_id(0) /\ (busy(0)' <=> busy(0))
    BY <1>1 DEF Started, channelVars, done_id, busy
  <2>2. /\ pc' = "dma_wait_o2a" => pc = "dma_wait" /\ seen' = done_id(0)
        /\ pc' = "barrier_o2a" => ~busy(0)
        /\ pc' \in {"mm_wait", "mm_wait_done"} => pc = "mm_wait"
    BY DEF DmaWaitReadA2o, BarrierReadA2o, MmWaitTimeout, MmWaitReadStatus
  <2>3. done_id(0) \in Int
    <3>1. retired[0] \in Nat
      BY DEF IInv, TypesInv, Dirs
    <3> QED
      BY <3>1 DEF done_id
  <2> QED
    BY <1>1, <2>1, <2>2, <2>3 DEF IInv, WaitInv
<1> QED
  BY <1>1, <1>2, <1>3, WaitStep

\* One of the channels has retired as many transfers as the number says; it
\* is the right one if the program has started transfers of one channel only.
LEMMA DmaWaitTells ==
  ASSUME IInv, DmaWaitReadO2a, idma_tx_cplt(Idof(target), seen, done_id(1))
  PROVE  /\ target \in Started
         /\ target[2] <= retired[target[1]] \/ target[2] <= retired[1 - target[1]]
         /\ TellsApart => target[2] <= retired[target[1]]
<1>1. /\ target \in Started /\ "dma_wait" \in program.waits
      /\ seen \in Int /\ seen <= done_id(0)
  BY DEF DmaWaitReadO2a, IInv, WaitInv
<1> DEFINE d == target[1]
           k == target[2]
<1>2. d \in {0, 1} /\ k \in Nat \ {0} /\ k <= Len(jobs[d])
  BY <1>1 DEF Started, Dirs
<1>3. \A e \in {0, 1} : retired[e] \in Nat /\ retired[e] <= Len(jobs[e]) /\ Len(jobs[e]) \in Nat
  <2> SUFFICES ASSUME NEW e \in Dirs
               PROVE  retired[e] \in Nat /\ retired[e] <= Len(jobs[e]) /\ Len(jobs[e]) \in Nat
    BY DEF Dirs
  <2>1. /\ retired[e] \in Nat /\ popped[e] \in Nat /\ Len(jobs[e]) \in Nat
        /\ retired[e] <= popped[e] /\ popped[e] <= Len(jobs[e])
    BY Lengths DEF IInv, TypesInv, CountInv
  <2> QED
    BY <2>1
<1>4. k <= retired[0] \/ k <= retired[1]
  <2>1. FirstId + k - 1 = seen \/ FirstId + k - 1 = FirstId + retired[1] - 1
    BY DEF idma_tx_cplt, Idof, done_id
  <2>2. seen <= FirstId + retired[0] - 1
    BY <1>1 DEF done_id
  <2>3. seen \in Int /\ FirstId \in Nat /\ k \in Nat /\ retired[0] \in Nat /\ retired[1] \in Nat
    BY <1>1, <1>2, <1>3
  <2>4. CASE FirstId + k - 1 = seen
    BY <2>2, <2>3, <2>4
  <2>5. CASE FirstId + k - 1 = FirstId + retired[1] - 1
    BY <2>3, <2>5
  <2> QED
    BY <2>1, <2>4, <2>5
<1>5. k <= retired[d] \/ k <= retired[1 - d]
  BY <1>2, <1>4
<1>6. ASSUME TellsApart
      PROVE  k <= retired[d]
  <2>1. Len(jobs[d]) # 0
    BY <1>2, <1>3
  <2>2. Asked(d)
    BY <1>2, <2>1, Lengths DEF IInv, CallInv, Dirs
  <2>3. ~Asked(1 - d)
    BY <1>1, <1>2, <1>6, <2>2 DEF TellsApart, Asked
  <2>4. Len(jobs[1 - d]) = 0
    BY <1>2, <2>3, Lengths DEF IInv, CallInv, Dirs
  <2> QED
    BY <1>2, <1>3, <1>5, <2>4
<1> QED
  BY <1>1, <1>5, <1>6

LEMMA DmaWaitReadO2aInv ==
  ASSUME IInv, DmaWaitReadO2a
  PROVE  IInv'
<1>1. /\ UNCHANGED <<program, channelVars, target>> /\ pc = "dma_wait_o2a"
  BY DEF DmaWaitReadO2a, Unchanged
<1>2. CASE idma_tx_cplt(Idof(target), seen, done_id(1))
  <2>1. pc' = "ready" /\ told' = told \cup {target}
    BY <1>2 DEF DmaWaitReadO2a
  <2>2. target \in Started /\ (TellsApart => target[2] <= retired[target[1]])
    BY <1>2, DmaWaitTells
  <2> QED
    BY <1>1, <2>1, <2>2, ReportStep DEF IInv, SoundInv, WaitSound
<1>3. CASE ~idma_tx_cplt(Idof(target), seen, done_id(1))
  <2>1. pc' = "dma_wait" /\ told' = told
    BY <1>3 DEF DmaWaitReadO2a
  <2>2. TypesInv'
    BY <1>1, <2>1 DEF IInv, TypesInv, channelVars
  <2>3. WaitInv'
    BY <1>1, <2>1 DEF IInv, WaitInv, Started, channelVars
  <2> QED
    BY <1>1, <2>1, <2>2, <2>3, WaitStep
<1> QED
  BY <1>2, <1>3

\* The first channel has stayed idle since it was looked at: the program starts
\* nothing while it waits.
LEMMA BarrierTells ==
  ASSUME IInv, BarrierReadO2a, ~busy(1), NEW t \in Started
  PROVE  t[2] <= retired[t[1]]
<1>1. ~busy(0)
  BY DEF BarrierReadO2a, IInv, WaitInv
<1>2. t[1] \in Dirs /\ t[2] \in Nat /\ t[2] <= Len(jobs[t[1]])
  BY DEF Started
<1>3. retired[t[1]] \in Nat /\ Len(jobs[t[1]]) \in Nat
  BY <1>2, Lengths DEF IInv, TypesInv
<1>4. Len(jobs[t[1]]) <= retired[t[1]]
  BY <1>1, <1>2, <1>3 DEF busy, Dirs
<1> QED
  BY <1>2, <1>3, <1>4

LEMMA BarrierReadO2aInv ==
  ASSUME IInv, BarrierReadO2a
  PROVE  IInv'
<1>1. /\ UNCHANGED <<program, channelVars, target>> /\ pc = "barrier_o2a"
  BY DEF BarrierReadO2a, Unchanged
<1>2. CASE ~busy(1)
  <2>1. pc' = "ready" /\ told' = Started
    BY <1>2 DEF BarrierReadO2a
  <2> QED
    BY <1>1, <1>2, <2>1, BarrierTells, ReportStep
<1>3. CASE busy(1)
  <2>1. pc' = "barrier" /\ told' = told
    BY <1>3 DEF BarrierReadO2a
  <2>2. TypesInv' /\ WaitInv'
    BY <1>1, <2>1 DEF IInv, TypesInv, WaitInv, channelVars
  <2> QED
    BY <1>1, <2>1, <2>2, WaitStep
<1> QED
  BY <1>2, <1>3

LEMMA MmWaitTells ==
  ASSUME IInv, MmWaitReadDone, done_id(target[1]) = Idof(target)
  PROVE  target \in Started /\ target[2] <= retired[target[1]]
<1>1. target \in Started
  BY DEF MmWaitReadDone, IInv, WaitInv
<1>2. target[1] \in Dirs /\ target[2] \in Nat
  BY <1>1 DEF Started
<1>3. retired[target[1]] \in Nat
  BY <1>2 DEF IInv, TypesInv
<1> QED
  BY <1>1, <1>2, <1>3 DEF done_id, Idof

LEMMA MmWaitReadDoneInv ==
  ASSUME IInv, MmWaitReadDone
  PROVE  IInv'
<1>1. /\ UNCHANGED <<program, channelVars, target>> /\ pc = "mm_wait_done"
      /\ target \in Started
  BY DEF MmWaitReadDone, Unchanged, IInv, WaitInv
<1>2. CASE done_id(target[1]) = Idof(target)
  <2>1. pc' = "ready" /\ told' = told \cup {target}
    BY <1>2 DEF MmWaitReadDone
  <2> QED
    BY <1>1, <1>2, <2>1, MmWaitTells, ReportStep DEF IInv, SoundInv, WaitSound
<1>3. CASE done_id(target[1]) # Idof(target)
  <2>1. pc' = "mm_wait" /\ told' = told
    BY <1>3 DEF MmWaitReadDone
  <2>2. TypesInv'
    BY <1>1, <2>1 DEF IInv, TypesInv, channelVars
  <2>3. WaitInv'
    BY <1>1, <2>1 DEF IInv, WaitInv, Started, channelVars
  <2> QED
    BY <1>1, <2>1, <2>2, <2>3, WaitStep
<1> QED
  BY <1>2, <1>3

-----------------------------------------------------------------------------
(* The theorems.                                                           *)

LEMMA NextStep ==
  ASSUME IInv, [IdmaNext]_idmaVars
  PROVE  IInv'
<1>1. CASE UNCHANGED idmaVars
  BY <1>1 DEF idmaVars, channelVars, coreVars, IInv, TypesInv, CountInv, CallInv, Asked, Pending,
              Starts, WaitInv, Started, done_id, busy, SoundInv, WaitSound, StartAnswered,
              TellsApart
<1>2. ASSUME NEW d \in Dirs, Pop(d) \/ Retire(d)
      PROVE  IInv'
  BY <1>2, ChannelInv
<1>3. ASSUME NEW c \in program.calls, CallTransfer(c)
      PROVE  IInv'
  BY <1>3, CallStep
<1>4. ASSUME NEW t \in Started, CallDmaWait(t) \/ CallMmWait(t)
      PROVE  IInv'
  BY <1>4, StartWaitInv
<1>5. CASE CallBarrier
  <2>1. \E t : t \in Started
    BY <1>5 DEF CallBarrier
  <2> QED
    BY <1>5, <2>1, StartWaitInv
<1>6. CASE CoreInCall
  BY <1>6, WriteRegInv, ReadNextIdInv, LoseNextIdInv, ReadsInv, DmaWaitReadO2aInv,
     BarrierReadO2aInv, MmWaitReadDoneInv DEF CoreInCall
<1> QED
  BY <1>1, <1>2, <1>3, <1>4, <1>5, <1>6 DEF IdmaNext

\* Jobs are queued, taken and retired in order; a call touches one channel and
\* ends in its start; what a wait has read stays true while it reads on.
THEOREM InvariantHolds == IdmaSpec => []IInv
<1>1. IInv /\ [IdmaNext]_idmaVars => IInv'
  BY NextStep
<1> QED
  BY <1>1, InitInv, PTL DEF IdmaSpec

LEMMA ReportsNext ==
  ASSUME IInv, [IdmaNext]_idmaVars, NEW t \in told' \ told
  PROVE  \/ t[2] <= retired[t[1]]
         \/ pc = "dma_wait_o2a" /\ ~TellsApart /\ t[2] <= retired[1 - t[1]]
<1>1. DmaWaitReadO2a \/ BarrierReadO2a \/ MmWaitReadDone
  <2>1. told' # told
    OBVIOUS
  <2>2. ASSUME NEW d \in Dirs, Pop(d) \/ Retire(d)
        PROVE  FALSE
    BY <2>1, <2>2 DEF Pop, Retire
  <2>3. ASSUME NEW c \in program.calls, CallTransfer(c)
        PROVE  FALSE
    BY <2>1, <2>3 DEF CallTransfer
  <2>4. ASSUME NEW u \in Started, CallDmaWait(u) \/ CallMmWait(u)
        PROVE  FALSE
    BY <2>1, <2>4 DEF CallDmaWait, CallMmWait
  <2>5. ~CallBarrier /\ ~UNCHANGED idmaVars
    BY <2>1 DEF CallBarrier, idmaVars
  <2>6. CoreInCall
    BY <2>2, <2>3, <2>4, <2>5 DEF IdmaNext
  <2> QED
    BY <2>1, <2>6 DEF CoreInCall, WriteReg, ReadNextId, LoseNextId, DmaWaitReadA2o, BarrierReadA2o,
                      MmWaitTimeout, MmWaitReadStatus
<1>2. CASE DmaWaitReadO2a
  <2>1. idma_tx_cplt(Idof(target), seen, done_id(1)) /\ t = target /\ pc = "dma_wait_o2a"
    BY <1>2 DEF DmaWaitReadO2a
  <2> QED
    BY <1>2, <2>1, DmaWaitTells
<1>3. CASE BarrierReadO2a
  <2>1. ~busy(1) /\ t \in Started
    BY <1>3 DEF BarrierReadO2a
  <2> QED
    BY <1>3, <2>1, BarrierTells
<1>4. CASE MmWaitReadDone
  <2>1. done_id(target[1]) = Idof(target) /\ t = target
    BY <1>4 DEF MmWaitReadDone
  <2> QED
    BY <1>4, <2>1, MmWaitTells
<1> QED
  BY <1>1, <1>2, <1>3, <1>4

\* dma_barrier and idma_mm_wait_for_completion report only transfers that have
\* completed; so does dma_wait for a program that uses one direction, and for
\* another it reports a number that one of the channels has gone past.
THEOREM WaitsTellTheTruth == IdmaSpec => WaitReports
<1>1. IInv /\ [IdmaNext]_idmaVars =>
        [\A t \in told' \ told :
           \/ t[2] <= retired[t[1]]
           \/ pc = "dma_wait_o2a" /\ ~TellsApart /\ t[2] <= retired[1 - t[1]]]_idmaVars
  BY ReportsNext
<1> QED
  BY <1>1, InvariantHolds, PTL DEF IdmaSpec, WaitReports

\* A start hangs the core only if the program lets more transfers of a channel
\* be under way than its job queue holds, or cannot tell the two channels'
\* transfers apart: waits that tell the truth bound the queue.
THEOREM WaitingBoundsTheQueue == IdmaSpec => []StartAnswered
<1>1. IInv => StartAnswered
  BY DEF IInv
<1> QED
  BY <1>1, InvariantHolds, PTL

-----------------------------------------------------------------------------
(* A transfer is the one its call asked for, but for what a collective     *)
(* left.  This needs nothing of the programs: the registers of a channel   *)
(* belong to the call under way.                                           *)

\* The registers that a call writes.
OwnRegs(c) == IF c.collective THEN ConfigRegs ELSE TransferRegs

\* The registers hold what the call wants, or it has still to write that; and
\* all its accesses but the last are writes.
Written(d, c) ==
  /\ Starts(todo, d)
  /\ \A k \in 1 .. Len(todo) - 1 :
       /\ todo[k].we
       /\ reg_offset(todo[k].addr) \in ConfigRegs =>
            todo[k].wdata = Wanted(c)[reg_offset(todo[k].addr)]
  /\ \A r \in OwnRegs(c) :
       \/ regs[d][r] = Wanted(c)[r]
       \/ \E k \in 1 .. Len(todo) - 1 : reg_offset(todo[k].addr) = r

\* The mask and the operation of a channel are those of a collective, if any.
Left(d, r) ==
  \/ regs[d][r] = 0
  \/ \E i \in 1 .. Len(asked[d]) : /\ asked[d][i].collective
                                   /\ regs[d][r] = Wanted(asked[d][i])[r]

\* The calls and the transfers of a channel are in step, except in a call.
MatchInv ==
  /\ program \in Programs
  /\ regs \in [Dirs -> [ConfigRegs -> Nat]]
  /\ jobs \in [Dirs -> Seq([ConfigRegs -> Nat])]
  /\ asked \in [Dirs -> Seq(program.calls)]
  /\ pc \notin {"call", "hung"} => \A d \in Dirs : Len(asked[d]) = Len(jobs[d])
  /\ pc = "call" =>
       \E d \in Dirs :
         /\ Len(asked[d]) = Len(jobs[d]) + 1 /\ Written(d, asked[d][Len(asked[d])])
         /\ \A e \in Dirs \ {d} : Len(asked[e]) = Len(jobs[e])
  /\ \A d \in Dirs : Len(jobs[d]) <= Len(asked[d])
  /\ \A d \in Dirs, r \in CollectiveRegs : Left(d, r)
  /\ OnlyCollectivesStay

Elements(s) == {s[k] : k \in 1 .. Len(s)}

LEMMA ElementsConcat ==
  ASSUME NEW S, NEW s \in Seq(S), NEW t \in Seq(S)
  PROVE  s \o t \in Seq(S) /\ Elements(s \o t) = Elements(s) \cup Elements(t)
<1>1. /\ s \o t \in Seq(S) /\ Len(s \o t) = Len(s) + Len(t)
      /\ Len(s) \in Nat /\ Len(t) \in Nat
      /\ \A i \in 1 .. Len(s) + Len(t) : (s \o t)[i] = IF i <= Len(s) THEN s[i] ELSE t[i - Len(s)]
  BY ConcatProperties, LenProperties
<1>2. ASSUME NEW i \in 1 .. Len(s) + Len(t)
      PROVE  (s \o t)[i] \in Elements(s) \cup Elements(t)
  <2>1. CASE i <= Len(s)
    <3>1. i \in 1 .. Len(s)
      BY <1>1, <2>1
    <3> QED
      BY <1>1, <2>1, <3>1 DEF Elements
  <2>2. CASE ~(i <= Len(s))
    <3>1. i - Len(s) \in 1 .. Len(t)
      BY <1>1, <2>2
    <3> QED
      BY <1>1, <2>2, <3>1 DEF Elements
  <2> QED
    BY <2>1, <2>2
<1>3. ASSUME NEW i \in 1 .. Len(s)
      PROVE  s[i] \in Elements(s \o t)
  <2>1. i \in 1 .. Len(s) + Len(t) /\ i <= Len(s)
    BY <1>1
  <2>2. (s \o t)[i] = s[i]
    BY <1>1, <2>1
  <2> QED
    BY <1>1, <2>1, <2>2 DEF Elements
<1>4. ASSUME NEW i \in 1 .. Len(t)
      PROVE  t[i] \in Elements(s \o t)
  <2>1. /\ i + Len(s) \in 1 .. Len(s) + Len(t) /\ ~(i + Len(s) <= Len(s))
        /\ (i + Len(s)) - Len(s) = i
    BY <1>1
  <2>2. (s \o t)[i + Len(s)] = t[i]
    BY <1>1, <2>1
  <2> QED
    BY <1>1, <2>1, <2>2 DEF Elements
<1>5. Elements(s \o t) \subseteq Elements(s) \cup Elements(t)
  BY <1>1, <1>2 DEF Elements
<1>6. Elements(s) \subseteq Elements(s \o t) /\ Elements(t) \subseteq Elements(s \o t)
  BY <1>3, <1>4 DEF Elements
<1> QED
  BY <1>1, <1>5, <1>6

LEMMA ElementsFew ==
  ASSUME NEW a, NEW b, NEW c
  PROVE  /\ Elements(<<a>>) = {a}
         /\ Elements(<<a, b>>) = {a, b}
         /\ Elements(<<a, b, c>>) = {a, b, c}
<1>1. Elements(<<a>>) = {a}
  BY DEF Elements
<1>2. Elements(<<a, b>>) = {a, b}
  <2>1. Len(<<a, b>>) = 2 /\ <<a, b>>[1] = a /\ <<a, b>>[2] = b /\ 1 .. 2 = {1, 2}
    OBVIOUS
  <2> QED
    BY <2>1 DEF Elements
<1>3. Elements(<<a, b, c>>) = {a, b, c}
  <2>1. /\ Len(<<a, b, c>>) = 3 /\ 1 .. 3 = {1, 2, 3}
        /\ <<a, b, c>>[1] = a /\ <<a, b, c>>[2] = b /\ <<a, b, c>>[3] = c
    OBVIOUS
  <2> QED
    BY <2>1 DEF Elements
<1> QED
  BY <1>1, <1>2, <1>3

\* The writes of a call of one or two dimensions.
WritesOf(d, c) ==
  {Write(d, CONF, 3 * 1024 + (IF d = 1 THEN 2 ^ 12 ELSE 2 ^ 15)),
   Write(d, DST_ADDR_LOW, c.dst), Write(d, SRC_ADDR_LOW, c.src), Write(d, LENGTH_LOW, c.size),
   Write(d, DST_STRIDE_2, c.dst_stride), Write(d, SRC_STRIDE_2, c.src_stride),
   Write(d, REPS_2, c.reps),
   Write(d, DST_STRIDE_3, 0), Write(d, SRC_STRIDE_3, 0), Write(d, REPS_3, 1)}

CollectiveWrites(c) == {Write(1, MULTICAST_MASK, c.mask), Write(1, COLLECTIVE_SEL, c.op)}

AllWrites(c) == WritesOf(c.dir, c) \cup IF c.collective THEN CollectiveWrites(c) ELSE {}

\* A call makes its writes, and then its read.
LEMMA CallWrites ==
  ASSUME program \in Programs, NEW c \in program.calls
  PROVE  \E body \in Seq(AccessTo(c.dir)) :
           /\ Accesses(c) = body \o <<ReadOf(c.dir, NEXT_ID)>>
           /\ Elements(body) = AllWrites(c)
<1> DEFINE d == c.dir
           A == AccessTo(d)
           conf == idma_mm_conf_default_dir(d)
           addr == idma_mm_set_addr_len_dir(d, c.dst, c.src, c.size)
           two  == idma_mm_set_2d_params_dir(d, c.dst_stride, c.src_stride, c.reps)
           three == idma_mm_set_3d_params_dir(d, 0, 0, 1)
           both == <<Write(d, MULTICAST_MASK, c.mask), Write(d, COLLECTIVE_SEL, c.op)>>
           plain == conf \o addr \o two \o three
<1>1. /\ d \in Dirs /\ c.dst \in Nat /\ c.src \in Nat /\ c.size \in Nat /\ c.dst_stride \in Nat
      /\ c.src_stride \in Nat /\ c.reps \in Nat /\ c.mask \in Nat /\ c.op \in Nat
      /\ c.collective \in BOOLEAN
      /\ c.collective => d = 1 /\ c.dst_stride = 0 /\ c.src_stride = 0 /\ c.reps = 1
  OBVIOUS
<1>2. conf \in Seq(A) /\ addr \in Seq(A) /\ two \in Seq(A) /\ three \in Seq(A) /\ both \in Seq(A)
  BY <1>1, Parts
<1>3. /\ Elements(conf) = {Write(d, CONF, 3 * 1024 + (IF d = 1 THEN 2 ^ 12 ELSE 2 ^ 15))}
      /\ Elements(addr) = {Write(d, DST_ADDR_LOW, c.dst), Write(d, SRC_ADDR_LOW, c.src),
                           Write(d, LENGTH_LOW, c.size)}
      /\ Elements(two) = {Write(d, DST_STRIDE_2, c.dst_stride),
                          Write(d, SRC_STRIDE_2, c.src_stride), Write(d, REPS_2, c.reps)}
      /\ Elements(three) = {Write(d, DST_STRIDE_3, 0), Write(d, SRC_STRIDE_3, 0),
                            Write(d, REPS_3, 1)}
      /\ Elements(both) = {Write(d, MULTICAST_MASK, c.mask), Write(d, COLLECTIVE_SEL, c.op)}
  <2>1. \A a, b, e : /\ Elements(<<a>>) = {a} /\ Elements(<<a, b>>) = {a, b}
                    /\ Elements(<<a, b, e>>) = {a, b, e}
    BY ElementsFew
  <2>2. Elements(conf) = {Write(d, CONF, 3 * 1024 + (IF d = 1 THEN 2 ^ 12 ELSE 2 ^ 15))}
    <3> DEFINE w == Write(d, CONF, 3 * 1024 + (IF d = 1 THEN 2 ^ 12 ELSE 2 ^ 15))
    <3>1. conf = <<w>>
      BY DEF idma_mm_conf_default_dir
    <3> HIDE DEF w, conf
    <3>2. Elements(conf) = {w}
      BY <2>1, <3>1
    <3> QED
      BY <3>2 DEF w
  <2>3. Elements(addr) = {Write(d, DST_ADDR_LOW, c.dst), Write(d, SRC_ADDR_LOW, c.src),
                           Write(d, LENGTH_LOW, c.size)}
    <3> DEFINE u == Write(d, DST_ADDR_LOW, c.dst)
               v == Write(d, SRC_ADDR_LOW, c.src)
               w == Write(d, LENGTH_LOW, c.size)
    <3>1. addr = <<u, v, w>>
      BY DEF idma_mm_set_addr_len_dir
    <3> HIDE DEF u, v, w, addr
    <3>2. Elements(addr) = {u, v, w}
      BY <2>1, <3>1
    <3> QED
      BY <3>2 DEF u, v, w
  <2>4. Elements(two) = {Write(d, DST_STRIDE_2, c.dst_stride),
                          Write(d, SRC_STRIDE_2, c.src_stride), Write(d, REPS_2, c.reps)}
    <3> DEFINE u == Write(d, DST_STRIDE_2, c.dst_stride)
               v == Write(d, SRC_STRIDE_2, c.src_stride)
               w == Write(d, REPS_2, c.reps)
    <3>1. two = <<u, v, w>>
      BY DEF idma_mm_set_2d_params_dir
    <3> HIDE DEF u, v, w, two
    <3>2. Elements(two) = {u, v, w}
      BY <2>1, <3>1
    <3> QED
      BY <3>2 DEF u, v, w
  <2>5. Elements(three) = {Write(d, DST_STRIDE_3, 0), Write(d, SRC_STRIDE_3, 0),
                            Write(d, REPS_3, 1)}
    <3> DEFINE u == Write(d, DST_STRIDE_3, 0)
               v == Write(d, SRC_STRIDE_3, 0)
               w == Write(d, REPS_3, 1)
    <3>1. three = <<u, v, w>>
      BY DEF idma_mm_set_3d_params_dir
    <3> HIDE DEF u, v, w, three
    <3>2. Elements(three) = {u, v, w}
      BY <2>1, <3>1
    <3> QED
      BY <3>2 DEF u, v, w
  <2>6. Elements(both) = {Write(d, MULTICAST_MASK, c.mask), Write(d, COLLECTIVE_SEL, c.op)}
    BY ONLY <2>1, Zenon
  <2> QED
    BY ONLY <2>2, <2>3, <2>4, <2>5, <2>6
<1> HIDE DEF A, conf, addr, two, three, both
<1> DEFINE head == conf \o addr
           most == head \o two
<1>4. head \in Seq(A) /\ Elements(head) = Elements(conf) \cup Elements(addr)
  BY <1>2, ElementsConcat
<1> HIDE DEF head
<1>5. most \in Seq(A) /\ Elements(most) = Elements(head) \cup Elements(two)
  BY <1>2, <1>4, ElementsConcat
<1>10. plain = most \o three
  BY DEF head
<1> HIDE DEF most, plain
<1>6. /\ plain \in Seq(A)
      /\ Elements(plain) = Elements(conf) \cup Elements(addr) \cup Elements(two)
                              \cup Elements(three)
  <2>1. plain \in Seq(A) /\ Elements(plain) = Elements(most) \cup Elements(three)
    BY SMTT(30), <1>2, <1>5, <1>10, ElementsConcat
  <2> QED
    BY <1>4, <1>5, <2>1
<1>7. Elements(plain) = WritesOf(d, c)
  BY <1>3, <1>6 DEF WritesOf
<1>8. CASE ~c.collective
  <2>1. Accesses(c) = plain \o <<ReadOf(d, NEXT_ID)>>
    BY <1>8 DEF Accesses, Transfer, idma_mm_start_transfer_dir, conf, addr, two, three, plain
  <2> QED
    BY <1>6, <1>7, <1>8, <2>1 DEF A, AllWrites
<1>9. CASE c.collective
  <2>1. Accesses(c) = plain \o both \o <<ReadOf(d, NEXT_ID)>>
    BY <1>1, <1>9 DEF Accesses, collective, idma_mm_start_transfer_dir, conf, addr, two, three,
       both, plain
  <2>2. plain \o both \in Seq(A) /\ Elements(plain \o both) = Elements(plain) \cup Elements(both)
    BY <1>2, <1>6, ElementsConcat
  <2>3. Elements(both) = CollectiveWrites(c)
    BY <1>1, <1>3, <1>9 DEF CollectiveWrites
  <2> QED
    BY <1>7, <1>9, <2>1, <2>2, <2>3 DEF A, AllWrites
<1> QED
  BY <1>1, <1>8, <1>9

\* Each of those writes puts into its register what is wanted there, and every
\* register of a transfer is written, those of a collective by a collective.
LEMMA WritesWanted ==
  ASSUME program \in Programs, NEW c \in program.calls
  PROVE  /\ \A w \in AllWrites(c) : /\ w.we
                                    /\ reg_offset(w.addr) \in ConfigRegs =>
                                         w.wdata = Wanted(c)[reg_offset(w.addr)]
         /\ \A r \in OwnRegs(c) : \E w \in AllWrites(c) : reg_offset(w.addr) = r
<1> USE DEF AllWrites
<1>1. c.dir \in Dirs /\ (c.collective => c.dir = 1)
  OBVIOUS
<1>3. ConfigRegs \subseteq 0 .. 511
  BY DEF ConfigRegs, CollectiveRegs, TransferRegs, CONF, DST_ADDR_LOW, SRC_ADDR_LOW, LENGTH_LOW, DST_STRIDE_2, SRC_STRIDE_2,
     REPS_2, DST_STRIDE_3, SRC_STRIDE_3, REPS_3, MULTICAST_MASK, COLLECTIVE_SEL
<1> DEFINE v == 3 * 1024 + (IF c.dir = 1 THEN 2 ^ 12 ELSE 2 ^ 15)
<1>4. /\ Wanted(c)[CONF] = v
      /\ Wanted(c)[DST_ADDR_LOW] = c.dst /\ Wanted(c)[SRC_ADDR_LOW] = c.src
      /\ Wanted(c)[LENGTH_LOW] = c.size /\ Wanted(c)[DST_STRIDE_2] = c.dst_stride
      /\ Wanted(c)[SRC_STRIDE_2] = c.src_stride /\ Wanted(c)[REPS_2] = c.reps
      /\ Wanted(c)[DST_STRIDE_3] = 0 /\ Wanted(c)[SRC_STRIDE_3] = 0 /\ Wanted(c)[REPS_3] = 1
      /\ Wanted(c)[MULTICAST_MASK] = c.mask /\ Wanted(c)[COLLECTIVE_SEL] = c.op
  <2> DEFINE x == IF c.dir = 1 THEN 2 ^ 12 ELSE 2 ^ 15
  <2>1. \A r \in ConfigRegs : Wanted(c)[r] =
          CASE r = CONF -> v
            [] r = DST_ADDR_LOW -> c.dst          [] r = SRC_ADDR_LOW -> c.src
            [] r = LENGTH_LOW -> c.size           [] r = DST_STRIDE_2 -> c.dst_stride
            [] r = SRC_STRIDE_2 -> c.src_stride   [] r = REPS_2 -> c.reps
            [] r = MULTICAST_MASK -> c.mask       [] r = COLLECTIVE_SEL -> c.op
            [] r = REPS_3 -> 1                    [] OTHER -> 0
    BY DEF Wanted
  <2> HIDE DEF v
  <2> QED
    BY <2>1 DEF ConfigRegs, CollectiveRegs, TransferRegs, CONF, DST_ADDR_LOW, SRC_ADDR_LOW,
       LENGTH_LOW, DST_STRIDE_2, SRC_STRIDE_2, REPS_2, DST_STRIDE_3, SRC_STRIDE_3, REPS_3,
       MULTICAST_MASK, COLLECTIVE_SEL
<1> DEFINE P(w) == /\ w.we
                   /\ reg_offset(w.addr) \in ConfigRegs =>
                        w.wdata = Wanted(c)[reg_offset(w.addr)]
           Good(r) == \E w \in AllWrites(c) : reg_offset(w.addr) = r
<1>5. ASSUME NEW r \in ConfigRegs, NEW x, x = Wanted(c)[r]
      PROVE  P(Write(c.dir, r, x)) /\ reg_offset(Write(c.dir, r, x).addr) = r
  <2>1. c.dir \in Dirs /\ r \in 0 .. 511
    BY <1>1, <1>3
  <2>2. /\ Write(c.dir, r, x).we /\ Write(c.dir, r, x).wdata = x
        /\ reg_offset(Write(c.dir, r, x).addr) = r
    BY <2>1 DEF Write, reg_offset, direction, Addr, DIRECTION_OFFSET, Dirs
  <2> QED
    BY <2>2, <1>5
<1>6. /\ CONF \in TransferRegs /\ DST_ADDR_LOW \in TransferRegs /\ SRC_ADDR_LOW \in TransferRegs
      /\ LENGTH_LOW \in TransferRegs /\ DST_STRIDE_2 \in TransferRegs
      /\ SRC_STRIDE_2 \in TransferRegs /\ REPS_2 \in TransferRegs
      /\ DST_STRIDE_3 \in TransferRegs /\ SRC_STRIDE_3 \in TransferRegs /\ REPS_3 \in TransferRegs
      /\ MULTICAST_MASK \in CollectiveRegs /\ COLLECTIVE_SEL \in CollectiveRegs
      /\ TransferRegs \subseteq ConfigRegs /\ CollectiveRegs \subseteq ConfigRegs
  BY DEF TransferRegs, CollectiveRegs, ConfigRegs
<1>7. ASSUME NEW w \in CollectiveWrites(c), c.collective
      PROVE  P(w)
  BY <1>1, <1>4, <1>5, <1>6, <1>7 DEF CollectiveWrites
<1>8. \A w \in WritesOf(c.dir, c) : P(w)
  BY <1>4, <1>5, <1>6 DEF WritesOf
<1>9. ASSUME NEW r \in OwnRegs(c)
      PROVE  Good(r)
  <2>1. CASE r \in TransferRegs
    <3>1. \E x : x = Wanted(c)[r] /\ Write(c.dir, r, x) \in WritesOf(c.dir, c)
      BY <1>4, <2>1 DEF WritesOf, TransferRegs
    <3> QED
      BY <1>5, <1>6, <2>1, <3>1
  <2>2. CASE r \in CollectiveRegs /\ c.collective
    <3>1. \E x : x = Wanted(c)[r] /\ Write(c.dir, r, x) \in CollectiveWrites(c)
      BY <1>1, <1>4, <2>2 DEF CollectiveWrites, CollectiveRegs
    <3> QED
      BY <1>5, <1>6, <2>2, <3>1
  <2> QED
    BY <1>9, <2>1, <2>2 DEF OwnRegs, ConfigRegs
<1>10. \A w \in AllWrites(c) : P(w)
  BY <1>7, <1>8
<1> QED
  BY <1>9, <1>10

LEMMA PlainWanted ==
  ASSUME program \in Programs, NEW c \in program.calls, ~c.collective, NEW r \in CollectiveRegs
  PROVE  Wanted(c)[r] = 0
<1>1. c.mask = 0 /\ c.op = 0
  OBVIOUS
<1> DEFINE v == 3 * 1024 + (IF c.dir = 1 THEN 2 ^ 12 ELSE 2 ^ 15)
<1>2. r \in ConfigRegs
  BY DEF ConfigRegs
<1>3. Wanted(c)[r] =
        CASE r = CONF -> v
          [] r = DST_ADDR_LOW -> c.dst          [] r = SRC_ADDR_LOW -> c.src
          [] r = LENGTH_LOW -> c.size           [] r = DST_STRIDE_2 -> c.dst_stride
          [] r = SRC_STRIDE_2 -> c.src_stride   [] r = REPS_2 -> c.reps
          [] r = MULTICAST_MASK -> c.mask       [] r = COLLECTIVE_SEL -> c.op
          [] r = REPS_3 -> 1                    [] OTHER -> 0
  BY <1>2 DEF Wanted
<1> HIDE DEF v
<1> QED
  BY <1>1, <1>3 DEF CollectiveRegs, CONF, DST_ADDR_LOW, SRC_ADDR_LOW, LENGTH_LOW, DST_STRIDE_2,
     SRC_STRIDE_2, REPS_2, DST_STRIDE_3, SRC_STRIDE_3, REPS_3, MULTICAST_MASK, COLLECTIVE_SEL

LEMMA CallWritten ==
  ASSUME program \in Programs, NEW c \in program.calls, todo' = Accesses(c)
  PROVE  Written(c.dir, c)'
<1> DEFINE d == c.dir
           rd == ReadOf(d, NEXT_ID)
           A == AccessTo(d)
<1>1. d \in Dirs /\ Starts(todo', d)
  BY CallStarts
<1>2. PICK body \in Seq(A) :
        /\ todo' = body \o <<rd>>
        /\ Elements(body) = AllWrites(c)
  BY CallWrites
<1>3. /\ Len(todo') = Len(body) + 1 /\ Len(body) \in Nat
      /\ \A k \in 1 .. Len(body) : todo'[k] = body[k]
  <2>1. rd \in A
    BY <1>1, Writes DEF NEXT_ID
  <2> HIDE DEF rd, A
  <2>2. <<rd>> \in Seq(A) /\ Len(<<rd>>) = 1
    BY <2>1
  <2>3. Len(body) \in Nat
    BY <1>2, LenProperties
  <2>4. /\ Len(body \o <<rd>>) = Len(body) + Len(<<rd>>)
        /\ \A i \in 1 .. Len(body) + Len(<<rd>>) :
             (body \o <<rd>>)[i] = IF i <= Len(body) THEN body[i] ELSE <<rd>>[i - Len(body)]
    BY <1>2, <2>2, ConcatProperties
  <2>5. \A k \in 1 .. Len(body) : k \in 1 .. Len(body) + Len(<<rd>>) /\ k <= Len(body)
    BY <2>2, <2>3
  <2> QED
    BY <1>2, <2>2, <2>3, <2>4, <2>5
<1>4. Len(todo') - 1 = Len(body)
  BY <1>3
<1> DEFINE W == AllWrites(c)
<1>5. /\ \A w \in W : /\ w.we
                      /\ reg_offset(w.addr) \in ConfigRegs =>
                           w.wdata = Wanted(c)[reg_offset(w.addr)]
      /\ \A r \in OwnRegs(c) : \E w \in W : reg_offset(w.addr) = r
  BY WritesWanted
<1>6. /\ \A k \in 1 .. Len(body) : body[k] \in W
      /\ \A w \in W : \E k \in 1 .. Len(body) : w = body[k]
  BY <1>2 DEF Elements
<1> HIDE DEF W
<1>7. ASSUME NEW k \in 1 .. Len(todo') - 1
      PROVE  /\ todo'[k].we
             /\ reg_offset(todo'[k].addr) \in ConfigRegs =>
                  todo'[k].wdata = Wanted(c)[reg_offset(todo'[k].addr)]
  BY <1>3, <1>4, <1>5, <1>6
<1>8. ASSUME NEW r \in OwnRegs(c)
      PROVE  \E k \in 1 .. Len(todo') - 1 : reg_offset(todo'[k].addr) = r
  <2>1. PICK w \in W : reg_offset(w.addr) = r
    BY <1>5
  <2>2. PICK k \in 1 .. Len(body) : w = body[k]
    BY <1>6
  <2> QED
    BY <1>3, <1>4, <2>1, <2>2
<1> QED
  BY <1>1, <1>7, <1>8 DEF Written, Starts

LEMMA MatchCall ==
  ASSUME MatchInv, NEW c \in program.calls, CallTransfer(c)
  PROVE  MatchInv'
<1> DEFINE d == c.dir
<1>1. /\ pc = "ready" /\ pc' = "call" /\ todo' = Accesses(c)
      /\ asked' = [asked EXCEPT ![d] = Append(@, c)]
      /\ program' = program /\ regs' = regs /\ jobs' = jobs
  BY DEF CallTransfer, channelVars
<1>2. program \in Programs /\ d \in Dirs
  BY DEF MatchInv
<1>3. asked \in [Dirs -> Seq(program.calls)] /\ asked[d] \in Seq(program.calls)
  BY <1>2 DEF MatchInv
<1> HIDE DEF d
<1>4. /\ Append(asked[d], c) \in Seq(program.calls)
      /\ Len(Append(asked[d], c)) = Len(asked[d]) + 1
      /\ \A k \in 1 .. Len(asked[d]) : Append(asked[d], c)[k] = asked[d][k]
      /\ Append(asked[d], c)[Len(asked[d]) + 1] = c
  <2> DEFINE S == program.calls
             s == asked[d]
  <2>1. s \in Seq(S) /\ c \in S
    BY <1>3
  <2> HIDE DEF S, s
  <2>2. /\ Append(s, c) \in Seq(S) /\ Len(Append(s, c)) = Len(s) + 1
        /\ \A k \in 1 .. Len(s) : Append(s, c)[k] = s[k]
        /\ Append(s, c)[Len(s) + 1] = c
    BY ONLY <2>1, AppendProperties
  <2> QED
    BY <2>2 DEF S, s
<1>5. /\ asked' \in [Dirs -> Seq(program.calls)] /\ asked'[d] = Append(asked[d], c)
      /\ \A e \in Dirs \ {d} : asked'[e] = asked[e]
  BY <1>1, <1>2, <1>3, <1>4
<1>6. \A e \in Dirs : Len(asked[e]) = Len(jobs[e])
  BY <1>1 DEF MatchInv
<1>7. Written(d, c)'
  BY <1>1, <1>2, CallWritten DEF d
<1>8. /\ OnlyCollectivesStay'
      /\ \A e \in Dirs, r \in CollectiveRegs : Left(e, r)'
  <2>1. ASSUME NEW e \in Dirs
        PROVE  /\ \A k \in 1 .. Len(asked[e]) : asked'[e][k] = asked[e][k]
               /\ Len(asked[e]) \in Nat /\ Len(asked[e]) <= Len(asked'[e])
    <3>1. Len(asked[e]) \in Nat
      BY <1>3, LenProperties
    <3>2. CASE e = d
      <4>1. /\ \A k \in 1 .. Len(asked[d]) : asked'[d][k] = asked[d][k]
            /\ Len(asked'[d]) = Len(asked[d]) + 1
        BY <1>4, <1>5
      <4>2. Len(asked[d]) \in Nat
        BY <3>1, <3>2
      <4>3. Len(asked[d]) <= Len(asked'[d])
        BY <4>1, <4>2
      <4> QED
        BY <3>1, <3>2, <4>1, <4>3
    <3>3. CASE e # d
      BY <1>5, <3>1, <3>3
    <3> QED
      BY <3>2, <3>3
  <2>2. \A e \in Dirs, r \in CollectiveRegs : Left(e, r)'
    <3> SUFFICES ASSUME NEW e \in Dirs, NEW r \in CollectiveRegs
                 PROVE  Left(e, r)'
      OBVIOUS
    <3>1. Left(e, r)
      BY DEF MatchInv
    <3>2. \A i \in 1 .. Len(asked[e]) : i \in 1 .. Len(asked'[e])
      BY <2>1
    <3> QED
      BY <1>1, <2>1, <3>1, <3>2 DEF Left
  <2>3. ASSUME NEW e \in Dirs, NEW k \in 1 .. Len(jobs[e])
        PROVE  asked'[e][k] = asked[e][k] /\ \A i \in 1 .. k - 1 : asked'[e][i] = asked[e][i]
    <3>1. k \in 1 .. Len(asked[e]) /\ \A i \in 1 .. k - 1 : i \in 1 .. Len(asked[e])
      BY <1>6, <2>1
    <3> QED
      BY <2>1, <3>1
  <2>4. OnlyCollectivesStay'
    <3> SUFFICES ASSUME NEW e \in Dirs, NEW k \in 1 .. Len(jobs[e]), NEW r \in ConfigRegs
                 PROVE  jobs[e][k][r] = Wanted(asked'[e][k])[r] \/ Stays(e, k, r)'
      BY <1>1 DEF OnlyCollectivesStay
    <3>1. jobs[e][k][r] = Wanted(asked[e][k])[r] \/ Stays(e, k, r)
      BY DEF MatchInv, OnlyCollectivesStay
    <3>2. ASSUME Stays(e, k, r)
          PROVE  Stays(e, k, r)'
      <4>1. /\ r \in CollectiveRegs /\ ~asked'[e][k].collective
            /\ \E i \in 1 .. k - 1 : asked[e][i].collective /\ jobs[e][k][r] = Wanted(asked[e][i])[r]
        BY <2>3, <3>2 DEF Stays
      <4>2. PICK i \in 1 .. k - 1 : asked[e][i].collective /\ jobs[e][k][r] = Wanted(asked[e][i])[r]
        BY <4>1
      <4>3. asked'[e][i] = asked[e][i] /\ jobs'[e][k][r] = jobs[e][k][r]
        BY <1>1, <2>3
      <4> QED
        BY <4>1, <4>2, <4>3 DEF Stays
    <3> QED
      BY <2>3, <3>1, <3>2
  <2> QED
    BY <2>2, <2>4
<1>9. /\ Len(asked'[d]) = Len(jobs'[d]) + 1 /\ asked'[d][Len(asked'[d])] = c
      /\ \A e \in Dirs \ {d} : Len(asked'[e]) = Len(jobs'[e])
  BY <1>1, <1>2, <1>4, <1>5, <1>6
<1>10. \E e \in Dirs : /\ Len(asked'[e]) = Len(jobs'[e]) + 1
                       /\ Written(e, asked[e][Len(asked[e])])'
                       /\ \A f \in Dirs \ {e} : Len(asked'[f]) = Len(jobs'[f])
  <2>1. Written(d, asked[d][Len(asked[d])])'
    BY <1>7, <1>9 DEF Written
  <2> QED
    BY <1>2, <1>9, <2>1
<1>11. \A e \in Dirs : Len(jobs'[e]) <= Len(asked'[e])
  <2>1. \A e \in Dirs : Len(jobs'[e]) \in Nat /\ (Len(asked'[e]) = Len(jobs'[e]) + 1
                                                  \/ Len(asked'[e]) = Len(jobs'[e]))
    BY <1>1, <1>9, LenProperties DEF MatchInv
  <2> QED
    BY <2>1
<1> QED
  BY <1>1, <1>5, <1>8, <1>10, <1>11 DEF MatchInv

LEMMA MatchWrite ==
  ASSUME MatchInv, WriteReg
  PROVE  MatchInv'
<1> DEFINE a == Head(todo)
<1>1. /\ UNCHANGED <<program, jobs, pc, asked>>
      /\ pc = "call" /\ a.we /\ todo' = Tail(todo)
      /\ regs' = [regs EXCEPT ![direction(a.addr)][reg_offset(a.addr)] = a.wdata]
  BY DEF WriteReg
<1>2. PICK d \in Dirs :
         /\ Len(asked[d]) = Len(jobs[d]) + 1 /\ Written(d, asked[d][Len(asked[d])])
         /\ \A e \in Dirs \ {d} : Len(asked[e]) = Len(jobs[e])
  BY <1>1 DEF MatchInv
<1> DEFINE c == asked[d][Len(asked[d])]
<1> HIDE DEF c
<1>3. /\ Starts(todo, d)
      /\ \A k \in 1 .. Len(todo) - 1 :
           /\ todo[k].we
           /\ reg_offset(todo[k].addr) \in ConfigRegs =>
                todo[k].wdata = Wanted(c)[reg_offset(todo[k].addr)]
      /\ \A r \in OwnRegs(c) :
           \/ regs[d][r] = Wanted(c)[r]
           \/ \E k \in 1 .. Len(todo) - 1 : reg_offset(todo[k].addr) = r
  BY <1>2 DEF Written, c
<1>4. /\ a \in AccessTo(d) /\ Tail(todo) \in Seq(AccessTo(d))
      /\ Len(Tail(todo)) = Len(todo) - 1 /\ Len(todo) \in Nat \ {0} /\ a = todo[1]
      /\ \A i \in 1 .. Len(Tail(todo)) : Tail(todo)[i] = todo[i + 1]
  BY <1>3, HeadTailProperties, EmptySeq DEF Starts
<1>5. Len(todo) > 1
  <2>1. Len(todo) # 1
    BY <1>1, <1>3, <1>4 DEF Starts
  <2> QED
    BY <1>4, <2>1
<1>6. Starts(Tail(todo), d)
  <2>1. Tail(todo) # <<>>
    <3>1. \A n \in Nat : n > 1 => n - 1 # 0
      OBVIOUS
    <3>2. Len(Tail(todo)) # 0 /\ Len(<<>>) = 0
      BY <1>4, <1>5, <3>1
    <3> QED
      BY <3>2
  <2>2. Tail(todo)[Len(todo) - 1] = todo[Len(todo)]
    <3>1. Len(todo) - 1 \in 1 .. Len(Tail(todo)) /\ Len(todo) - 1 + 1 = Len(todo)
      BY <1>4, <1>5
    <3> QED
      BY <1>4, <3>1
  <2> QED
    BY <1>3, <1>4, <2>1, <2>2 DEF Starts
<1>7. direction(a.addr) = d /\ a.wdata \in Nat
  BY <1>4 DEF AccessTo, AnyAccess
<1>8. regs \in [Dirs -> [ConfigRegs -> Nat]]
  BY DEF MatchInv
<1> DEFINE o == reg_offset(a.addr)
<1>9. o \in ConfigRegs => a.wdata = Wanted(c)[o]
  <2>1. 1 \in 1 .. Len(todo) - 1
    BY <1>4, <1>5
  <2> QED
    BY <1>3, <1>4, <2>1
<1>10. /\ regs' = [regs EXCEPT ![d][o] = a.wdata]
       /\ \A k \in 1 .. Len(todo) - 1 : k # 1 => k - 1 \in 1 .. Len(Tail(todo)) - 1
                                                /\ Tail(todo)[k - 1] = todo[k]
       /\ \A k \in 1 .. Len(Tail(todo)) - 1 : k + 1 \in 1 .. Len(todo) - 1
                                               /\ Tail(todo)[k] = todo[k + 1]
       /\ \A k \in 1 .. Len(todo) - 1 : k = 1 => reg_offset(todo[k].addr) = o
  <2>1. \A k \in 1 .. Len(todo) - 1 : k # 1 => /\ k - 1 \in 1 .. Len(Tail(todo)) - 1
                                               /\ k - 1 \in 1 .. Len(Tail(todo))
                                               /\ (k - 1) + 1 = k
    BY <1>4, <1>5
  <2>2. \A k \in 1 .. Len(Tail(todo)) - 1 : k + 1 \in 1 .. Len(todo) - 1
                                            /\ k \in 1 .. Len(Tail(todo))
    BY <1>4, <1>5
  <2> QED
    BY <1>1, <1>4, <1>7, <2>1, <2>2
<1> HIDE DEF a, o
<1>11. /\ regs' \in [Dirs -> [ConfigRegs -> Nat]]
       /\ \A r \in ConfigRegs : regs'[d][r] = IF r = o THEN a.wdata ELSE regs[d][r]
       /\ \A e \in Dirs \ {d} : regs'[e] = regs[e]
  <2>2. regs' \in [Dirs -> [ConfigRegs -> Nat]]
    BY <1>7, <1>8, <1>10
  <2>3. regs'[d] = [regs[d] EXCEPT ![o] = a.wdata] /\ regs[d] \in [ConfigRegs -> Nat]
    BY <1>2, <1>8, <1>10
  <2> QED
    BY <1>8, <1>10, <2>2, <2>3
<1>12. ASSUME NEW r \in OwnRegs(c)
       PROVE  \/ regs'[d][r] = Wanted(c)[r]
              \/ \E k \in 1 .. Len(Tail(todo)) - 1 : reg_offset(Tail(todo)[k].addr) = r
  <2>0. r \in ConfigRegs
    BY DEF OwnRegs, ConfigRegs
  <2>1. CASE r = o
    BY <1>9, <1>11, <2>0, <2>1
  <2>2. CASE r # o /\ regs[d][r] = Wanted(c)[r]
    BY <1>11, <2>0, <2>2
  <2>3. CASE r # o /\ \E k \in 1 .. Len(todo) - 1 : reg_offset(todo[k].addr) = r
    <3>1. PICK k \in 1 .. Len(todo) - 1 : reg_offset(todo[k].addr) = r
      BY <2>3
    <3>2. k # 1
      BY <1>10, <2>3, <3>1
    <3> QED
      BY <1>10, <3>1, <3>2
  <2> QED
    BY <1>3, <2>1, <2>2, <2>3
<1>13. Written(d, asked[d][Len(asked[d])])'
  <2>1. c' = c
    BY <1>1 DEF c
  <2>2. ASSUME NEW k \in 1 .. Len(Tail(todo)) - 1
        PROVE  /\ Tail(todo)[k].we
               /\ reg_offset(Tail(todo)[k].addr) \in ConfigRegs =>
                    Tail(todo)[k].wdata = Wanted(c)[reg_offset(Tail(todo)[k].addr)]
    BY <1>3, <1>10
  <2>3. Starts(todo', d)
    BY <1>1, <1>6
  <2> QED
    BY <1>1, <1>12, <2>1, <2>2, <2>3 DEF Written, c, Starts
<1>14. OnlyCollectivesStay'
  <2>1. OnlyCollectivesStay
    BY DEF MatchInv
  <2>2. UNCHANGED <<jobs, asked>>
    BY <1>1
  <2> QED
    BY <2>1, <2>2 DEF OnlyCollectivesStay, Stays
<1>16. ASSUME NEW e \in Dirs, NEW r \in CollectiveRegs
       PROVE  Left(e, r)'
  <2>1. Left(e, r) /\ r \in ConfigRegs
    BY DEF MatchInv, ConfigRegs
  <2>2. CASE regs'[e][r] = regs[e][r]
    BY <1>1, <2>1, <2>2 DEF Left
  <2>3. CASE regs'[e][r] # regs[e][r]
    <3>1. e = d /\ r = o /\ regs'[d][r] = Wanted(c)[r]
      BY <1>9, <1>11, <2>1, <2>3
    <3>2. c \in program.calls /\ Len(asked[d]) \in 1 .. Len(asked[d])
      <4>1. asked[d] \in Seq(program.calls) /\ jobs[d] \in Seq([ConfigRegs -> Nat])
        BY <1>2 DEF MatchInv
      <4>2. Len(asked[d]) \in 1 .. Len(asked[d])
        BY <1>2, <4>1, LenProperties
      <4> QED
        BY <4>1, <4>2, ElementOfSeq DEF c
    <3>3. c.collective \/ Wanted(c)[r] = 0
      BY <3>2, PlainWanted DEF MatchInv
    <3> QED
      BY <1>1, <3>1, <3>2, <3>3 DEF Left, c
  <2> QED
    BY <2>2, <2>3
<1>15. \E e \in Dirs : /\ Len(asked'[e]) = Len(jobs'[e]) + 1
                       /\ Written(e, asked[e][Len(asked[e])])'
                       /\ \A f \in Dirs \ {e} : Len(asked'[f]) = Len(jobs'[f])
  BY <1>1, <1>2, <1>13
<1> QED
  BY <1>1, <1>11, <1>14, <1>15, <1>16 DEF MatchInv

\* The only read of a call is its last access, so that nothing is left to be
\* written when a transfer starts.
LEMMA MatchStart ==
  ASSUME MatchInv, ReadNextId
  PROVE  MatchInv'
<1>1. /\ UNCHANGED <<program, regs, asked>>
      /\ pc = "call" /\ pc' = "ready" /\ ~Head(todo).we
      /\ jobs' = [jobs EXCEPT ![direction(Head(todo).addr)] = Append(@, regs[direction(Head(todo).addr)])]
  BY DEF ReadNextId
<1>2. PICK d \in Dirs :
         /\ Len(asked[d]) = Len(jobs[d]) + 1 /\ Written(d, asked[d][Len(asked[d])])
         /\ \A e \in Dirs \ {d} : Len(asked[e]) = Len(jobs[e])
  BY <1>1 DEF MatchInv
<1>3. /\ Head(todo) \in AccessTo(d) /\ Head(todo) = todo[1] /\ Len(todo) \in Nat \ {0}
      /\ \A k \in 1 .. Len(todo) - 1 : todo[k].we
  BY <1>2, HeadTailProperties, EmptySeq DEF Written, Starts
<1>4. direction(Head(todo).addr) = d
  BY <1>3 DEF AccessTo
<1>5. 1 .. Len(todo) - 1 = {}
  <2>1. 1 \notin 1 .. Len(todo) - 1
    BY <1>1, <1>3
  <2> QED
    BY <1>3, <2>1
<1> DEFINE c == asked[d][Len(asked[d])]
<1>6. \A r \in OwnRegs(c) : regs[d][r] = Wanted(c)[r]
  BY <1>2, <1>5 DEF Written
<1>7. /\ jobs \in [Dirs -> Seq([ConfigRegs -> Nat])] /\ regs[d] \in [ConfigRegs -> Nat]
      /\ jobs[d] \in Seq([ConfigRegs -> Nat])
  BY DEF MatchInv
<1>8. /\ Append(jobs[d], regs[d]) \in Seq([ConfigRegs -> Nat])
      /\ Len(Append(jobs[d], regs[d])) = Len(jobs[d]) + 1 /\ Len(jobs[d]) \in Nat
      /\ \A k \in 1 .. Len(jobs[d]) : Append(jobs[d], regs[d])[k] = jobs[d][k]
      /\ Append(jobs[d], regs[d])[Len(jobs[d]) + 1] = regs[d]
  BY <1>7, AppendProperties
<1>9. /\ jobs' \in [Dirs -> Seq([ConfigRegs -> Nat])] /\ jobs'[d] = Append(jobs[d], regs[d])
      /\ \A e \in Dirs \ {d} : jobs'[e] = jobs[e]
  BY <1>1, <1>4, <1>7, <1>8
<1>12. ASSUME NEW r \in ConfigRegs, regs[d][r] # Wanted(c)[r]
       PROVE  /\ r \in CollectiveRegs /\ ~c.collective
              /\ \E i \in 1 .. Len(jobs[d]) : /\ asked[d][i].collective
                                              /\ regs[d][r] = Wanted(asked[d][i])[r]
  <2>1. r \in CollectiveRegs /\ ~c.collective
    BY <1>6, <1>12 DEF OwnRegs, ConfigRegs
  <2>2. Wanted(c)[r] = 0
    <3>1. c \in program.calls
      <4>1. asked[d] \in Seq(program.calls) /\ Len(asked[d]) \in 1 .. Len(asked[d])
        BY <1>2, <1>8, LenProperties DEF MatchInv
      <4> QED
        BY <4>1, ElementOfSeq
    <3> HIDE DEF c
    <3> QED
      BY <2>1, <3>1, PlainWanted DEF MatchInv
  <2>3. Left(d, r)
    BY <2>1 DEF MatchInv
  <2>4. PICK i \in 1 .. Len(asked[d]) : asked[d][i].collective /\ regs[d][r] = Wanted(asked[d][i])[r]
    BY <1>12, <2>2, <2>3 DEF Left
  <2>5. i # Len(asked[d])
    BY <2>1, <2>4
  <2>6. i \in 1 .. Len(jobs[d])
    BY <1>2, <1>8, <2>5
  <2> QED
    BY <2>1, <2>4, <2>6
<1>10. OnlyCollectivesStay'
  <2>1. SUFFICES ASSUME NEW e \in Dirs, NEW k \in 1 .. Len(jobs'[e]), NEW r \in ConfigRegs
                 PROVE  jobs'[e][k][r] = Wanted(asked[e][k])[r] \/ Stays(e, k, r)'
    BY <1>1 DEF OnlyCollectivesStay
  <2>5. ASSUME k \in 1 .. Len(jobs[e]), jobs'[e][k] = jobs[e][k]
        PROVE  jobs'[e][k][r] = Wanted(asked[e][k])[r] \/ Stays(e, k, r)'
    <3>1. jobs[e][k][r] = Wanted(asked[e][k])[r] \/ Stays(e, k, r)
      BY <2>5 DEF MatchInv, OnlyCollectivesStay
    <3>2. Stays(e, k, r) => Stays(e, k, r)'
      BY <1>1, <2>5 DEF Stays
    <3> QED
      BY <2>5, <3>1, <3>2
  <2>2. CASE e # d
    BY <1>9, <2>2, <2>5
  <2>3. CASE e = d /\ k = Len(jobs[d]) + 1
    <3>1. jobs'[e][k] = regs[d] /\ asked[e][k] = c /\ k - 1 = Len(jobs[d])
      BY <1>2, <1>8, <1>9, <2>3
    <3>2. regs[d][r] # Wanted(c)[r] => Stays(e, k, r)'
      BY <1>1, <1>12, <2>3, <3>1 DEF Stays
    <3> HIDE DEF c
    <3> QED
      BY <2>3, <3>1, <3>2
  <2>4. CASE e = d /\ k # Len(jobs[d]) + 1
    <3>1. k \in 1 .. Len(jobs[d])
      BY <1>8, <1>9, <2>4
    <3>2. jobs'[e][k] = jobs[d][k]
      BY <1>8, <1>9, <2>4, <3>1
    <3> QED
      BY <2>4, <2>5, <3>1, <3>2
  <2> QED
    BY <2>2, <2>3, <2>4
<1>11. \A e \in Dirs : Len(asked'[e]) = Len(jobs'[e])
  BY <1>1, <1>2, <1>8, <1>9
<1>13. ASSUME NEW e \in Dirs, NEW r \in CollectiveRegs
       PROVE  Left(e, r)'
  <2>1. Left(e, r) /\ regs' = regs /\ asked' = asked
    BY <1>1 DEF MatchInv
  <2> QED
    BY ONLY <2>1 DEF Left
<1>14. \A e \in Dirs : Len(jobs'[e]) <= Len(asked'[e])
  <2>1. \A e \in Dirs : Len(jobs'[e]) \in Nat
    BY <1>9, LenProperties
  <2> QED
    BY <1>11, <2>1
<1> QED
  BY <1>1, <1>9, <1>10, <1>11, <1>13, <1>14 DEF MatchInv

\* Every other step leaves the registers, the jobs and the calls alone.
LEMMA MatchOther ==
  ASSUME MatchInv, UNCHANGED <<program, regs, jobs, asked>>,
         \/ pc' # "call" /\ (pc' = "hung" \/ pc \notin {"call", "hung"})
         \/ pc' = pc /\ todo' = todo
  PROVE  MatchInv'
<1>1. /\ program' \in Programs /\ regs' \in [Dirs -> [ConfigRegs -> Nat]]
      /\ jobs' \in [Dirs -> Seq([ConfigRegs -> Nat])] /\ asked' \in [Dirs -> Seq(program'.calls)]
  BY DEF MatchInv
<1>2. OnlyCollectivesStay' /\ \A d \in Dirs, r \in CollectiveRegs : Left(d, r)'
  <2>1. OnlyCollectivesStay'
    BY DEF MatchInv, OnlyCollectivesStay, Stays
  <2>2. ASSUME NEW d \in Dirs, NEW r \in CollectiveRegs
        PROVE  Left(d, r)'
    <3>1. Left(d, r) /\ regs' = regs /\ asked' = asked
      BY DEF MatchInv
    <3> QED
      BY ONLY <3>1 DEF Left
  <2> QED
    BY <2>1, <2>2
<1>3. CASE pc' # "call" /\ (pc' = "hung" \/ pc \notin {"call", "hung"})
  BY <1>1, <1>2, <1>3 DEF MatchInv
<1>4. CASE pc' = pc /\ todo' = todo
  <2>1. \A d \in Dirs : Written(d, asked[d][Len(asked[d])]) <=> Written(d, asked[d][Len(asked[d])])'
    BY <1>4 DEF Written, Starts
  <2> QED
    BY <1>1, <1>2, <1>4, <2>1 DEF MatchInv
<1> QED
  BY <1>3, <1>4

LEMMA MatchNext ==
  ASSUME MatchInv, [IdmaNext]_idmaVars
  PROVE  MatchInv'
<1>1. CASE UNCHANGED idmaVars
  BY <1>1, MatchOther DEF idmaVars, channelVars, coreVars
<1>2. ASSUME NEW d \in Dirs, Pop(d) \/ Retire(d)
      PROVE  MatchInv'
  BY <1>2, MatchOther DEF Pop, Retire, coreVars
<1>3. ASSUME NEW c \in program.calls, CallTransfer(c)
      PROVE  MatchInv'
  BY <1>3, MatchCall
<1>4. ASSUME NEW t \in Started, CallDmaWait(t) \/ CallMmWait(t)
      PROVE  MatchInv'
  BY <1>4, MatchOther DEF CallDmaWait, CallMmWait, Unchanged, channelVars
<1>5. CASE CallBarrier
  BY <1>5, MatchOther DEF CallBarrier, Unchanged, channelVars
<1>6. CASE CoreInCall
  <2>1. CASE LoseNextId
    BY <2>1, MatchOther DEF LoseNextId, channelVars
  <2>2. CASE DmaWaitReadA2o \/ DmaWaitReadO2a
    BY <2>2, MatchOther DEF DmaWaitReadA2o, DmaWaitReadO2a, Unchanged, channelVars
  <2>3. CASE BarrierReadA2o \/ BarrierReadO2a
    BY <2>3, MatchOther DEF BarrierReadA2o, BarrierReadO2a, Unchanged, channelVars
  <2>4. CASE MmWaitTimeout \/ MmWaitReadStatus \/ MmWaitReadDone
    BY <2>4, MatchOther DEF MmWaitTimeout, MmWaitReadStatus, MmWaitReadDone, Unchanged, channelVars
  <2> QED
    BY <1>6, <2>1, <2>2, <2>3, <2>4, MatchWrite, MatchStart DEF CoreInCall
<1> QED
  BY <1>1, <1>2, <1>3, <1>4, <1>5, <1>6 DEF IdmaNext

LEMMA MatchInit == IdmaInit => MatchInv
<1> SUFFICES ASSUME IdmaInit
             PROVE  MatchInv
  OBVIOUS
<1>1. /\ \A d \in Dirs : jobs[d] = <<>> /\ asked[d] = <<>>
      /\ program \in Programs /\ pc = "ready"
  BY DEF IdmaInit
<1>2. jobs \in [Dirs -> Seq([ConfigRegs -> Nat])] /\ asked \in [Dirs -> Seq(program.calls)]
  BY DEF IdmaInit
<1>3. regs \in [Dirs -> [ConfigRegs -> Nat]]
  BY DEF IdmaInit
<1>4. OnlyCollectivesStay
  BY <1>1 DEF OnlyCollectivesStay
<1>5. \A d \in Dirs, r \in CollectiveRegs : Left(d, r)
  BY DEF IdmaInit, Left, ConfigRegs
<1>6. \A d \in Dirs : Len(jobs[d]) <= Len(asked[d])
  BY <1>1
<1> QED
  BY <1>1, <1>2, <1>3, <1>4, <1>5, <1>6 DEF MatchInv

\* Every transfer a channel accepts is the one its call asked for, whatever
\* earlier calls left in the registers, because each call writes all of a
\* transfer's registers before it reads NEXT_ID (idma_mm_utils.h 252 to 350);
\* but a plain transfer may keep the mask and the operation of an earlier
\* collective on its channel, which nothing sets back.
THEOREM JobsMatchCalls == IdmaSpec => []OnlyCollectivesStay
<1>1. MatchInv => OnlyCollectivesStay
  BY DEF MatchInv
<1>2. MatchInv /\ [IdmaNext]_idmaVars => MatchInv'
  BY MatchNext
<1> QED
  BY <1>1, <1>2, MatchInit, PTL DEF IdmaSpec

\* A program without collectives gets exactly the transfers it asks for.
THEOREM PlainJobsMatchCalls ==
  ASSUME \A p \in Programs : \A c \in p.calls : ~c.collective
  PROVE  IdmaSpec => []JobMatchesCall
<1>1. MatchInv => JobMatchesCall
  <2> SUFFICES ASSUME MatchInv, NEW d \in Dirs, NEW k \in 1 .. Len(jobs[d]), NEW r \in ConfigRegs
               PROVE  jobs[d][k][r] = Wanted(asked[d][k])[r]
    BY DEF JobMatchesCall
  <2>1. ASSUME NEW i \in 1 .. k - 1
        PROVE  ~asked[d][i].collective
    <3>1. asked[d] \in Seq(program.calls) /\ program \in Programs
      BY DEF MatchInv
    <3>2. Len(jobs[d]) <= Len(asked[d]) /\ Len(jobs[d]) \in Nat /\ Len(asked[d]) \in Nat
      <4>1. jobs[d] \in Seq([ConfigRegs -> Nat]) /\ Len(jobs[d]) <= Len(asked[d])
        BY DEF MatchInv
      <4> QED
        BY <3>1, <4>1, LenProperties
    <3>3. i \in 1 .. Len(asked[d])
      BY <3>2
    <3>4. asked[d][i] \in program.calls
      BY <3>1, <3>3, ElementOfSeq
    <3> QED
      BY <3>1, <3>4
  <2>2. ~Stays(d, k, r)
    BY <2>1 DEF Stays
  <2> QED
    BY <2>2 DEF MatchInv, OnlyCollectivesStay
<1>2. MatchInv /\ [IdmaNext]_idmaVars => MatchInv'
  BY MatchNext
<1> QED
  BY <1>1, <1>2, MatchInit, PTL DEF IdmaSpec
=============================================================================
