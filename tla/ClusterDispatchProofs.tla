----------------------- MODULE ClusterDispatchProofs -----------------------
(***************************************************************************)
(* Theorems about ClusterDispatch, for any number of workers and of        *)
(* dispatches.  What is said of joins, done events and task arguments      *)
(* holds as long as no poll times out: a wait that gives up returns before *)
(* the workers have (README, known divergences).  What is said of types,   *)
(* START, interrupts and calls holds however long a task takes.            *)
(***************************************************************************)
EXTENDS ClusterDispatch, FiniteSetTheorems, TLAPS

USE CoresAssumption, WidthAssumption, EntryAssumption, DispatchAssumption,
    EventsAssumption

(* Sets of workers and their sizes fit the counters.                       *)

LEMMA ModSmall ==
  ASSUME NEW n \in Nat, NEW m \in Nat, n < m
  PROVE  n % m = n
OBVIOUS

LEMMA CoreSets ==
  ASSUME NEW S \in SUBSET Cores
  PROVE  /\ IsFiniteSet(S)
         /\ Cardinality(S) \in 0 .. NCores
         /\ Cardinality(S) % CounterMod = Cardinality(S)
         /\ Cardinality(S) \in Counter
         /\ Cardinality(S) = 0 <=> S = {}
<1>1. NCores \in Nat
  BY FS_CardinalityType DEF NCores
<1>2. IsFiniteSet(S) /\ Cardinality(S) <= NCores
  BY FS_Subset DEF NCores
<1>3. Cardinality(S) \in Nat
  BY <1>2, FS_CardinalityType
<1>4. Cardinality(S) = 0 <=> S = {}
  BY <1>2, FS_EmptySet
<1>5. Cardinality(S) < CounterMod
  BY <1>1, <1>2, <1>3 DEF NCores
<1>6. Cardinality(S) % CounterMod = Cardinality(S)
  BY <1>3, <1>5, ModSmall
<1> QED
  BY <1>1, <1>2, <1>3, <1>4, <1>5, <1>6 DEF Counter

LEMMA NCoresType ==
  NCores \in Nat \ {0} /\ NCores \in Counter /\ Counter \subseteq Nat /\ 0 \in Counter
<1>1. NCores \in 0 .. NCores /\ NCores \in Counter /\ NCores # 0
  BY CoreSets DEF NCores
<1>2. NCores \in Nat
  BY <1>1
<1> QED
  BY <1>1, <1>2 DEF Counter

LEMMA SubsetCount ==
  ASSUME NEW T \in SUBSET Cores, NEW S \in SUBSET T
  PROVE  /\ Cardinality(S) <= Cardinality(T)
         /\ S # T => Cardinality(S) < Cardinality(T)
<1>1. IsFiniteSet(T) /\ Cardinality(T) \in Nat
  BY CoreSets
<1>2. /\ Cardinality(S) <= Cardinality(T)
      /\ Cardinality(S) = Cardinality(T) => S = T
  BY <1>1, FS_Subset
<1>3. Cardinality(S) \in Nat
  BY CoreSets
<1> QED
  BY <1>1, <1>2, <1>3

\* One more member: the counter's successor does not wrap.
LEMMA OneMore ==
  ASSUME NEW T \in SUBSET Cores, NEW S \in SUBSET T, NEW c \in T \ S
  PROVE  /\ Cardinality(S \cup {c}) = Cardinality(S) + 1
         /\ Succ(Cardinality(S)) = Cardinality(S \cup {c})
<1>1. IsFiniteSet(S) /\ Cardinality(S) \in Nat
  BY CoreSets
<1>2. Cardinality(S \cup {c}) = Cardinality(S) + 1
  BY <1>1, FS_AddElement
<1>3. S \cup {c} \in SUBSET Cores
  OBVIOUS
<1>4. Cardinality(S \cup {c}) % CounterMod = Cardinality(S \cup {c})
  BY <1>3, CoreSets
<1> QED
  BY <1>2, <1>4 DEF Succ

-----------------------------------------------------------------------------
(* What a clock edge does in a state of the invariant.                     *)

\* Neither counter stands at its quorum.
LEMMA Below ==
  ASSUME IInv
  PROVE  nb_done < nb_wait /\ nb_ack < nb_wait
<1>1. nb_wait \in Nat \ {0}
  BY DEF IInv, TypeOK, RegsTypeOK, Counter
<1>2. CASE mpc \notin InFlight
  BY <1>1, <1>2 DEF IInv, QuietInv
<1>3. CASE mpc \in InFlight
  <2>1. mask \in SUBSET Cores /\ nb_wait = Cardinality(mask)
    BY <1>3 DEF IInv, TypeOK, CallInv
  <2>2. Acked \in SUBSET mask /\ Ended \in SUBSET mask
    BY DEF Acked, Ended
  <2>3. /\ Acked # mask => Cardinality(Acked) < nb_wait
        /\ Ended # mask => Cardinality(Ended) < nb_wait
    BY <2>1, <2>2, SubsetCount
  <2> QED
    BY <1>1, <1>3, <2>3 DEF IInv, AckInv, DoneInv
<1> QED
  BY <1>2, <1>3

\* So a cycle without a write only moves the pulses on.
LEMMA QuietStep ==
  ASSUME IInv, QuietEdge
  PROVE  /\ done' = FALSE
         /\ nb_done' = nb_done /\ nb_ack' = nb_ack /\ start' = start
         /\ start_irq' = {}
         /\ irq_pending' = irq_pending \cup start_irq
<1>1. ~QuorumMet(nb_done) /\ ~QuorumMet(nb_ack)
  <2>1. nb_done \in Nat /\ nb_ack \in Nat /\ nb_wait \in Nat
    BY DEF IInv, TypeOK, RegsTypeOK, Counter
  <2> QED
    BY <2>1, Below DEF QuorumMet
<1> QED
  BY <1>1 DEF QuietEdge, Edge, Settle, LatchIrq

-----------------------------------------------------------------------------
(* The invariant holds initially.                                          *)

LEMMA InitInv ==
  ASSUME Init
  PROVE  IInv
<1>1. TypeOK
  <2>1. RegsTypeOK
    BY NCoresType DEF Init, RegsInit, RegsTypeOK
  <2> QED
    BY <2>1, NCoresType
       DEF Init, RegsInit, EuInit, EuTypeOK, TypeOK, Booting, WorkerPc
<1>2. ReadyInv
  <2>1. Cardinality(Armed) \in Nat
    BY CoreSets DEF Armed
  <2> QED
    BY <2>1 DEF Init, RegsInit, ReadyInv, Booting
<1>3. QuietInv /\ EventInv /\ PlaceInv /\ IrqInv /\ AckInv /\ DoneInv
  BY DEF Init, RegsInit, EuInit, QuietInv, EventInv, PlaceInv, IrqInv, AckInv,
         DoneInv, Calling, InFlight, Waiting, AtWork, Handling
<1>4. CallInv
  BY DEF Init, CallInv, Between, Calling, InFlight, Waiting
<1> QED
  BY <1>1, <1>2, <1>3, <1>4 DEF IInv

-----------------------------------------------------------------------------
(* Steps of the main core with no dispatch in flight.                      *)

\* What all of them have in common: nothing is in flight afterwards either,
\* the workers keep their places and nothing is counted.
LEMMA CalmStep ==
  ASSUME IInv, mpc \notin InFlight, mpc' \notin InFlight,
         QuietEdge, UNCHANGED workerVars,
         eu_buffer' \subseteq eu_buffer \cup DoneEvent \cup {"other"}
  PROVE  /\ QuietInv' /\ PlaceInv' /\ IrqInv' /\ AckInv' /\ DoneInv'
         /\ UNCHANGED <<nb_done, nb_ack, start, start_irq, irq_pending, done>>
         /\ "cluster_done" \notin eu_buffer'
<1>1. /\ start = {} /\ nb_ack = 0 /\ nb_done = 0
      /\ start_irq = {} /\ irq_pending = {}
      /\ done = FALSE /\ "cluster_done" \notin eu_buffer
      /\ \A c \in Cores : wpc[c] \notin AtWork
  BY DEF IInv, QuietInv, TypeOK, RegsTypeOK
<1>2. UNCHANGED <<nb_done, nb_ack, start, start_irq, irq_pending, done>>
  BY <1>1, QuietStep
<1>3. "cluster_done" \notin eu_buffer'
  BY <1>1 DEF DoneEvent
<1>4. QuietInv'
  BY <1>1, <1>2, <1>3 DEF QuietInv, workerVars
<1>5. PlaceInv' /\ IrqInv' /\ AckInv' /\ DoneInv'
  BY DEF PlaceInv, IrqInv, AckInv, DoneInv
<1> QED
  BY <1>2, <1>3, <1>4, <1>5

\* Armed is a set of places only.
LEMMA ArmedKept ==
  ASSUME wpc' = wpc
  PROVE  Armed' = Armed
BY DEF Armed

LEMMA BootStep ==
  ASSUME IInv, SetBinary \/ ClkEn \/ PollReady \/ Stop
  PROVE  IInv'
<1>0. Cardinality(Armed) \in Nat
  BY CoreSets DEF Armed
<1>1. /\ mpc \notin InFlight /\ mpc' \notin InFlight
      /\ QuietEdge /\ UNCHANGED workerVars /\ EuIdle(DoneEvent)
      /\ eu_buffer' = eu_buffer \cup DoneEvent /\ UNCHANGED eu_mask
  BY DEF SetBinary, ClkEn, PollReady, Stop, MainGoes, OnRegs, NoWrite,
         WriteBinary, WriteClkEn, EuIdle, EuLatch, InFlight, Waiting
<1>2. /\ QuietInv' /\ PlaceInv' /\ IrqInv' /\ AckInv' /\ DoneInv'
      /\ UNCHANGED <<nb_done, nb_ack, start, start_irq, irq_pending, done>>
  BY <1>1, CalmStep
<1>3. TypeOK'
  <2>1. RegsTypeOK' /\ nb_wait' # 0
    BY <1>2, NCoresType
       DEF IInv, TypeOK, RegsTypeOK, SetBinary, ClkEn, PollReady, Stop,
           NoWrite, WriteBinary, WriteClkEn, configVars
  <2>2. EuTypeOK'
    BY <1>1 DEF IInv, TypeOK, EuTypeOK, DoneEvent
  <2>3. /\ mpc' \in Booting \cup Between \cup Calling \cup InFlight
        /\ boots' \in Nat /\ epoch' = epoch /\ mask' = mask
    <3>1. CASE SetBinary
      BY <3>1 DEF IInv, TypeOK, SetBinary, MainGoes, Booting
    <3>2. CASE ClkEn
      BY <3>2 DEF IInv, TypeOK, ClkEn, MainGoes, Booting
    <3>3. CASE PollReady
      BY <3>3 DEF IInv, TypeOK, PollReady, MainGoes, Between
    <3>4. CASE Stop
      BY <3>4 DEF IInv, TypeOK, Stop, MainGoes, Booting
    <3> QED
      BY <3>1, <3>2, <3>3, <3>4
  <2> QED
    BY <1>1, <2>1, <2>2, <2>3 DEF IInv, TypeOK, workerVars
<1>4. ReadyInv'
  <2>1. Armed' = Armed
    BY <1>1, ArmedKept DEF workerVars
  <2>2. CASE PollReady
    <3>1. nb_ready' = nb_ready /\ nb_ready = NCores
      BY <2>2 DEF PollReady, ReadyReads1, NoWrite, configVars
    <3>2. Armed = Cores
      BY <1>0, <3>1, NCoresType, SubsetCount DEF IInv, ReadyInv, Armed, NCores
    <3> QED
      BY <2>1, <3>1, <3>2 DEF IInv, ReadyInv
  <2>3. CASE SetBinary \/ ClkEn \/ Stop
    BY <1>0, <2>1, <2>3
       DEF IInv, ReadyInv, SetBinary, ClkEn, Stop, MainGoes, WriteBinary,
           WriteClkEn, Booting
  <2> QED
    BY <2>2, <2>3
<1>5. EventInv' /\ CallInv'
  <2>1. /\ mpc' \in {"off", "clk_en", "poll_ready", "booted"}
        /\ mpc' = "booted" => mpc = "poll_ready"
        /\ epoch' = epoch /\ mask' = mask
    BY DEF SetBinary, ClkEn, PollReady, Stop, MainGoes
  <2>2. last' = last
    BY <1>1 DEF workerVars
  <2>3. EventInv'
    BY <2>1 DEF EventInv, Calling, InFlight, Waiting
  <2>4. \A c \in mask : Finished(c)
    BY DEF IInv, CallInv, SetBinary, ClkEn, PollReady, Stop, MainGoes, Between, Booting
  <2>5. CallInv'
    BY <2>1, <2>2, <2>4
       DEF IInv, CallInv, Finished, Between, Calling, InFlight, Waiting
  <2> QED
    BY <2>3, <2>5
<1> QED
  BY <1>2, <1>3, <1>4, <1>5 DEF IInv

\* Registers that are only written by the main core keep their values.
LEMMA NoWriteTypes ==
  ASSUME IInv, NoWrite
  PROVE  RegsTypeOK' /\ nb_wait' # 0
<1>1. /\ done' = FALSE
      /\ nb_done' = nb_done /\ nb_ack' = nb_ack /\ start' = start
      /\ start_irq' = {} /\ irq_pending' = irq_pending \cup start_irq
      /\ UNCHANGED configVars
  BY QuietStep DEF NoWrite
<1> QED
  BY <1>1 DEF IInv, TypeOK, RegsTypeOK, configVars

LEMMA ArmStep ==
  ASSUME IInv, UseOther \/ ArmMask \/ ArmClear \/ ArmEnable
  PROVE  IInv'
<1>1. /\ NoWrite /\ UNCHANGED workerVars
      /\ boots' = boots /\ epoch' = epoch /\ mask' = mask
  BY DEF UseOther, ArmMask, ArmClear, ArmEnable, OnEu, mainVars
<1>2. /\ mpc \in Between /\ mpc' \in Between
      /\ mpc' = "arm_clear" => eu_mask' = {}
      /\ mpc' = "arm_enable" => mpc = "arm_clear" /\ eu_mask' = eu_mask
      /\ mpc' = "armed" =>
           mpc = "arm_enable" /\ eu_mask' = eu_mask \cup {"cluster_done"}
      /\ eu_mask' \subseteq eu_mask \cup Events
      /\ eu_buffer' \subseteq eu_buffer \cup DoneEvent
  <2>1. CASE UseOther
    BY <2>1 DEF UseOther, eu_enable_events, EuLatch, mainVars, Between
  <2>2. CASE ArmMask
    BY <2>2 DEF ArmMask, EuDisableAll, EuLatch, MainGoes, Between
  <2>3. CASE ArmClear
    BY <2>3 DEF ArmClear, eu_clear_events, EuLatch, MainGoes, Between
  <2>4. CASE ArmEnable
    BY <2>4 DEF ArmEnable, eu_enable_events, EuLatch, MainGoes, Between
  <2> QED
    BY <2>1, <2>2, <2>3, <2>4
<1>3. mpc \notin InFlight /\ mpc' \notin InFlight
  BY <1>2 DEF Between, InFlight, Waiting
<1>4. QuietInv' /\ PlaceInv' /\ IrqInv' /\ AckInv' /\ DoneInv'
  BY <1>1, <1>2, <1>3, CalmStep DEF NoWrite
<1>5. TypeOK'
  <2>1. RegsTypeOK' /\ nb_wait' # 0
    BY <1>1, NoWriteTypes
  <2>2. EuTypeOK'
    BY <1>2 DEF IInv, TypeOK, EuTypeOK, DoneEvent
  <2> QED
    BY <1>1, <1>2, <2>1, <2>2 DEF IInv, TypeOK, workerVars
<1>6. ReadyInv'
  <2>1. Armed' = Armed /\ nb_ready' = nb_ready
    BY <1>1, ArmedKept DEF workerVars, NoWrite, configVars
  <2> QED
    BY <1>2, <2>1 DEF IInv, ReadyInv, Between, Booting
<1>7. EventInv'
  BY <1>2 DEF IInv, EventInv, Between, Calling, InFlight, Waiting
<1>8. CallInv'
  <2>1. last' = last
    BY <1>1 DEF workerVars
  <2>2. mpc' \notin Calling \cup InFlight
    BY <1>2 DEF Between, Calling, InFlight, Waiting
  <2> QED
    BY <1>1, <1>2, <2>1, <2>2 DEF IInv, CallInv, Finished, Calling
<1> QED
  BY <1>4, <1>5, <1>6, <1>7, <1>8 DEF IInv

LEMMA CallStep ==
  ASSUME IInv, SetNb \/ SetFunc \/ \E m \in SUBSET Cores : Dispatch(m)
  PROVE  IInv'
<1>1. /\ QuietEdge /\ UNCHANGED <<workerVars, boots, eu_mask, nb_ready, clk_en,
                                  entry_point>>
      /\ eu_buffer' = eu_buffer \cup DoneEvent
  BY DEF SetNb, SetFunc, Dispatch, OnRegs, EuIdle, EuLatch, NoWrite, WriteData,
         WriteNbCoresToWait, WriteTaskbin, configVars
<1>2. mpc \in {"armed"} \cup Calling /\ mpc' \in Calling
  BY DEF SetNb, SetFunc, Dispatch, MainGoes, Calling
<1>3. mpc \notin InFlight /\ mpc' \notin InFlight
  BY <1>2 DEF Calling, InFlight, Waiting
<1>4. /\ QuietInv' /\ PlaceInv' /\ IrqInv' /\ AckInv' /\ DoneInv'
      /\ UNCHANGED <<nb_done, nb_ack, start, start_irq, irq_pending, done>>
  BY <1>1, <1>3, CalmStep
<1>5. last \in [Cores -> Nat] /\ epoch \in Nat /\ \A c \in Cores : last[c] <= epoch
  BY DEF IInv, TypeOK, CallInv
<1>6. /\ epoch' \in Nat /\ epoch' <= MaxDispatch
      /\ mask' \subseteq Cores /\ mask' # {}
      /\ \A c \in Cores : last[c] < epoch'
  <2>1. CASE SetNb \/ SetFunc
    <3>1. epoch' = epoch /\ mask' = mask /\ mpc \in Calling
      BY <2>1 DEF SetNb, SetFunc, MainGoes, Calling
    <3>2. \A c \in Cores : last[c] # epoch
      BY <3>1 DEF IInv, CallInv, Finished
    <3> QED
      BY <1>5, <3>1, <3>2 DEF IInv, TypeOK, CallInv
  <2>2. ASSUME NEW m \in SUBSET Cores, Dispatch(m)
        PROVE  epoch' = epoch + 1 /\ epoch < MaxDispatch /\ mask' = m /\ m # {}
    BY <2>2 DEF Dispatch
  <2> QED
    BY <1>5, <2>1, <2>2
<1>7. /\ nb_wait' \in Counter /\ nb_wait' # 0
      /\ taskbin' \in Nat /\ data' \in Nat
      /\ mpc' \in {"set_func", "start"} => nb_wait' = Cardinality(mask')
      /\ mpc' = "start" => taskbin' = epoch'
  <2>1. /\ nb_wait \in Counter /\ nb_wait # 0 /\ taskbin \in Nat /\ data \in Nat
        /\ mask \in SUBSET Cores
    BY DEF IInv, TypeOK, RegsTypeOK
  <2>2. CASE SetNb
    <3>1. mask # {}
      BY <2>2 DEF SetNb, MainGoes, IInv, CallInv, Calling
    <3>2. Cardinality(mask) \in Counter \ {0}
      BY <2>1, <3>1, CoreSets
    <3>3. nb_wait' = Cardinality(mask)
      BY <2>1, <2>2, CoreSets DEF SetNb, WriteNbCoresToWait
    <3> QED
      BY <2>1, <2>2, <3>2, <3>3 DEF SetNb, MainGoes, WriteNbCoresToWait
  <2>3. CASE SetFunc
    BY <1>5, <2>1, <2>3
       DEF SetFunc, MainGoes, WriteTaskbin, IInv, CallInv, Calling
  <2>4. ASSUME NEW m \in SUBSET Cores, Dispatch(m)
        PROVE  /\ nb_wait' = nb_wait /\ taskbin' = taskbin /\ mpc' = "set_nb"
               /\ data' \in Nat
    BY <1>5, <2>1, <2>4 DEF Dispatch, MainGoes, WriteData, NoWrite, configVars
  <2> QED
    BY <2>1, <2>2, <2>3, <2>4
<1>8. TypeOK'
  <2>1. RegsTypeOK'
    BY <1>1, <1>4, <1>7 DEF IInv, TypeOK, RegsTypeOK
  <2>2. EuTypeOK'
    BY <1>1 DEF IInv, TypeOK, EuTypeOK, DoneEvent
  <2> QED
    BY <1>1, <1>2, <1>6, <1>7, <2>1, <2>2 DEF IInv, TypeOK, workerVars
<1>9. ReadyInv'
  <2>1. Armed' = Armed /\ nb_ready' = nb_ready
    BY <1>1, ArmedKept DEF workerVars
  <2> QED
    BY <1>2, <2>1 DEF IInv, ReadyInv, Calling, Booting
<1>10. EventInv'
  BY <1>1, <1>2 DEF IInv, EventInv, Calling, InFlight, Waiting
<1>11. CallInv'
  <2>1. last' = last
    BY <1>1 DEF workerVars
  <2>2. mpc' \notin Booting \cup Between \cup InFlight
    BY <1>2 DEF Booting, Between, Calling, InFlight, Waiting
  <2> QED
    BY <1>5, <1>6, <1>7, <2>1, <2>2 DEF CallInv, Finished
<1> QED
  BY <1>4, <1>8, <1>9, <1>10, <1>11 DEF IInv

-----------------------------------------------------------------------------
(* The dispatch itself.                                                    *)

\* With every worker armed and none at work, all wait for an interrupt.
LEMMA Waiters ==
  ASSUME IInv, mpc \notin Booting \cup InFlight
  PROVE  \A c \in Cores : wpc[c] \in {"wfi", "mret"}
<1>1. \A c \in Cores : wpc[c] \notin {"off", "ready"}
  BY DEF IInv, ReadyInv, Armed
<1>2. \A c \in Cores : wpc[c] \notin AtWork /\ wpc[c] \in WorkerPc
  BY DEF IInv, QuietInv, TypeOK
<1> QED
  BY <1>1, <1>2 DEF WorkerPc, AtWork

LEMMA StartStep ==
  ASSUME IInv, Start
  PROVE  IInv'
<1>1. /\ mpc = "start" /\ mpc' = "poll_start"
      /\ UNCHANGED <<workerVars, boots, epoch, mask, eu_mask, configVars>>
      /\ eu_buffer' = eu_buffer \cup DoneEvent
      /\ mask # {}
  BY DEF Start, MainGoes, OnRegs, EuIdle, EuLatch, WriteStartMask
<1>2. /\ start_irq = {} /\ irq_pending = {} /\ done = FALSE
      /\ "cluster_done" \notin eu_buffer
      /\ \A c \in Cores : wpc[c] \in {"wfi", "mret"}
  BY <1>1, Waiters DEF IInv, QuietInv, TypeOK, RegsTypeOK, InFlight, Waiting, Booting
<1>3. /\ done' = FALSE /\ nb_done' = 0 /\ nb_ack' = 0
      /\ start' = mask /\ start_irq' = mask /\ irq_pending' = {}
  <2>1. ~QuorumMet(0)
    BY DEF IInv, TypeOK, RegsTypeOK, Counter, QuorumMet
  <2> QED
    BY <1>2, <2>1 DEF Start, WriteStartMask, Edge, Settle, LatchIrq
<1>4. mask \in SUBSET Cores /\ \A c \in mask : ~Finished(c)
  BY <1>1 DEF IInv, TypeOK, CallInv, Calling
<1>5. /\ \A c \in mask : ~Finished(c)' /\ ~Entered(c)'
      /\ \A c \in Cores : wpc'[c] \in {"wfi", "mret"}
  BY <1>1, <1>2, <1>4 DEF Finished, Entered, workerVars
<1>6. Acked' = {} /\ Ended' = {} /\ mask' = mask
  BY <1>1, <1>5 DEF Acked, Ended
<1>7. TypeOK'
  <2>1. RegsTypeOK' /\ nb_wait' # 0
    BY <1>1, <1>3, <1>4, NCoresType DEF IInv, TypeOK, RegsTypeOK, configVars
  <2>2. EuTypeOK'
    BY <1>1 DEF IInv, TypeOK, EuTypeOK, DoneEvent
  <2> QED
    BY <1>1, <2>1, <2>2 DEF IInv, TypeOK, InFlight, workerVars
<1>8. ReadyInv'
  <2>1. Armed' = Armed /\ nb_ready' = nb_ready
    BY <1>1, ArmedKept DEF workerVars, configVars
  <2> QED
    BY <1>1, <2>1 DEF IInv, ReadyInv, Booting
<1>9. QuietInv' /\ EventInv' /\ CallInv'
  <2>1. QuietInv' /\ EventInv'
    BY <1>1 DEF QuietInv, IInv, EventInv, Calling, InFlight, Waiting
  <2>2. CallInv'
    BY <1>1 DEF IInv, CallInv, Finished, Booting, Between, Calling, InFlight, Waiting,
                workerVars, configVars
  <2> QED
    BY <2>1, <2>2
<1>10. PlaceInv' /\ IrqInv'
  BY <1>1, <1>3, <1>4, <1>5 DEF PlaceInv, IrqInv, AtWork, Handling
<1>11. AckInv' /\ DoneInv'
  <2>1. AckInv'
    BY <1>1, <1>3, <1>6, FS_EmptySet DEF AckInv, Waiting
  <2>2. "cluster_done" \notin eu_buffer'
    BY <1>1, <1>2 DEF DoneEvent
  <2>3. DoneInv'
    BY <1>1, <1>3, <1>6, <2>2, FS_EmptySet DEF DoneInv
  <2> QED
    BY <2>1, <2>3
<1> QED
  BY <1>7, <1>8, <1>9, <1>10, <1>11 DEF IInv

-----------------------------------------------------------------------------
(* Steps that only pass the pulses on: polls, waits, idle cycles.          *)

\* The workers keep their places and the registers their values.
PulseStep ==
  /\ NoWrite
  /\ UNCHANGED <<workerVars, boots, epoch, mask>>

\* The part of the invariant about workers and counters survives.
LEMMA PulseInFlight ==
  ASSUME IInv, PulseStep, mpc \in InFlight, mpc' \in InFlight
  PROVE  /\ RegsTypeOK' /\ nb_wait' # 0
         /\ ReadyInv' /\ CallInv' /\ PlaceInv' /\ IrqInv'
         /\ Acked' = Acked /\ Ended' = Ended /\ mask' = mask
         /\ done' = FALSE
         /\ nb_done' = nb_done /\ nb_ack' = nb_ack /\ start' = start
<1>1. /\ done' = FALSE
      /\ nb_done' = nb_done /\ nb_ack' = nb_ack /\ start' = start
      /\ start_irq' = {} /\ irq_pending' = irq_pending \cup start_irq
      /\ UNCHANGED <<configVars, workerVars, boots, epoch, mask>>
  BY QuietStep DEF PulseStep, NoWrite
<1>2. RegsTypeOK' /\ nb_wait' # 0
  BY NoWriteTypes DEF PulseStep
<1>3. /\ \A c : Finished(c)' = Finished(c) /\ Entered(c)' = Entered(c)
      /\ Acked' = Acked /\ Ended' = Ended
  BY <1>1 DEF Finished, Entered, Acked, Ended, workerVars
<1>4. mpc \notin Booting \cup Between \cup Calling /\ mpc' \notin Booting \cup Between \cup Calling
  BY DEF Booting, Between, Calling, InFlight, Waiting
<1>5. ReadyInv'
  <2>1. Armed' = Armed /\ nb_ready' = nb_ready
    BY <1>1, ArmedKept DEF workerVars, configVars
  <2> QED
    BY <1>4, <2>1 DEF IInv, ReadyInv
<1>6. CallInv'
  <2>1. last' = last
    BY <1>1 DEF workerVars
  <2> QED
    BY <1>1, <1>4, <2>1 DEF IInv, CallInv, configVars
<1>7. PlaceInv'
  BY <1>1, <1>3 DEF IInv, PlaceInv, workerVars, configVars
<1>8. IrqInv'
  BY <1>1, <1>3 DEF IInv, IrqInv, workerVars
<1> QED
  BY <1>1, <1>2, <1>3, <1>5, <1>6, <1>7, <1>8

\* A pulse step that keeps the dispatch in flight.
LEMMA PulseStays ==
  ASSUME IInv, PulseStep, mpc \in InFlight, mpc' \in InFlight,
         eu_buffer \subseteq eu_buffer',
         eu_buffer' \subseteq eu_buffer \cup DoneEvent \cup {"other"},
         eu_mask' = eu_mask,
         mpc' \in Waiting => mpc \in Waiting \/ start = {},
         mpc' = "poll_clear" => mpc = "poll_clear" \/ "cluster_done" \in eu_buffer
  PROVE  IInv'
<1>1. /\ RegsTypeOK' /\ nb_wait' # 0
      /\ ReadyInv' /\ CallInv' /\ PlaceInv' /\ IrqInv'
      /\ Acked' = Acked /\ Ended' = Ended /\ mask' = mask
      /\ done' = FALSE
      /\ nb_done' = nb_done /\ nb_ack' = nb_ack /\ start' = start
  BY PulseInFlight
<1>2. TypeOK'
  <2>1. EuTypeOK'
    BY DEF IInv, TypeOK, EuTypeOK, DoneEvent
  <2> QED
    BY <1>1, <2>1 DEF IInv, TypeOK, PulseStep, workerVars
<1>3. QuietInv' /\ EventInv'
  BY DEF IInv, QuietInv, EventInv, Calling, InFlight, Waiting
<1>4. AckInv'
  <2>1. mask # {}
    BY DEF IInv, CallInv
  <2> QED
    BY <1>1, <2>1 DEF IInv, AckInv
<1>5. DoneInv'
  <2>1. CASE Ended = mask
    BY <1>1, <2>1 DEF IInv, DoneInv
  <2>2. CASE Ended # mask
    <3>1. /\ nb_done = Cardinality(Ended) /\ ~done
          /\ "cluster_done" \notin eu_buffer /\ mpc # "poll_clear"
      BY <2>2 DEF IInv, DoneInv
    <3>2. "cluster_done" \notin eu_buffer'
      BY <3>1 DEF DoneEvent
    <3> QED
      BY <1>1, <2>2, <3>1, <3>2 DEF DoneInv
  <2> QED
    BY <2>1, <2>2
<1> QED
  BY <1>1, <1>2, <1>3, <1>4, <1>5 DEF IInv

\* A pulse step with which the wait returns.
LEMMA PulseLeaves ==
  ASSUME IInv, PulseStep, mpc \in Waiting, mpc' = "booted",
         "cluster_done" \in eu_buffer,
         "cluster_done" \notin eu_buffer', eu_buffer' \subseteq eu_buffer,
         eu_mask' = eu_mask
  PROVE  IInv'
<1>1. /\ done' = FALSE
      /\ nb_done' = nb_done /\ nb_ack' = nb_ack /\ start' = start
      /\ start_irq' = {} /\ irq_pending' = irq_pending \cup start_irq
      /\ UNCHANGED <<configVars, workerVars, boots, epoch, mask>>
  BY QuietStep DEF PulseStep, NoWrite
<1>2. mpc \in InFlight /\ mpc \notin Booting /\ mpc' \notin InFlight
  BY DEF InFlight, Waiting, Booting
<1>3. Ended = mask /\ Acked = mask
  BY <1>2 DEF IInv, DoneInv, AckInv
<1>4. start = {} /\ nb_ack = 0 /\ nb_done = 0
  BY <1>2, <1>3 DEF IInv, DoneInv, AckInv
<1>5. \A c \in mask : Finished(c) /\ wpc[c] # "done"
  BY <1>3 DEF Ended
<1>6. start_irq \cup irq_pending = {}
  BY <1>2, <1>5 DEF IInv, IrqInv
<1>7. \A c \in Cores : wpc[c] \notin AtWork
  BY <1>2, <1>5 DEF IInv, PlaceInv, AtWork
<1>8. QuietInv'
  BY <1>1, <1>4, <1>6, <1>7 DEF QuietInv, workerVars
<1>9. TypeOK'
  <2>1. RegsTypeOK' /\ nb_wait' # 0
    BY NoWriteTypes DEF PulseStep
  <2>2. EuTypeOK'
    BY DEF IInv, TypeOK, EuTypeOK
  <2> QED
    BY <1>1, <2>1, <2>2 DEF IInv, TypeOK, Between, workerVars
<1>10. ReadyInv'
  <2>1. Armed' = Armed /\ nb_ready' = nb_ready
    BY <1>1, ArmedKept DEF workerVars, configVars
  <2> QED
    BY <1>2, <2>1 DEF IInv, ReadyInv
<1>11. CallInv'
  <2>1. \A c : Finished(c)' = Finished(c)
    BY <1>1 DEF Finished, workerVars
  <2>2. \A c \in Cores : last'[c] <= epoch'
    BY <1>1 DEF IInv, CallInv, workerVars
  <2> QED
    BY <1>1, <1>2, <1>5, <2>1, <2>2 DEF CallInv, Calling
<1>12. EventInv' /\ PlaceInv' /\ IrqInv' /\ AckInv' /\ DoneInv'
  BY <1>2 DEF EventInv, PlaceInv, IrqInv, AckInv, DoneInv, Calling
<1> QED
  BY <1>8, <1>9, <1>10, <1>11, <1>12 DEF IInv

\* A pulse step before or between dispatches.
LEMMA PulseCalm ==
  ASSUME IInv, PulseStep, mpc \notin InFlight, mpc' = mpc,
         eu_buffer' \subseteq eu_buffer \cup DoneEvent \cup {"other"},
         eu_mask' = eu_mask
  PROVE  IInv'
<1>1. QuietEdge /\ UNCHANGED <<configVars, workerVars, boots, epoch, mask>>
  BY DEF PulseStep, NoWrite
<1>2. QuietInv' /\ PlaceInv' /\ IrqInv' /\ AckInv' /\ DoneInv'
  BY <1>1, CalmStep
<1>3. TypeOK'
  <2>1. RegsTypeOK' /\ nb_wait' # 0
    BY NoWriteTypes DEF PulseStep
  <2>2. EuTypeOK'
    BY DEF IInv, TypeOK, EuTypeOK, DoneEvent
  <2> QED
    BY <1>1, <2>1, <2>2 DEF IInv, TypeOK, workerVars
<1>4. ReadyInv'
  <2>1. Armed' = Armed /\ nb_ready' = nb_ready
    BY <1>1, ArmedKept DEF workerVars, configVars
  <2> QED
    BY <2>1 DEF IInv, ReadyInv
<1>5. EventInv'
  BY DEF IInv, EventInv
<1>6. CallInv'
  <2>1. last' = last
    BY <1>1 DEF workerVars
  <2> QED
    BY <1>1, <2>1 DEF IInv, CallInv, Finished, configVars
<1> QED
  BY <1>2, <1>3, <1>4, <1>5, <1>6 DEF IInv

LEMMA WaitStep ==
  ASSUME IInv, PollStart \/ WaitEnable \/ PollSees \/ WaitWfe \/ PollClear
  PROVE  IInv'
<1>1. PulseStep
  BY DEF PollStart, WaitEnable, PollSees, WaitWfe, PollClear, OnRegs, OnEu, PulseStep
<1>2. /\ mpc \in InFlight /\ eu_mask = {"cluster_done"}
      /\ PollStart \/ WaitEnable \/ PollSees => mpc' \in InFlight
      /\ ~PollStart => mpc \in Waiting
      /\ mpc' = "poll_clear" => PollSees
  BY DEF PollStart, WaitEnable, PollSees, WaitWfe, PollClear, MainGoes, InFlight,
         Waiting, IInv, EventInv
<1>3. CASE PollStart
  BY <1>1, <1>2, <1>3, PulseStays
     DEF PollStart, MainGoes, OnRegs, EuIdle, EuLatch
<1>4. CASE WaitEnable
  <2>1. eu_mask' = eu_mask /\ eu_buffer' = eu_buffer \cup DoneEvent
    BY <1>2, <1>4 DEF WaitEnable, eu_enable_events, EuLatch
  <2>2. mpc' # "poll_clear"
    BY <1>4 DEF WaitEnable
  <2>3. mpc \in InFlight /\ mpc' \in InFlight /\ mpc \in Waiting
    BY <1>2, <1>4 DEF WaitEnable, Waiting
  <2> QED
    BY <1>1, <2>1, <2>2, <2>3, PulseStays
<1>5. CASE PollSees
  <2>1. eu_mask' = eu_mask /\ eu_buffer' = eu_buffer \cup DoneEvent
    BY <1>5 DEF PollSees, EuIdle, EuLatch
  <2>2. "cluster_done" \in eu_buffer
    BY <1>5 DEF PollSees, EuSees, EuMasked
  <2>3. mpc \in InFlight /\ mpc' \in InFlight /\ mpc \in Waiting
    BY <1>2, <1>5 DEF PollSees, MainGoes, Waiting
  <2> QED
    BY <1>1, <2>1, <2>2, <2>3, PulseStays
<1>6. "cluster_done" \in eu_buffer => DoneEvent = {}
  BY <1>2 DEF IInv, DoneInv, DoneEvent
<1>7. CASE WaitWfe
  <2>1. /\ "cluster_done" \in eu_buffer /\ EuMasked = {"cluster_done"}
        /\ mpc' = "booted" /\ mpc \in Waiting /\ eu_mask' = eu_mask
        /\ eu_buffer' = eu_buffer \ {"cluster_done"}
    BY <1>2, <1>6, <1>7 DEF WaitWfe, MainGoes, Waiting, eu_evt_waitAndClr, EuMasked, EuLatch
  <2> QED
    BY <1>1, <2>1, PulseLeaves
<1>8. CASE PollClear
  <2>1. mpc = "poll_clear" /\ mpc' = "booted" /\ mpc \in Waiting
    BY <1>8 DEF PollClear, MainGoes, Waiting
  <2>2. "cluster_done" \in eu_buffer
    BY <1>2, <2>1 DEF IInv, DoneInv
  <2>3. eu_buffer' = eu_buffer \ {"cluster_done"} /\ eu_mask' = eu_mask
    BY <1>6, <1>8, <2>2 DEF PollClear, eu_clear_events, EuLatch
  <2> QED
    BY <1>1, <2>1, <2>2, <2>3, PulseLeaves
<1> QED
  BY <1>3, <1>4, <1>5, <1>7, <1>8

LEMMA TileStep ==
  ASSUME IInv, Idle \/ OtherEvent
  PROVE  IInv'
<1>1. /\ PulseStep /\ mpc' = mpc /\ eu_mask' = eu_mask
      /\ eu_buffer \subseteq eu_buffer'
      /\ eu_buffer' \subseteq eu_buffer \cup DoneEvent \cup {"other"}
  BY DEF Idle, OtherEvent, PulseStep, mainVars, EuIdle, EuLatch
<1>2. CASE mpc \in InFlight
  BY <1>1, <1>2, PulseStays
<1>3. CASE mpc \notin InFlight
  BY <1>1, <1>3, PulseCalm
<1> QED
  BY <1>2, <1>3

-----------------------------------------------------------------------------
(* Steps of a worker with no dispatch in flight: booting, and returning    *)
(* from the handler of a dispatch already joined.                          *)

LEMMA CalmWorker ==
  ASSUME IInv, mpc \notin InFlight, NEW c \in Cores, NEW to \in WorkerPc \ AtWork,
         wpc' = [wpc EXCEPT ![c] = to], UNCHANGED <<a0, t1, last>>,
         UNCHANGED mainVars, QuietEdge, EuIdle(DoneEvent),
         UNCHANGED <<clk_en, entry_point, nb_wait, taskbin, data>>,
         nb_ready' \in Counter, ReadyInv'
  PROVE  IInv'
<1>1. /\ UNCHANGED <<mpc, boots, epoch, mask, eu_mask>>
      /\ eu_buffer' = eu_buffer \cup DoneEvent
  BY DEF mainVars, EuIdle, EuLatch
<1>2. /\ start = {} /\ nb_ack = 0 /\ nb_done = 0
      /\ start_irq = {} /\ irq_pending = {}
      /\ done = FALSE /\ "cluster_done" \notin eu_buffer
      /\ \A d \in Cores : wpc[d] \notin AtWork
  BY DEF IInv, QuietInv, TypeOK, RegsTypeOK
<1>3. UNCHANGED <<nb_done, nb_ack, start, start_irq, irq_pending, done>>
  BY <1>2, QuietStep
<1>4. wpc \in [Cores -> WorkerPc]
  BY DEF IInv, TypeOK
<1>5. QuietInv'
  <2>1. \A d \in Cores : wpc'[d] \notin AtWork
    BY <1>2, <1>4
  <2> QED
    BY <1>1, <1>2, <1>3, <2>1 DEF QuietInv, DoneEvent
<1>6. TypeOK'
  <2>1. RegsTypeOK'
    BY <1>3 DEF IInv, TypeOK, RegsTypeOK
  <2>2. EuTypeOK'
    BY <1>1 DEF IInv, TypeOK, EuTypeOK, DoneEvent
  <2>3. wpc' \in [Cores -> WorkerPc]
    BY <1>4
  <2> QED
    BY <1>1, <2>1, <2>2, <2>3 DEF IInv, TypeOK
<1>7. EventInv'
  BY <1>1 DEF IInv, EventInv
<1>8. CallInv'
  BY <1>1 DEF IInv, CallInv, Finished
<1>9. PlaceInv' /\ IrqInv' /\ AckInv' /\ DoneInv'
  BY <1>1 DEF PlaceInv, IrqInv, AckInv, DoneInv
<1> QED
  BY <1>5, <1>6, <1>7, <1>8, <1>9 DEF IInv

LEMMA BootWorkerStep ==
  ASSUME IInv, NEW c \in Cores, Boot(c) \/ SignalReady(c)
  PROVE  IInv'
<1>1. wpc \in [Cores -> WorkerPc] /\ nb_ready \in Counter
  BY DEF IInv, TypeOK, RegsTypeOK
<1>2. c \notin Armed /\ mpc \in Booting /\ mpc' = mpc
  <2>1. wpc[c] \in {"off", "ready"} /\ mpc' = mpc
    BY DEF Boot, SignalReady, WorkerGoes, mainVars
  <2> QED
    BY <2>1 DEF IInv, ReadyInv, Armed
<1>3. mpc \notin InFlight
  BY <1>2 DEF Booting, InFlight, Waiting
<1>4. Cardinality(Armed) \in Nat /\ IsFiniteSet(Armed)
  BY CoreSets DEF Armed
<1>5. CASE Boot(c)
  <2>1. wpc' = [wpc EXCEPT ![c] = "ready"] /\ NoWrite
    BY <1>5 DEF Boot, WorkerGoes
  <2>2. Armed' = Armed
    BY <1>1, <1>2, <2>1 DEF Armed
  <2>3. ReadyInv' /\ nb_ready' \in Counter
    BY <1>1, <1>2, <2>1, <2>2 DEF IInv, ReadyInv, NoWrite, configVars
  <2>4. "ready" \in WorkerPc \ AtWork
    BY DEF WorkerPc, AtWork, Handling
  <2> QED
    BY <1>3, <1>5, <2>1, <2>3, <2>4, CalmWorker
       DEF Boot, WorkerGoes, NoWrite, configVars
<1>6. CASE SignalReady(c)
  <2>1. wpc' = [wpc EXCEPT ![c] = "wfi"] /\ WriteReady
    BY <1>6 DEF SignalReady, WorkerGoes
  <2>2. Armed' = Armed \cup {c}
    BY <1>1, <2>1 DEF Armed
  <2>3. Cardinality(Armed') = Cardinality(Armed) + 1
    BY <1>2, <1>4, <2>2, FS_AddElement
  <2>4. nb_ready' \in Counter /\ nb_ready' <= nb_ready + 1
    BY <1>1, <2>1, NCoresType DEF WriteReady, Counter, NCores
  <2>5. ReadyInv'
    BY <1>1, <1>2, <1>4, <2>3, <2>4, NCoresType DEF IInv, ReadyInv
  <2>6. "wfi" \in WorkerPc \ AtWork
    BY DEF WorkerPc, AtWork, Handling
  <2> QED
    BY <1>3, <1>6, <2>1, <2>4, <2>5, <2>6, CalmWorker
       DEF SignalReady, WorkerGoes, WriteReady
<1> QED
  BY <1>5, <1>6

-----------------------------------------------------------------------------
(* Steps of a worker with a dispatch in flight.                            *)

\* Everything but the worker's place, the interrupts and the counters.
LEMMA FlightWorker ==
  ASSUME IInv, mpc \in InFlight, NEW c \in Cores,
         NEW to \in WorkerPc \ {"off", "ready"},
         wpc[c] \notin {"off", "ready"}, wpc' = [wpc EXCEPT ![c] = to],
         UNCHANGED <<mainVars, configVars>>, EuIdle(DoneEvent),
         last' = last \/ last' = [last EXCEPT ![c] = epoch],
         \A d \in Cores \ {c} : t1'[d] = t1[d]
  PROVE  /\ EuTypeOK' /\ ReadyInv' /\ QuietInv' /\ EventInv' /\ CallInv'
         /\ mpc' = mpc /\ mask' = mask /\ epoch' = epoch
         /\ eu_buffer' = eu_buffer \cup DoneEvent
         /\ wpc' \in [Cores -> WorkerPc] /\ last' \in [Cores -> Nat]
         /\ wpc'[c] = to
         /\ \A d \in Cores \ {c} : /\ wpc'[d] = wpc[d]
                                   /\ Finished(d)' = Finished(d)
                                   /\ Entered(d)' = Entered(d)
<1>1. /\ UNCHANGED <<mpc, boots, epoch, mask, eu_mask, configVars>>
      /\ eu_buffer' = eu_buffer \cup DoneEvent
  BY DEF mainVars, EuIdle, EuLatch
<1>2. /\ wpc \in [Cores -> WorkerPc] /\ last \in [Cores -> Nat] /\ epoch \in Nat
      /\ mask \in SUBSET Cores
  BY DEF IInv, TypeOK
<1>3. wpc' \in [Cores -> WorkerPc] /\ last' \in [Cores -> Nat]
  BY <1>2
<1>4. EuTypeOK'
  BY <1>1 DEF IInv, TypeOK, EuTypeOK, DoneEvent
<1>5. ReadyInv'
  <2>1. Armed' = Armed
    BY <1>2 DEF Armed
  <2> QED
    BY <1>1, <2>1 DEF IInv, ReadyInv, configVars
<1>6. QuietInv' /\ EventInv'
  BY <1>1 DEF IInv, QuietInv, EventInv
<1>7. CallInv'
  <2>1. mpc' \notin Booting \cup Between \cup Calling
    BY <1>1 DEF Booting, Between, Calling, InFlight, Waiting
  <2>2. \A d \in Cores : last'[d] <= epoch'
    BY <1>1, <1>2 DEF IInv, CallInv
  <2> QED
    BY <1>1, <2>1, <2>2 DEF IInv, CallInv, configVars
<1>8. \A d \in Cores \ {c} : /\ wpc'[d] = wpc[d]
                             /\ Finished(d)' = Finished(d)
                             /\ Entered(d)' = Entered(d)
  BY <1>1, <1>2 DEF Finished, Entered
<1> QED
  BY <1>1, <1>2, <1>3, <1>4, <1>5, <1>6, <1>7, <1>8

\* A step after which no member has passed a mark more than before.
LEMMA AckKept ==
  ASSUME IInv, mpc \in InFlight, mpc' = mpc, mask' = mask, Acked' = Acked,
         start' = start, nb_ack' = nb_ack
  PROVE  AckInv'
BY DEF IInv, AckInv

LEMMA DoneKept ==
  ASSUME IInv, mpc \in InFlight, mpc' = mpc, mask' = mask, Ended' = Ended,
         done' = FALSE, nb_done' = nb_done,
         eu_buffer' = eu_buffer \cup DoneEvent
  PROVE  DoneInv'
<1>1. CASE Ended = mask
  BY <1>1 DEF IInv, DoneInv
<1>2. CASE Ended # mask
  <2>1. nb_done = Cardinality(Ended) /\ ~done /\ "cluster_done" \notin eu_buffer
    BY <1>2 DEF IInv, DoneInv
  <2>2. "cluster_done" \notin eu_buffer'
    BY <2>1 DEF DoneEvent
  <2> QED
    BY <1>2, <2>1, <2>2 DEF IInv, DoneInv
<1> QED
  BY <1>1, <1>2

\* A step of a worker moves no other worker; what it must respect itself.
LEMMA PlaceKept ==
  ASSUME IInv, mpc \in InFlight, mpc' = mpc, mask' = mask, epoch' = epoch,
         data' = data, NEW c \in Cores,
         c \in mask \/ wpc'[c] \notin AtWork,
         wpc'[c] \in Handling \cup {"task"} => last'[c] # epoch,
         wpc'[c] = "done" => last'[c] = epoch,
         wpc'[c] \in {"ack", "task"} => t1'[c] = epoch,
         wpc'[c] \in {"rd_task", "ack", "task"} => a0'[c] = data,
         \A d \in Cores \ {c} : wpc'[d] = wpc[d] /\ Finished(d)' = Finished(d),
         \A d \in Cores \ {c} : a0'[d] = a0[d] /\ t1'[d] = t1[d]
  PROVE  PlaceInv'
<1>1. mask \in SUBSET Cores
  BY DEF IInv, TypeOK
<1>2. ASSUME NEW d \in Cores, wpc'[d] \in AtWork
      PROVE  d \in mask
  BY <1>2 DEF IInv, PlaceInv
<1>3. ASSUME NEW d \in mask
      PROVE  /\ wpc'[d] \in Handling \cup {"task"} => ~Finished(d)'
             /\ wpc'[d] = "done" => Finished(d)'
             /\ wpc'[d] \in {"ack", "task"} => t1'[d] = epoch
             /\ wpc'[d] \in {"rd_task", "ack", "task"} => a0'[d] = data
  <2>1. CASE d = c
    BY <2>1 DEF Finished
  <2>2. CASE d # c
    BY <1>1, <2>2 DEF IInv, PlaceInv
  <2> QED
    BY <2>1, <2>2
<1> QED
  BY <1>2, <1>3 DEF PlaceInv

LEMMA IrqKept ==
  ASSUME IInv, mpc \in InFlight, mpc' = mpc, mask' = mask, NEW c \in Cores,
         start_irq' = {},
         \A d \in Cores \ {c} : d \in irq_pending' <=> d \in start_irq \cup irq_pending,
         irq_pending' \subseteq start_irq \cup irq_pending,
         c \in irq_pending' => wpc'[c] \in {"wfi", "mret"} /\ Finished(c)' = Finished(c),
         c \in mask => Entered(c)' \/ wpc'[c] \in Handling \/ c \in irq_pending',
         \A d \in Cores \ {c} : /\ wpc'[d] = wpc[d]
                                /\ Finished(d)' = Finished(d)
                                /\ Entered(d)' = Entered(d)
  PROVE  IrqInv'
<1>1. mask \in SUBSET Cores
  BY DEF IInv, TypeOK
<1>2. ASSUME NEW d \in irq_pending'
      PROVE  d \in mask /\ ~Finished(d)' /\ wpc'[d] \in {"wfi", "mret"}
  <2>1. d \in mask /\ ~Finished(d) /\ wpc[d] \in {"wfi", "mret"}
    BY DEF IInv, IrqInv
  <2> QED
    BY <1>1, <2>1
<1>3. ASSUME NEW d \in mask
      PROVE  Entered(d)' \/ wpc'[d] \in Handling \/ d \in irq_pending'
  <2>1. CASE d # c
    BY <1>1, <2>1 DEF IInv, IrqInv
  <2> QED
    BY <2>1
<1> QED
  BY <1>2, <1>3 DEF IrqInv

\* The marks move only with the worker that steps.
LEMMA MarksKept ==
  ASSUME mask' = mask, NEW c \in Cores, mask \in SUBSET Cores,
         \A d \in Cores \ {c} : /\ wpc'[d] = wpc[d]
                                /\ Finished(d)' = Finished(d)
                                /\ Entered(d)' = Entered(d)
  PROVE  /\ Entered(c)' = Entered(c) => Acked' = Acked
         /\ Entered(c)' /\ c \in mask => Acked' = Acked \cup {c}
         /\ (Finished(c) /\ wpc[c] # "done")' = (Finished(c) /\ wpc[c] # "done")
              => Ended' = Ended
         /\ Finished(c)' /\ wpc'[c] # "done" /\ c \in mask => Ended' = Ended \cup {c}
BY DEF Acked, Ended

\* A worker in its handler belongs to the dispatch in flight.
LEMMA AtWorkFlight ==
  ASSUME IInv, NEW c \in Cores, wpc[c] \in AtWork
  PROVE  mpc \in InFlight /\ c \in mask
BY DEF IInv, QuietInv, PlaceInv

\* A handler's step that writes no register.
LEMMA QuietWorker ==
  ASSUME IInv, mpc \in InFlight, NEW c \in Cores,
         NEW to \in WorkerPc \ {"off", "ready"},
         wpc[c] \notin {"off", "ready"}, wpc' = [wpc EXCEPT ![c] = to],
         UNCHANGED mainVars, NoWrite, EuIdle(DoneEvent),
         last' = last \/ last' = [last EXCEPT ![c] = epoch],
         a0' \in [Cores -> Nat], t1' \in [Cores -> Nat],
         \A d \in Cores \ {c} : t1'[d] = t1[d],
         PlaceInv', IrqInv', AckInv', Ended' = Ended
  PROVE  IInv'
<1>1. /\ EuTypeOK' /\ ReadyInv' /\ QuietInv' /\ EventInv' /\ CallInv'
      /\ mpc' = mpc /\ mask' = mask /\ epoch' = epoch
      /\ eu_buffer' = eu_buffer \cup DoneEvent
      /\ wpc' \in [Cores -> WorkerPc] /\ last' \in [Cores -> Nat]
  BY FlightWorker DEF NoWrite
<1>2. RegsTypeOK' /\ nb_wait' # 0
  BY NoWriteTypes
<1>3. TypeOK'
  BY <1>1, <1>2 DEF IInv, TypeOK, mainVars
<1>4. DoneInv'
  <2>1. done' = FALSE /\ nb_done' = nb_done
    BY QuietStep DEF NoWrite
  <2> QED
    BY <1>1, <2>1, DoneKept
<1> QED
  BY <1>1, <1>3, <1>4 DEF IInv

LEMMA ReadStep ==
  ASSUME IInv, NEW c \in Cores, ReadData(c) \/ ReadTaskbin(c)
  PROVE  IInv'
<1> DEFINE to == IF wpc[c] = "rd_data" THEN "rd_task" ELSE "ack"
<1>1. /\ wpc[c] \in {"rd_data", "rd_task"} /\ wpc' = [wpc EXCEPT ![c] = to]
      /\ UNCHANGED mainVars /\ NoWrite /\ EuIdle(DoneEvent) /\ last' = last
  <2>1. CASE ReadData(c)
    BY <2>1 DEF ReadData, WorkerGoes
  <2>2. CASE ReadTaskbin(c)
    BY <2>2 DEF ReadTaskbin, WorkerGoes
  <2> QED
    BY <2>1, <2>2
<1>2. /\ mpc \in InFlight /\ c \in mask
      /\ to \in WorkerPc \ {"off", "ready"} /\ to \in Handling /\ to # "rd_data"
  BY <1>1, AtWorkFlight DEF AtWork, Handling, WorkerPc
<1>3. /\ wpc \in [Cores -> WorkerPc] /\ a0 \in [Cores -> Nat] /\ t1 \in [Cores -> Nat]
      /\ data \in Nat /\ taskbin \in Nat /\ mask \in SUBSET Cores
      /\ taskbin = epoch /\ ~Finished(c)
  BY <1>1, <1>2 DEF IInv, TypeOK, RegsTypeOK, CallInv, PlaceInv, Handling
<1>4. /\ a0' \in [Cores -> Nat] /\ t1' \in [Cores -> Nat]
      /\ \A d \in Cores \ {c} : a0'[d] = a0[d] /\ t1'[d] = t1[d]
      /\ a0'[c] = data
      /\ to = "ack" => t1'[c] = epoch
  <2>1. CASE ReadData(c)
    BY <1>3, <2>1 DEF ReadData, WorkerGoes
  <2>2. CASE ReadTaskbin(c)
    BY <1>2, <1>3, <2>2 DEF ReadTaskbin, WorkerGoes, IInv, PlaceInv
  <2> QED
    BY <2>1, <2>2
<1>5. /\ wpc'[c] = to /\ mpc' = mpc /\ mask' = mask /\ epoch' = epoch
      /\ \A d \in Cores \ {c} : /\ wpc'[d] = wpc[d]
                                /\ Finished(d)' = Finished(d)
                                /\ Entered(d)' = Entered(d)
  BY <1>1, <1>3, <1>4 DEF mainVars, Finished, Entered
<1>6. /\ data' = data /\ start_irq' = {} /\ irq_pending' = irq_pending \cup start_irq
      /\ start' = start /\ nb_ack' = nb_ack
  BY <1>1, QuietStep DEF NoWrite, configVars
<1>7. ~Finished(c)' /\ ~Entered(c)' /\ ~Entered(c)
  BY <1>1, <1>2, <1>3, <1>5 DEF Finished, Entered, Handling
<1>8. PlaceInv'
  BY <1>2, <1>3, <1>4, <1>5, <1>6, <1>7, PlaceKept DEF Finished, Handling
<1>9. IrqInv'
  <2>1. c \notin start_irq \cup irq_pending
    BY <1>1, <1>2 DEF IInv, IrqInv
  <2> QED
    BY <1>2, <1>5, <1>6, <2>1, IrqKept
<1>10. Acked' = Acked /\ Ended' = Ended
  BY <1>3, <1>5, <1>7 DEF Acked, Ended, Finished, Entered
<1>11. AckInv'
  BY <1>2, <1>5, <1>6, <1>10, AckKept
<1> QED
  BY <1>1, <1>2, <1>4, <1>8, <1>9, <1>10, <1>11, QuietWorker

LEMMA RunStep ==
  ASSUME IInv, NEW c \in Cores, RunTask(c)
  PROVE  IInv'
<1>1. /\ wpc[c] = "task" /\ wpc' = [wpc EXCEPT ![c] = "done"]
      /\ UNCHANGED mainVars /\ NoWrite /\ EuIdle(DoneEvent)
      /\ last' = [last EXCEPT ![c] = t1[c]] /\ a0' = a0 /\ t1' = t1
  BY DEF RunTask, WorkerGoes
<1>2. /\ mpc \in InFlight /\ c \in mask /\ "done" \in WorkerPc \ {"off", "ready"}
      /\ "done" \notin Handling \cup {"task"}
  BY <1>1, AtWorkFlight DEF AtWork, Handling, WorkerPc
<1>3. /\ wpc \in [Cores -> WorkerPc] /\ last \in [Cores -> Nat] /\ epoch \in Nat
      /\ a0 \in [Cores -> Nat] /\ t1 \in [Cores -> Nat] /\ mask \in SUBSET Cores
      /\ t1[c] = epoch /\ ~Finished(c)
  BY <1>1, <1>2 DEF IInv, TypeOK, PlaceInv
<1>4. /\ mpc' = mpc /\ mask' = mask /\ epoch' = epoch
      /\ wpc'[c] = "done" /\ last' = [last EXCEPT ![c] = epoch] /\ last'[c] = epoch
  BY <1>1, <1>3 DEF mainVars
<1>5. \A d \in Cores \ {c} : /\ wpc'[d] = wpc[d]
                             /\ Finished(d)' = Finished(d)
                             /\ Entered(d)' = Entered(d)
  BY <1>1, <1>3, <1>4 DEF Finished, Entered
<1>6. /\ data' = data /\ start_irq' = {} /\ irq_pending' = irq_pending \cup start_irq
      /\ start' = start /\ nb_ack' = nb_ack
  BY <1>1, QuietStep DEF NoWrite, configVars
<1>7. Finished(c)' /\ Entered(c)' /\ Entered(c)
  BY <1>1, <1>4 DEF Finished, Entered
<1>8. PlaceInv'
  BY <1>1, <1>2, <1>4, <1>5, <1>6, PlaceKept
<1>9. IrqInv'
  <2>1. c \notin start_irq \cup irq_pending
    BY <1>1, <1>2 DEF IInv, IrqInv
  <2> QED
    BY <1>2, <1>4, <1>5, <1>6, <1>7, <2>1, IrqKept
<1>10. Acked' = Acked /\ Ended' = Ended
  <2>1. ~(Finished(c) /\ wpc[c] # "done")' /\ ~(Finished(c) /\ wpc[c] # "done")
    BY <1>3, <1>4
  <2> QED
    BY <1>3, <1>4, <1>5, <1>7, <2>1, MarksKept
<1>11. AckInv'
  BY <1>2, <1>4, <1>6, <1>10, AckKept
<1> QED
  BY <1>1, <1>2, <1>3, <1>4, <1>8, <1>9, <1>10, <1>11, QuietWorker

LEMMA MretStep ==
  ASSUME IInv, NEW c \in Cores, Mret(c)
  PROVE  IInv'
<1>1. /\ wpc[c] = "mret" /\ wpc' = [wpc EXCEPT ![c] = "wfi"]
      /\ UNCHANGED mainVars /\ NoWrite /\ EuIdle(DoneEvent)
      /\ UNCHANGED <<a0, t1, last>>
  BY DEF Mret, WorkerGoes
<1>2. "wfi" \in (WorkerPc \ {"off", "ready"}) \ AtWork
  BY DEF WorkerPc, AtWork, Handling
<1>3. /\ wpc \in [Cores -> WorkerPc] /\ a0 \in [Cores -> Nat] /\ t1 \in [Cores -> Nat]
      /\ mask \in SUBSET Cores
  BY DEF IInv, TypeOK
<1>4. CASE mpc \notin InFlight
  <2>1. Armed' = Armed
    BY <1>1, <1>3 DEF Armed
  <2>2. ReadyInv' /\ nb_ready' \in Counter
    BY <1>1, <2>1 DEF IInv, TypeOK, RegsTypeOK, ReadyInv, NoWrite, configVars, mainVars
  <2> QED
    BY <1>1, <1>2, <1>4, <2>2, CalmWorker DEF NoWrite, configVars
<1>5. CASE mpc \in InFlight
  <2>1. /\ mpc' = mpc /\ mask' = mask /\ epoch' = epoch
        /\ wpc'[c] = "wfi" /\ Finished(c)' = Finished(c) /\ Entered(c)' = Entered(c)
    BY <1>1, <1>3 DEF mainVars, Finished, Entered
  <2>2. \A d \in Cores \ {c} : /\ wpc'[d] = wpc[d]
                               /\ Finished(d)' = Finished(d)
                               /\ Entered(d)' = Entered(d)
    BY <1>1, <1>3, <2>1 DEF Finished, Entered
  <2>3. /\ data' = data /\ start_irq' = {} /\ irq_pending' = irq_pending \cup start_irq
        /\ start' = start /\ nb_ack' = nb_ack
    BY <1>1, QuietStep DEF NoWrite, configVars
  <2>4. PlaceInv'
    BY <1>1, <1>2, <1>5, <2>1, <2>2, <2>3, PlaceKept DEF AtWork
  <2>5. IrqInv'
    <3>1. c \in mask => Entered(c) \/ c \in start_irq \cup irq_pending
      BY <1>1, <1>5 DEF IInv, IrqInv, Handling
    <3> QED
      BY <1>5, <2>1, <2>2, <2>3, <3>1, IrqKept
  <2>6. Acked' = Acked /\ Ended' = Ended
    BY <1>1, <1>3, <2>1, <2>2, MarksKept
  <2>7. AckInv'
    BY <1>5, <2>1, <2>3, <2>6, AckKept
  <2> QED
    BY <1>1, <1>2, <1>3, <1>5, <2>4, <2>5, <2>6, <2>7, QuietWorker
<1> QED
  BY <1>4, <1>5

\* Taking the interrupt clears its latch; the pulses still move on.
LEMMA TakeIrqStep ==
  ASSUME IInv, NEW c \in Cores, TakeIrq(c)
  PROVE  IInv'
<1>1. /\ c \in irq_pending /\ wpc[c] = "wfi" /\ wpc' = [wpc EXCEPT ![c] = "rd_data"]
      /\ UNCHANGED <<mainVars, configVars>> /\ EuIdle(DoneEvent)
      /\ UNCHANGED <<a0, t1, last>>
  BY DEF TakeIrq, WorkerGoes, AckIrq
<1>2. mpc \in InFlight /\ c \in mask /\ ~Finished(c)
  <2>1. mpc \in InFlight
    BY <1>1 DEF IInv, QuietInv
  <2> QED
    BY <1>1, <2>1 DEF IInv, IrqInv
<1>3. "rd_data" \in WorkerPc \ {"off", "ready"} /\ "rd_data" \in Handling
  BY DEF WorkerPc, Handling
<1>4. mask \in SUBSET Cores /\ nb_wait \in Nat /\ nb_done \in Nat /\ nb_ack \in Nat
  BY DEF IInv, TypeOK, RegsTypeOK, Counter
<1>5. /\ done' = FALSE /\ start_irq' = {}
      /\ nb_done' = nb_done /\ nb_ack' = nb_ack /\ start' = start
      /\ irq_pending' = (irq_pending \cup start_irq) \ {c}
  <2>1. ~QuorumMet(nb_done) /\ ~QuorumMet(nb_ack)
    BY <1>4, Below DEF QuorumMet
  <2> QED
    BY <2>1 DEF TakeIrq, AckIrq, Settle, LatchIrq
<1>6. /\ EuTypeOK' /\ ReadyInv' /\ QuietInv' /\ EventInv' /\ CallInv'
      /\ mpc' = mpc /\ mask' = mask /\ epoch' = epoch
      /\ eu_buffer' = eu_buffer \cup DoneEvent
      /\ wpc' \in [Cores -> WorkerPc] /\ last' \in [Cores -> Nat]
      /\ wpc'[c] = "rd_data"
      /\ \A d \in Cores \ {c} : /\ wpc'[d] = wpc[d]
                                /\ Finished(d)' = Finished(d)
                                /\ Entered(d)' = Entered(d)
  BY <1>1, <1>2, <1>3, FlightWorker
<1>7. last' = last /\ ~Finished(c)'
  BY <1>1, <1>2, <1>6 DEF Finished
<1>8. TypeOK'
  <2>1. RegsTypeOK' /\ nb_wait' # 0
    BY <1>1, <1>5 DEF IInv, TypeOK, RegsTypeOK, configVars
  <2> QED
    BY <1>1, <1>6, <2>1 DEF IInv, TypeOK, mainVars
<1>9. PlaceInv'
  BY <1>1, <1>2, <1>3, <1>6, <1>7, PlaceKept DEF Finished, configVars
<1>10. IrqInv'
  BY <1>2, <1>3, <1>5, <1>6, IrqKept
<1>11. Acked' = Acked /\ Ended' = Ended
  BY <1>1, <1>2, <1>4, <1>6, <1>7 DEF Acked, Ended, Finished, Entered
<1>12. AckInv' /\ DoneInv'
  BY <1>2, <1>5, <1>6, <1>11, AckKept, DoneKept
<1> QED
  BY <1>6, <1>8, <1>9, <1>10, <1>12 DEF IInv

\* The last ACK clears START; no other does.
LEMMA AckStep ==
  ASSUME IInv, NEW c \in Cores, Ack(c)
  PROVE  IInv'
<1>1. /\ wpc[c] = "ack" /\ wpc' = [wpc EXCEPT ![c] = "task"]
      /\ UNCHANGED <<mainVars, configVars>> /\ EuIdle(DoneEvent)
      /\ UNCHANGED <<a0, t1, last>>
  BY DEF Ack, WorkerGoes, WriteStartZero
<1>2. /\ mpc \in InFlight /\ c \in mask
      /\ "task" \in WorkerPc \ {"off", "ready"}
  BY <1>1, AtWorkFlight DEF AtWork, Handling, WorkerPc
<1>3. ~Finished(c) /\ t1[c] = epoch /\ a0[c] = data /\ c \notin start_irq \cup irq_pending
  BY <1>1, <1>2 DEF IInv, PlaceInv, IrqInv, Handling
<1>4. /\ mask \in SUBSET Cores /\ nb_wait = Cardinality(mask)
      /\ nb_wait \in Nat /\ nb_done \in Nat /\ nb_wait # 0
  BY <1>2 DEF IInv, TypeOK, RegsTypeOK, CallInv, Counter
<1>5. /\ EuTypeOK' /\ ReadyInv' /\ QuietInv' /\ EventInv' /\ CallInv'
      /\ mpc' = mpc /\ mask' = mask /\ epoch' = epoch
      /\ eu_buffer' = eu_buffer \cup DoneEvent
      /\ wpc' \in [Cores -> WorkerPc] /\ last' \in [Cores -> Nat]
      /\ wpc'[c] = "task"
      /\ \A d \in Cores \ {c} : /\ wpc'[d] = wpc[d]
                                /\ Finished(d)' = Finished(d)
                                /\ Entered(d)' = Entered(d)
  <2>1. wpc[c] \notin {"off", "ready"}
    BY <1>1
  <2> QED
    BY <1>1, <1>2, <2>1, FlightWorker
<1>6. Acked \in SUBSET mask /\ c \notin Acked /\ Acked' = Acked \cup {c}
  BY <1>1, <1>2, <1>3, <1>4, <1>5 DEF Acked, Entered, Finished
<1>7. start = mask /\ nb_ack = Cardinality(Acked) /\ mpc \notin Waiting
  BY <1>2, <1>6 DEF IInv, AckInv
<1>8. /\ Succ(nb_ack) = Cardinality(Acked') /\ Succ(nb_ack) \in Counter
      /\ QuorumMet(Succ(nb_ack)) <=> Acked' = mask
  <2>1. Succ(nb_ack) = Cardinality(Acked')
    BY <1>2, <1>4, <1>6, <1>7, OneMore
  <2>2. Acked' \in SUBSET mask /\ Cardinality(Acked') \in Nat /\ Cardinality(Acked') \in Counter
    <3>1. Acked \cup {c} \in SUBSET Cores
      BY <1>2, <1>4, <1>6
    <3>2. Cardinality(Acked \cup {c}) \in Nat /\ Cardinality(Acked \cup {c}) \in Counter
      BY <3>1, CoreSets
    <3> QED
      BY <1>2, <1>6, <3>2
  <2>3. Acked' # mask => Cardinality(Acked') < Cardinality(mask)
    BY <1>2, <1>4, <1>6, SubsetCount
  <2> QED
    BY <1>4, <2>1, <2>2, <2>3 DEF QuorumMet
<1>9. /\ done' = FALSE /\ start_irq' = {} /\ nb_done' = nb_done
      /\ irq_pending' = irq_pending \cup start_irq
      /\ start' = IF Acked' = mask THEN {} ELSE mask
      /\ nb_ack' = IF Acked' = mask THEN 0 ELSE Cardinality(Acked')
  <2>1. ~QuorumMet(nb_done)
    BY <1>4, Below DEF QuorumMet
  <2> QED
    BY <1>7, <1>8, <2>1 DEF Ack, WriteStartZero, Edge, Settle, LatchIrq
<1>10. TypeOK'
  <2>1. RegsTypeOK' /\ nb_wait' # 0
    BY <1>1, <1>4, <1>8, <1>9, NCoresType DEF IInv, TypeOK, RegsTypeOK, configVars
  <2> QED
    BY <1>1, <1>5, <2>1 DEF IInv, TypeOK, mainVars
<1>11. Entered(c)' /\ ~Finished(c)'
  BY <1>1, <1>3, <1>5 DEF Entered, Finished
<1>12. PlaceInv'
  BY <1>1, <1>2, <1>3, <1>5, PlaceKept DEF Finished, configVars
<1>13. IrqInv'
  BY <1>2, <1>3, <1>5, <1>9, <1>11, IrqKept
<1>14. AckInv'
  BY <1>2, <1>5, <1>7, <1>9 DEF AckInv
<1>15. Ended' = Ended
  BY <1>2, <1>3, <1>4, <1>5, <1>11 DEF Ended, Finished
<1>16. DoneInv'
  BY <1>2, <1>5, <1>9, <1>15, DoneKept
<1> QED
  BY <1>5, <1>10, <1>12, <1>13, <1>14, <1>16 DEF IInv

\* The last DONE raises the event; no other does.
LEMMA SignalDoneStep ==
  ASSUME IInv, NEW c \in Cores, SignalDone(c)
  PROVE  IInv'
<1>1. /\ wpc[c] = "done" /\ wpc' = [wpc EXCEPT ![c] = "mret"]
      /\ UNCHANGED <<mainVars, configVars>> /\ EuIdle(DoneEvent)
      /\ UNCHANGED <<a0, t1, last>>
  BY DEF SignalDone, WorkerGoes, WriteDone
<1>2. /\ mpc \in InFlight /\ c \in mask
      /\ "mret" \in WorkerPc \ {"off", "ready"}
      /\ "mret" \notin AtWork /\ "mret" \notin Handling
  BY <1>1, AtWorkFlight DEF AtWork, Handling, WorkerPc
<1>3. Finished(c) /\ c \notin start_irq \cup irq_pending
  BY <1>1, <1>2 DEF IInv, PlaceInv, IrqInv
<1>4. /\ mask \in SUBSET Cores /\ nb_wait = Cardinality(mask)
      /\ nb_wait \in Nat /\ nb_ack \in Nat /\ nb_wait # 0
  BY <1>2 DEF IInv, TypeOK, RegsTypeOK, CallInv, Counter
<1>5. /\ EuTypeOK' /\ ReadyInv' /\ QuietInv' /\ EventInv' /\ CallInv'
      /\ mpc' = mpc /\ mask' = mask /\ epoch' = epoch
      /\ eu_buffer' = eu_buffer \cup DoneEvent
      /\ wpc' \in [Cores -> WorkerPc] /\ last' \in [Cores -> Nat]
      /\ wpc'[c] = "mret"
      /\ \A d \in Cores \ {c} : /\ wpc'[d] = wpc[d]
                                /\ Finished(d)' = Finished(d)
                                /\ Entered(d)' = Entered(d)
  <2>1. wpc[c] \notin {"off", "ready"}
    BY <1>1
  <2> QED
    BY <1>1, <1>2, <2>1, FlightWorker
<1>6. Ended \in SUBSET mask /\ c \notin Ended /\ Ended' = Ended \cup {c}
  BY <1>1, <1>2, <1>3, <1>4, <1>5 DEF Ended, Finished
<1>7. /\ nb_done = Cardinality(Ended) /\ ~done /\ "cluster_done" \notin eu_buffer
      /\ mpc # "poll_clear"
  BY <1>2, <1>6 DEF IInv, DoneInv
<1>8. /\ Succ(nb_done) = Cardinality(Ended') /\ Succ(nb_done) \in Counter
      /\ QuorumMet(Succ(nb_done)) <=> Ended' = mask
  <2>1. Succ(nb_done) = Cardinality(Ended')
    BY <1>2, <1>4, <1>6, <1>7, OneMore
  <2>2. Ended' \in SUBSET mask /\ Cardinality(Ended') \in Nat /\ Cardinality(Ended') \in Counter
    <3>1. Ended \cup {c} \in SUBSET Cores
      BY <1>2, <1>4, <1>6
    <3>2. Cardinality(Ended \cup {c}) \in Nat /\ Cardinality(Ended \cup {c}) \in Counter
      BY <3>1, CoreSets
    <3> QED
      BY <1>2, <1>6, <3>2
  <2>3. Ended' # mask => Cardinality(Ended') < Cardinality(mask)
    BY <1>2, <1>4, <1>6, SubsetCount
  <2> QED
    BY <1>4, <2>1, <2>2, <2>3 DEF QuorumMet
<1>9. /\ start_irq' = {} /\ nb_ack' = nb_ack /\ start' = start
      /\ irq_pending' = irq_pending \cup start_irq
      /\ done' = (Ended' = mask)
      /\ nb_done' = IF Ended' = mask THEN 0 ELSE Cardinality(Ended')
  <2>1. ~QuorumMet(nb_ack)
    BY <1>4, Below DEF QuorumMet
  <2>2. /\ done' = QuorumMet(Succ(nb_done))
        /\ nb_done' = IF QuorumMet(Succ(nb_done)) THEN 0 ELSE Succ(nb_done)
    BY DEF SignalDone, WriteDone, Edge, Settle
  <2>3. done' = (Ended' = mask)
    BY <1>8, <2>2 DEF QuorumMet
  <2> QED
    BY <1>8, <2>1, <2>2, <2>3 DEF SignalDone, WriteDone, Edge, Settle, LatchIrq
<1>10. TypeOK'
  <2>1. RegsTypeOK' /\ nb_wait' # 0
    BY <1>1, <1>4, <1>8, <1>9, NCoresType DEF IInv, TypeOK, RegsTypeOK, configVars
  <2> QED
    BY <1>1, <1>5, <2>1 DEF IInv, TypeOK, mainVars
<1>11. Entered(c) /\ Entered(c)' /\ Finished(c)'
  BY <1>1, <1>3, <1>5 DEF Entered, Finished
<1>12. PlaceInv'
  BY <1>1, <1>2, <1>5, PlaceKept DEF configVars, AtWork
<1>13. IrqInv'
  BY <1>2, <1>3, <1>5, <1>9, <1>11, IrqKept
<1>14. Acked' = Acked
  BY <1>2, <1>3, <1>4, <1>5, <1>11 DEF Acked, Entered, Finished
<1>15. AckInv'
  BY <1>2, <1>5, <1>9, <1>14, AckKept
<1>16. "cluster_done" \notin eu_buffer'
  BY <1>5, <1>7 DEF DoneEvent
<1>17. DoneInv'
  BY <1>2, <1>5, <1>7, <1>9, <1>16 DEF DoneInv
<1> QED
  BY <1>5, <1>10, <1>12, <1>13, <1>15, <1>17 DEF IInv

LEMMA StutterStep ==
  ASSUME IInv, UNCHANGED vars
  PROVE  IInv'
<1>1. Armed' = Armed /\ Acked' = Acked /\ Ended' = Ended
  BY DEF vars, workerVars, mainVars, Armed, Acked, Ended, Entered, Finished
<1>2. TypeOK' /\ ReadyInv' /\ QuietInv'
  BY <1>1 DEF IInv, vars, regVars, countVars, configVars, euVars, mainVars,
              workerVars, TypeOK, RegsTypeOK, EuTypeOK, ReadyInv, QuietInv
<1>3. EventInv' /\ CallInv' /\ PlaceInv' /\ IrqInv'
  BY DEF IInv, vars, regVars, countVars, configVars, euVars, mainVars, workerVars,
         EventInv, CallInv, PlaceInv, IrqInv, Finished, Entered
<1>4. AckInv' /\ DoneInv'
  BY <1>1 DEF IInv, vars, regVars, countVars, euVars, mainVars, AckInv, DoneInv
<1> QED
  BY <1>2, <1>3, <1>4 DEF IInv

-----------------------------------------------------------------------------
(* The invariant, and what follows from it.                                *)

LEMMA NextStep ==
  ASSUME IInv, ~PollTimesOut, [Next]_vars
  PROVE  IInv'
<1>1. CASE Main
  <2>1. CASE SetBinary \/ ClkEn \/ PollReady \/ Stop
    BY <2>1, BootStep
  <2>2. CASE UseOther \/ ArmMask \/ ArmClear \/ ArmEnable
    BY <2>2, ArmStep
  <2>3. CASE SetNb \/ SetFunc \/ \E m \in SUBSET Cores : Dispatch(m)
    BY <2>3, CallStep
  <2>4. CASE Start
    BY <2>4, StartStep
  <2>5. CASE PollStart \/ WaitEnable \/ PollSees \/ WaitWfe \/ PollClear
    BY <2>5, WaitStep
  <2>6. ~PollTimeout
    BY DEF PollTimeout
  <2> QED
    BY <1>1, <2>1, <2>2, <2>3, <2>4, <2>5, <2>6 DEF Main, MainInCall
<1>2. ASSUME NEW c \in Cores, Worker(c)
      PROVE  IInv'
  <2>1. CASE Boot(c) \/ SignalReady(c)
    BY <2>1, BootWorkerStep
  <2>2. CASE TakeIrq(c)
    BY <2>2, TakeIrqStep
  <2>3. CASE ReadData(c) \/ ReadTaskbin(c)
    BY <2>3, ReadStep
  <2>4. CASE Ack(c)
    BY <2>4, AckStep
  <2>5. CASE RunTask(c)
    BY <2>5, RunStep
  <2>6. CASE SignalDone(c)
    BY <2>6, SignalDoneStep
  <2>7. CASE Mret(c)
    BY <2>7, MretStep
  <2> QED
    BY <1>2, <2>1, <2>2, <2>3, <2>4, <2>5, <2>6, <2>7 DEF Worker
<1>3. CASE Idle \/ OtherEvent
  BY <1>3, TileStep
<1>4. CASE UNCHANGED vars
  BY <1>4, StutterStep
<1> QED
  BY <1>1, <1>2, <1>3, <1>4 DEF Next

\* The inductive invariant: where every core can be, and what every register
\* then holds, while cluster_utils.h and pulp_crt0.S run against each other.
THEOREM InvariantHolds ==
  ASSUME ~PollTimesOut
  PROVE  Spec => []IInv
<1>1. Init => IInv
  BY InitInv
<1>2. IInv /\ [Next]_vars => IInv'
  BY NextStep
<1> QED
  BY <1>1, <1>2, PTL DEF Spec

\* When cluster_wait_done_eu or cluster_wait_done_polling returns, every
\* worker of the mask has returned from its task.
THEOREM JoinsAfterAll ==
  ASSUME ~PollTimesOut
  PROVE  Spec => []JoinSound
<1>1. IInv => JoinSound
  <2> SUFFICES ASSUME IInv, mpc \in Between \cup {"poll_clear"}
               PROVE  \A c \in mask : Finished(c)
    BY DEF JoinSound
  <2>1. CASE mpc \in Between
    BY <2>1 DEF IInv, CallInv
  <2>2. CASE mpc = "poll_clear"
    <3>1. Ended = mask
      BY <2>2 DEF IInv, DoneInv, InFlight, Waiting
    <3> QED
      BY <3>1 DEF Ended
  <2> QED
    BY <2>1, <2>2
<1> QED
  BY <1>1, InvariantHolds, PTL

\* The done event that the Event Unit shows a dispatch is that dispatch's:
\* cluster_arm_done_event leaves no older one, and the quorum of
\* obi_slave_ctrl_cluster.sv raises none early.
THEOREM DoneIsFresh ==
  ASSUME ~PollTimesOut
  PROVE  Spec => []NoStaleDone
<1>1. IInv => NoStaleDone
  <2> SUFFICES ASSUME IInv, mpc \in Calling \cup InFlight,
                      done \/ "cluster_done" \in eu_buffer
               PROVE  \A c \in mask : Finished(c)
    BY DEF NoStaleDone
  <2>1. mpc \in InFlight
    BY DEF IInv, QuietInv
  <2>2. Ended = mask
    BY <2>1 DEF IInv, DoneInv
  <2> QED
    BY <2>2 DEF Ended
<1> QED
  BY <1>1, InvariantHolds, PTL

\* A dispatch interrupt reaches no worker before its READY and none inside the
\* handler of an earlier dispatch (magia_tile.sv and pulp_crt0.S).
THEOREM InterruptsWait ==
  ASSUME ~PollTimesOut
  PROVE  Spec => []IrqFindsDispatcher
<1>1. IInv => IrqFindsDispatcher
  BY DEF IInv, IrqInv, QuietInv, IrqFindsDispatcher
<1> QED
  BY <1>1, InvariantHolds, PTL

\* The task a worker of pulp_crt0.S runs is the one dispatched last, with the
\* context pointer that DATA still holds.
THEOREM RunsTheTask ==
  ASSUME ~PollTimesOut
  PROVE  Spec => []ContextStable
<1>1. IInv => ContextStable
  <2> SUFFICES ASSUME IInv, NEW c \in Cores, wpc[c] = "task"
               PROVE  t1[c] = epoch /\ a0[c] = data
    BY DEF ContextStable
  <2>1. mpc \in InFlight /\ c \in mask
    BY AtWorkFlight DEF AtWork
  <2> QED
    BY <2>1 DEF IInv, PlaceInv
<1> QED
  BY <1>1, InvariantHolds, PTL

-----------------------------------------------------------------------------
(* Fork and join.                                                          *)

\* Every step that is not a dispatch, a task's return or a wait's return
\* leaves the round, its team and what is left of it alone.
LEMMA Stutters ==
  ASSUME mask' = mask, epoch' = epoch, last' = last,
         mpc \in Calling \cup InFlight <=> mpc' \in Calling \cup InFlight
  PROVE  UNCHANGED FJ!vars
<1>1. {c \in mask : ~Finished(c)}' = {c \in mask : ~Finished(c)}
  BY DEF Finished
<1>2. (mpc \in Calling \cup InFlight)' = (mpc \in Calling \cup InFlight)
  OBVIOUS
<1> QED
  BY <1>1, <1>2 DEF FJ!vars

LEMMA ForkStep ==
  ASSUME IInv, NEW m \in SUBSET Cores, Dispatch(m)
  PROVE  FJ!Fork(m)
<1>1. /\ mpc = "armed" /\ mpc' = "set_nb" /\ epoch' = epoch + 1 /\ mask' = m
      /\ m # {} /\ last' = last /\ epoch < MaxDispatch
  BY DEF Dispatch, MainGoes, OnRegs, workerVars
<1>2. mpc \notin Calling \cup InFlight /\ mpc' \in Calling \cup InFlight
  BY <1>1 DEF Calling, InFlight, Waiting
<1>3. \A c \in Cores : ~Finished(c)'
  BY <1>1 DEF IInv, TypeOK, CallInv, Finished
<1>4. {c \in mask : ~Finished(c)}' = m
  BY <1>1, <1>3
<1>5. (mpc \in Calling \cup InFlight)' = TRUE
  BY <1>2
<1> QED
  BY <1>1, <1>2, <1>4, <1>5 DEF FJ!Fork

LEMMA FinishStep ==
  ASSUME IInv, NEW c \in Cores, RunTask(c)
  PROVE  FJ!Finish(c)
<1>1. /\ wpc[c] = "task" /\ last' = [last EXCEPT ![c] = t1[c]]
      /\ UNCHANGED <<mpc, epoch, mask>>
  BY DEF RunTask, WorkerGoes, mainVars
<1>2. mpc \in InFlight /\ c \in mask
  BY <1>1, AtWorkFlight DEF AtWork
<1>3. t1[c] = epoch /\ last[c] # epoch /\ mask \in SUBSET Cores /\ last \in [Cores -> Nat]
  BY <1>1, <1>2 DEF IInv, TypeOK, PlaceInv, Finished
<1>4. {d \in mask : ~Finished(d)}' = {d \in mask : ~Finished(d)} \ {c}
  BY <1>1, <1>3 DEF Finished
<1>5. /\ (mpc \in Calling \cup InFlight)' = (mpc \in Calling \cup InFlight)
      /\ mpc \in Calling \cup InFlight
      /\ c \in {d \in mask : ~Finished(d)}
  BY <1>1, <1>2, <1>3 DEF Finished
<1> QED
  BY <1>1, <1>4, <1>5 DEF FJ!Finish

LEMMA JoinStep ==
  ASSUME IInv, WaitWfe \/ PollClear
  PROVE  FJ!Join
<1>1. /\ mpc \in Waiting /\ mpc' = "booted" /\ UNCHANGED <<epoch, mask, last>>
      /\ WaitWfe => EuMasked # {}
      /\ PollClear => mpc = "poll_clear"
  BY DEF WaitWfe, PollClear, MainGoes, OnEu, workerVars, Waiting, eu_evt_waitAndClr
<1>2. mpc \in InFlight /\ mpc' \notin Calling \cup InFlight
  BY <1>1 DEF InFlight, Waiting, Calling
<1>3. "cluster_done" \in eu_buffer
  <2>1. CASE WaitWfe
    BY <1>1, <1>2, <2>1 DEF IInv, EventInv, EuMasked
  <2>2. CASE PollClear
    BY <1>1, <1>2, <2>2 DEF IInv, DoneInv
  <2> QED
    BY <2>1, <2>2
<1>4. {c \in mask : ~Finished(c)} = {}
  <2>1. Ended = mask
    BY <1>2, <1>3 DEF IInv, DoneInv
  <2> QED
    BY <2>1 DEF Ended
<1>5. {c \in mask : ~Finished(c)}' = {c \in mask : ~Finished(c)}
  BY <1>1 DEF Finished
<1>6. (mpc \in Calling \cup InFlight)' = FALSE
  BY <1>2
<1> QED
  BY <1>1, <1>2, <1>4, <1>5, <1>6 DEF FJ!Join

LEMMA MainStutters ==
  ASSUME ClkEn \/ PollReady \/ ArmClear \/ ArmEnable \/ SetNb \/ SetFunc
         \/ Start \/ PollStart \/ WaitEnable \/ PollSees
         \/ SetBinary \/ UseOther \/ ArmMask \/ Stop
  PROVE  UNCHANGED FJ!vars
<1>1. mask' = mask /\ epoch' = epoch /\ last' = last
  BY DEF ClkEn, PollReady, ArmClear, ArmEnable, SetNb, SetFunc, Start, PollStart,
         WaitEnable, PollSees, SetBinary, UseOther, ArmMask, Stop, OnRegs, OnEu,
         mainVars, workerVars
<1>2. \/ mpc \in Booting \cup Between /\ mpc' \in Booting \cup Between
      \/ mpc \in Calling \cup InFlight /\ mpc' \in Calling \cup InFlight
  <2>1. CASE ClkEn \/ PollReady \/ ArmClear \/ ArmEnable
    BY <2>1 DEF ClkEn, PollReady, ArmClear, ArmEnable, MainGoes, Booting, Between
  <2>2. CASE SetNb \/ SetFunc \/ Start \/ PollStart
    BY <2>2 DEF SetNb, SetFunc, Start, PollStart, MainGoes, Calling, InFlight, Waiting
  <2>3. CASE WaitEnable \/ PollSees
    BY <2>3 DEF WaitEnable, PollSees, MainGoes, Calling, InFlight, Waiting
  <2>4. CASE SetBinary \/ ArmMask \/ Stop
    BY <2>4 DEF SetBinary, ArmMask, Stop, MainGoes, Booting, Between
  <2>5. CASE UseOther
    BY <2>5 DEF UseOther, mainVars, Between
  <2> QED
    BY <2>1, <2>2, <2>3, <2>4, <2>5
<1>3. (Booting \cup Between) \cap (Calling \cup InFlight) = {}
  BY DEF Booting, Between, Calling, InFlight, Waiting
<1> QED
  BY <1>1, <1>2, <1>3, Stutters

LEMMA WorkerStutters ==
  ASSUME NEW c \in Cores, Worker(c), ~RunTask(c)
  PROVE  UNCHANGED FJ!vars
<1>1. UNCHANGED <<mpc, epoch, mask, last>>
  BY DEF Worker, Boot, SignalReady, TakeIrq, ReadData, ReadTaskbin, Ack, SignalDone,
         Mret, WorkerGoes, mainVars
<1> QED
  BY <1>1, Stutters

LEMMA StepImplements ==
  ASSUME IInv, ~PollTimesOut, [Next]_vars
  PROVE  [FJ!Next]_(FJ!vars)
<1>1. ASSUME NEW m \in SUBSET Cores, Dispatch(m)
      PROVE  FJ!Next
  BY <1>1, ForkStep DEF FJ!Next
<1>2. ASSUME NEW c \in Cores, Worker(c)
      PROVE  [FJ!Next]_(FJ!vars)
  <2>1. CASE RunTask(c)
    BY <2>1, FinishStep DEF FJ!Next
  <2> QED
    BY <1>2, <2>1, WorkerStutters
<1>3. CASE WaitWfe \/ PollClear
  BY <1>3, JoinStep DEF FJ!Next
<1>4. CASE Idle \/ OtherEvent \/ UNCHANGED vars
  <2>1. UNCHANGED <<mpc, epoch, mask, last>>
    BY <1>4 DEF Idle, OtherEvent, vars, mainVars, workerVars
  <2> QED
    BY <2>1, Stutters
<1>5. ~PollTimeout
  BY DEF PollTimeout
<1> QED
  BY <1>1, <1>2, <1>3, <1>4, <1>5, MainStutters DEF Next, Main, MainInCall

\* Dispatch, registers, interrupt latch, handlers and Event Unit together
\* implement fork and join: a round is joined only after every member of its
\* team has finished it, each exactly once.
THEOREM ImplementsFork ==
  ASSUME ~PollTimesOut
  PROVE  Spec => ForksAndJoins
<1>1. Init => FJ!Init
  <2> SUFFICES ASSUME Init
               PROVE  FJ!Init
    OBVIOUS
  <2>1. mpc \notin Calling \cup InFlight
    BY DEF Init, Calling, InFlight, Waiting
  <2>2. {c \in mask : ~Finished(c)} = {}
    BY DEF Init
  <2> QED
    BY <2>1, <2>2 DEF FJ!Init, Init
<1>2. IInv /\ [Next]_vars => [FJ!Next]_(FJ!vars)
  BY StepImplements
<1> QED
  BY <1>1, <1>2, InvariantHolds, PTL DEF ForksAndJoins, FJ!Safe, Spec

-----------------------------------------------------------------------------
(* Tasks that outlast their poll: the ACK side, for every PollTimesOut.    *)

LEMMA LateInit ==
  ASSUME Init
  PROVE  LateInv
<1>1. TypeOK /\ ReadyInv
  BY InitInv DEF IInv
<1>2. /\ mpc = "off" /\ start = {} /\ nb_ack = 0 /\ start_irq = {} /\ irq_pending = {}
      /\ epoch = 0
      /\ \A c \in Cores : wpc[c] = "off" /\ last[c] = 0
  BY DEF Init, RegsInit
<1>3. RestInv /\ LagInv /\ ReachInv /\ CountInv
  BY <1>2 DEF RestInv, LagInv, ReachInv, CountInv, Handling, Calling
<1> QED
  BY <1>1, <1>3 DEF LateInv

\* The ACK counter never stands at its quorum.
LEMMA LateBelow ==
  ASSUME LateInv
  PROVE  ~QuorumMet(nb_ack)
<1>1. nb_wait \in Nat \ {0} /\ nb_ack \in Nat
  BY DEF LateInv, TypeOK, RegsTypeOK, Counter
<1>2. CASE mpc # "poll_start"
  BY <1>1, <1>2 DEF LateInv, RestInv, QuorumMet
<1>3. CASE mpc = "poll_start"
  <2>1. mask \in SUBSET Cores /\ nb_wait = Cardinality(mask)
    BY <1>3 DEF LateInv, TypeOK, LagInv
  <2>2. Acked \in SUBSET mask
    BY DEF Acked
  <2>3. Acked # mask => Cardinality(Acked) < nb_wait
    BY <2>1, <2>2, SubsetCount
  <2> QED
    BY <1>1, <1>3, <2>3 DEF LateInv, CountInv, QuorumMet
<1> QED
  BY <1>2, <1>3

\* The counter of the DONEs, which older tasks may feed, keeps its type.
LEMMA LateQuiet ==
  ASSUME LateInv, QuietEdge
  PROVE  /\ nb_ack' = nb_ack /\ start' = start
         /\ start_irq' = {} /\ irq_pending' = irq_pending \cup start_irq
         /\ done' \in BOOLEAN /\ nb_done' \in Counter
<1>1. nb_done \in Counter
  BY DEF LateInv, TypeOK, RegsTypeOK
<1>2. done' = QuorumMet(nb_done) /\ (nb_done' = 0 \/ nb_done' = nb_done)
  BY DEF QuietEdge, Edge, Settle
<1>3. done' \in BOOLEAN
  BY <1>2 DEF QuorumMet
<1> QED
  BY <1>1, <1>2, <1>3, LateBelow, NCoresType DEF QuietEdge, Edge, Settle, LatchIrq

\* Away from the poll of START only the lag of the workers is left to show.
LEMMA LateAway ==
  ASSUME LateInv, mpc # "poll_start", mpc' # "poll_start",
         QuietEdge, UNCHANGED workerVars
  PROVE  /\ RestInv' /\ ReachInv' /\ CountInv'
         /\ start' = {} /\ nb_ack' = 0 /\ start_irq' = {} /\ irq_pending' = {}
         /\ done' \in BOOLEAN /\ nb_done' \in Counter
<1>1. /\ start = {} /\ nb_ack = 0 /\ start_irq = {} /\ irq_pending = {}
      /\ \A c \in Cores : wpc[c] \notin Handling
  BY DEF LateInv, RestInv
<1>2. /\ start' = {} /\ nb_ack' = 0 /\ start_irq' = {} /\ irq_pending' = {}
      /\ done' \in BOOLEAN /\ nb_done' \in Counter
  BY <1>1, LateQuiet
<1>3. RestInv'
  BY <1>1, <1>2 DEF RestInv, workerVars
<1>4. ReachInv' /\ CountInv'
  BY DEF ReachInv, CountInv
<1> QED
  BY <1>2, <1>3, <1>4

\* Steps of the main core outside a call of pulp_run_task, a poll that times
\* out among them.
LEMMA LateSilent ==
  ASSUME LateInv, mpc # "poll_start", mpc' \in Booting \cup Between \cup Waiting,
         QuietEdge, UNCHANGED <<workerVars, epoch, mask>>,
         UNCHANGED <<nb_wait, taskbin, data>>,
         boots' \in Nat, clk_en' \in BOOLEAN, entry_point' \in {ResetEntry, Binary},
         nb_ready' \in {0, nb_ready},
         mpc' \in Booting \/ mpc \notin Booting \/ nb_ready = NCores,
         mpc' \in Booting \/ nb_ready' = nb_ready,
         eu_buffer' \subseteq eu_buffer \cup DoneEvent \cup {"other"},
         eu_mask' \subseteq eu_mask \cup Events
  PROVE  LateInv'
<1>1. mpc' # "poll_start" /\ mpc' \notin Calling
  BY DEF Booting, Between, Waiting, Calling
<1>2. /\ RestInv' /\ ReachInv' /\ CountInv'
      /\ start' = {} /\ nb_ack' = 0 /\ start_irq' = {} /\ irq_pending' = {}
      /\ done' \in BOOLEAN /\ nb_done' \in Counter
  BY <1>1, LateAway
<1>3. TypeOK'
  <2>1. RegsTypeOK' /\ nb_wait' # 0
    BY <1>2, NCoresType DEF LateInv, TypeOK, RegsTypeOK
  <2>2. EuTypeOK'
    BY DEF LateInv, TypeOK, EuTypeOK, DoneEvent
  <2> QED
    BY <2>1, <2>2 DEF LateInv, TypeOK, workerVars, InFlight
<1>4. ReadyInv'
  <2>1. Armed' = Armed
    BY ArmedKept DEF workerVars
  <2>2. Cardinality(Armed) \in Nat /\ nb_ready <= Cardinality(Armed)
    BY CoreSets DEF LateInv, ReadyInv, Armed
  <2>3. nb_ready = NCores => Armed = Cores
    BY <2>2, NCoresType, SubsetCount DEF Armed, NCores
  <2>4. nb_ready' <= Cardinality(Armed)
    BY <2>2
  <2> QED
    BY <2>1, <2>3, <2>4 DEF LateInv, ReadyInv
<1>5. LagInv'
  BY <1>1 DEF LateInv, LagInv, Calling, workerVars
<1> QED
  BY <1>2, <1>3, <1>4, <1>5 DEF LateInv

LEMMA LateBoot ==
  ASSUME LateInv, SetBinary \/ ClkEn \/ PollReady \/ Stop
  PROVE  LateInv'
<1>1. /\ QuietEdge /\ UNCHANGED <<workerVars, epoch, mask>>
      /\ UNCHANGED <<nb_wait, taskbin, data>>
      /\ eu_buffer' = eu_buffer \cup DoneEvent /\ eu_mask' = eu_mask
  BY DEF SetBinary, ClkEn, PollReady, Stop, OnRegs, NoWrite, WriteBinary, WriteClkEn,
         EuIdle, EuLatch, configVars
<1>2. /\ boots \in Nat /\ clk_en \in BOOLEAN /\ entry_point \in {ResetEntry, Binary}
  BY DEF LateInv, TypeOK, RegsTypeOK
<1>3. /\ boots' \in Nat /\ clk_en' \in BOOLEAN /\ entry_point' \in {ResetEntry, Binary}
      /\ nb_ready' \in {0, nb_ready}
      /\ mpc # "poll_start" /\ mpc' \in Booting \cup Between
      /\ mpc' \in Booting \/ (nb_ready = NCores /\ nb_ready' = nb_ready)
  <2>1. CASE SetBinary
    BY <1>2, <2>1 DEF SetBinary, MainGoes, WriteBinary, Booting
  <2>2. CASE ClkEn
    BY <1>2, <2>2 DEF ClkEn, MainGoes, WriteClkEn, Booting
  <2>3. CASE PollReady
    BY <1>2, <2>3 DEF PollReady, ReadyReads1, MainGoes, NoWrite, configVars, Between
  <2>4. CASE Stop
    BY <1>2, <2>4 DEF Stop, MainGoes, WriteClkEn, Booting
  <2> QED
    BY <2>1, <2>2, <2>3, <2>4
<1> QED
  BY <1>1, <1>3, LateSilent

LEMMA LateEvents ==
  ASSUME LateInv,
         \/ UseOther \/ ArmMask \/ ArmClear \/ ArmEnable
         \/ WaitEnable \/ WaitWfe \/ PollSees \/ PollClear \/ PollTimeout
  PROVE  LateInv'
<1>1. NoWrite /\ UNCHANGED <<workerVars, epoch, mask, boots>>
  BY DEF UseOther, ArmMask, ArmClear, ArmEnable, WaitEnable, WaitWfe, PollSees,
         PollClear, PollTimeout, OnEu, mainVars
<1>2. /\ mpc \in Between \cup Waiting /\ mpc' \in Between \cup Waiting
      /\ eu_buffer' \subseteq eu_buffer \cup DoneEvent
      /\ eu_mask' \subseteq eu_mask \cup Events
  <2>1. CASE UseOther
    BY <2>1 DEF UseOther, eu_enable_events, EuLatch, mainVars, Between
  <2>2. CASE ArmMask
    BY <2>2 DEF ArmMask, EuDisableAll, EuLatch, MainGoes, Between
  <2>3. CASE ArmClear
    BY <2>3 DEF ArmClear, eu_clear_events, EuLatch, MainGoes, Between
  <2>4. CASE ArmEnable
    BY <2>4 DEF ArmEnable, eu_enable_events, EuLatch, MainGoes, Between
  <2>5. CASE WaitEnable
    BY <2>5 DEF WaitEnable, eu_enable_events, EuLatch, Waiting
  <2>6. CASE WaitWfe
    BY <2>6 DEF WaitWfe, eu_evt_waitAndClr, EuLatch, MainGoes, Waiting, Between
  <2>7. CASE PollSees
    BY <2>7 DEF PollSees, EuIdle, EuLatch, MainGoes, Waiting
  <2>8. CASE PollClear
    BY <2>8 DEF PollClear, eu_clear_events, EuLatch, MainGoes, Waiting, Between
  <2>9. CASE PollTimeout
    BY <2>9 DEF PollTimeout, EuIdle, EuLatch, MainGoes, Waiting, Between
  <2> QED
    BY <2>1, <2>2, <2>3, <2>4, <2>5, <2>6, <2>7, <2>8, <2>9
<1>3. mpc \notin Booting /\ mpc # "poll_start"
  BY <1>2 DEF Between, Waiting, Booting
<1>4. /\ boots' \in Nat /\ clk_en' \in BOOLEAN /\ entry_point' \in {ResetEntry, Binary}
      /\ nb_ready' = nb_ready /\ QuietEdge /\ UNCHANGED <<nb_wait, taskbin, data>>
  BY <1>1 DEF LateInv, TypeOK, RegsTypeOK, NoWrite, configVars
<1> QED
  BY <1>1, <1>2, <1>3, <1>4, LateSilent

\* A new dispatch finds every worker behind it, in an older task or in none.
LEMMA LateCall ==
  ASSUME LateInv, SetNb \/ SetFunc \/ \E m \in SUBSET Cores : Dispatch(m)
  PROVE  LateInv'
<1>1. /\ QuietEdge /\ UNCHANGED <<workerVars, boots, eu_mask, nb_ready, clk_en,
                                  entry_point>>
      /\ eu_buffer' = eu_buffer \cup DoneEvent
  BY DEF SetNb, SetFunc, Dispatch, OnRegs, EuIdle, EuLatch, NoWrite, WriteData,
         WriteNbCoresToWait, WriteTaskbin, configVars
<1>2. mpc \in {"armed"} \cup Calling /\ mpc' \in Calling
  BY DEF SetNb, SetFunc, Dispatch, MainGoes, Calling
<1>3. mpc # "poll_start" /\ mpc' # "poll_start" /\ mpc \notin Booting
  BY <1>2 DEF Calling, Booting
<1>4. /\ RestInv' /\ ReachInv' /\ CountInv'
      /\ start' = {} /\ nb_ack' = 0 /\ start_irq' = {} /\ irq_pending' = {}
      /\ done' \in BOOLEAN /\ nb_done' \in Counter
  BY <1>1, <1>3, LateAway
<1>5. /\ last \in [Cores -> Nat] /\ t1 \in [Cores -> Nat] /\ epoch \in Nat
      /\ \A c \in Cores : /\ last[c] <= epoch
                          /\ wpc[c] = "task" => t1[c] <= epoch /\ last[c] < epoch
  BY DEF LateInv, TypeOK, LagInv
<1>6. /\ epoch' \in Nat /\ epoch' <= MaxDispatch
      /\ mask' \subseteq Cores /\ mask' # {}
      /\ \A c \in Cores : /\ last[c] < epoch'
                          /\ wpc[c] = "task" => t1[c] < epoch'
  <2>1. CASE SetNb \/ SetFunc
    <3>1. epoch' = epoch /\ mask' = mask /\ mpc \in Calling
      BY <2>1 DEF SetNb, SetFunc, MainGoes, Calling
    <3>2. mask # {} /\ \A c \in Cores : ~Entered(c)
      BY <3>1 DEF LateInv, LagInv
    <3> QED
      BY <1>5, <3>1, <3>2 DEF LateInv, TypeOK, Entered, Finished
  <2>2. ASSUME NEW m \in SUBSET Cores, Dispatch(m)
        PROVE  epoch' = epoch + 1 /\ epoch < MaxDispatch /\ mask' = m /\ m # {}
    BY <2>2 DEF Dispatch
  <2> QED
    BY <1>5, <2>1, <2>2
<1>7. /\ nb_wait' \in Counter /\ nb_wait' # 0
      /\ taskbin' \in Nat /\ data' \in Nat
      /\ mpc' \in {"set_func", "start"} => nb_wait' = Cardinality(mask')
      /\ mpc' = "start" => taskbin' = epoch'
  <2>1. /\ nb_wait \in Counter /\ nb_wait # 0 /\ taskbin \in Nat /\ data \in Nat
        /\ mask \in SUBSET Cores
    BY DEF LateInv, TypeOK, RegsTypeOK
  <2>2. CASE SetNb
    <3>1. mask # {}
      BY <2>2 DEF SetNb, MainGoes, LateInv, LagInv, Calling
    <3>2. Cardinality(mask) \in Counter \ {0}
      BY <2>1, <3>1, CoreSets
    <3>3. nb_wait' = Cardinality(mask)
      BY <2>1, <2>2, CoreSets DEF SetNb, WriteNbCoresToWait
    <3> QED
      BY <2>1, <2>2, <3>2, <3>3 DEF SetNb, MainGoes, WriteNbCoresToWait
  <2>3. CASE SetFunc
    BY <1>5, <2>1, <2>3 DEF SetFunc, MainGoes, WriteTaskbin, LateInv, LagInv
  <2>4. ASSUME NEW m \in SUBSET Cores, Dispatch(m)
        PROVE  /\ nb_wait' = nb_wait /\ taskbin' = taskbin /\ mpc' = "set_nb"
               /\ data' \in Nat
    BY <1>5, <2>1, <2>4 DEF Dispatch, MainGoes, WriteData, NoWrite, configVars
  <2> QED
    BY <2>1, <2>2, <2>3, <2>4
<1>8. TypeOK'
  <2>1. RegsTypeOK'
    BY <1>1, <1>4, <1>7, NCoresType DEF LateInv, TypeOK, RegsTypeOK
  <2>2. EuTypeOK'
    BY <1>1 DEF LateInv, TypeOK, EuTypeOK, DoneEvent
  <2> QED
    BY <1>1, <1>2, <1>6, <1>7, <2>1, <2>2 DEF LateInv, TypeOK, workerVars
<1>9. ReadyInv'
  <2>1. Armed' = Armed /\ nb_ready' = nb_ready
    BY <1>1, ArmedKept DEF workerVars
  <2> QED
    BY <1>3, <2>1 DEF LateInv, ReadyInv
<1>10. LagInv'
  <2>1. wpc' = wpc /\ last' = last /\ t1' = t1
    BY <1>1 DEF workerVars
  <2>2. \A c \in Cores : /\ ~Entered(c)' /\ last'[c] <= epoch'
                         /\ wpc'[c] = "task" => t1'[c] <= epoch' /\ last'[c] < epoch'
    BY <1>5, <1>6, <2>1 DEF Entered, Finished
  <2> QED
    BY <1>3, <1>6, <1>7, <2>2 DEF LagInv
<1> QED
  BY <1>4, <1>8, <1>9, <1>10 DEF LateInv

\* The START write: every member has yet to enter, and a pulse on its way.
LEMMA LateStart ==
  ASSUME LateInv, Start
  PROVE  LateInv'
<1>1. /\ mpc = "start" /\ mpc' = "poll_start"
      /\ UNCHANGED <<workerVars, boots, epoch, mask, eu_mask, configVars>>
      /\ eu_buffer' = eu_buffer \cup DoneEvent
      /\ mask # {}
  BY DEF Start, MainGoes, OnRegs, EuIdle, EuLatch, WriteStartMask
<1>2. /\ start_irq = {} /\ irq_pending = {}
      /\ \A c \in Cores : wpc[c] \notin Handling \cup {"off", "ready"} /\ ~Entered(c)
  BY <1>1 DEF LateInv, RestInv, ReadyInv, LagInv, Armed, Booting, Calling
<1>3. /\ done' = FALSE /\ nb_done' = 0 /\ nb_ack' = 0
      /\ start' = mask /\ start_irq' = mask /\ irq_pending' = {}
  <2>1. ~QuorumMet(0)
    BY DEF LateInv, TypeOK, RegsTypeOK, Counter, QuorumMet
  <2> QED
    BY <1>2, <2>1 DEF Start, WriteStartMask, Edge, Settle, LatchIrq
<1>4. mask \in SUBSET Cores
  BY DEF LateInv, TypeOK
<1>5. \A c \in Cores : /\ wpc'[c] \notin Handling \cup {"off", "ready"}
                       /\ ~Entered(c)'
  BY <1>1, <1>2 DEF Finished, Entered, workerVars
<1>6. Acked' = {} /\ mask' = mask
  BY <1>1, <1>4, <1>5 DEF Acked
<1>7. TypeOK'
  <2>1. RegsTypeOK' /\ nb_wait' # 0
    BY <1>1, <1>3, <1>4, NCoresType DEF LateInv, TypeOK, RegsTypeOK, configVars
  <2>2. EuTypeOK'
    BY <1>1 DEF LateInv, TypeOK, EuTypeOK, DoneEvent
  <2> QED
    BY <1>1, <2>1, <2>2 DEF LateInv, TypeOK, InFlight, workerVars
<1>8. ReadyInv'
  <2>1. Armed' = Armed /\ nb_ready' = nb_ready
    BY <1>1, ArmedKept DEF workerVars, configVars
  <2> QED
    BY <1>1, <2>1 DEF LateInv, ReadyInv, Booting
<1>9. RestInv' /\ LagInv'
  BY <1>1 DEF RestInv, LateInv, LagInv, Calling, workerVars, configVars
<1>10. ReachInv'
  BY <1>1, <1>3, <1>4, <1>5 DEF ReachInv, Handling
<1>11. CountInv'
  BY <1>1, <1>3, <1>6, FS_EmptySet DEF CountInv
<1> QED
  BY <1>7, <1>8, <1>9, <1>10, <1>11 DEF LateInv

\* The return of the poll: everybody has entered, so nothing is left over.
LEMMA LatePollStart ==
  ASSUME LateInv, PollStart
  PROVE  LateInv'
<1>1. /\ mpc = "poll_start" /\ mpc' = "wait" /\ start = {} /\ NoWrite
      /\ UNCHANGED <<workerVars, boots, epoch, mask, eu_mask>>
      /\ eu_buffer' = eu_buffer \cup DoneEvent
  BY DEF PollStart, MainGoes, OnRegs, EuIdle, EuLatch
<1>2. /\ nb_ack' = nb_ack /\ start' = start
      /\ start_irq' = {} /\ irq_pending' = irq_pending \cup start_irq
      /\ done' \in BOOLEAN /\ nb_done' \in Counter /\ UNCHANGED configVars
  BY <1>1, LateQuiet DEF NoWrite
<1>3. Acked = mask /\ nb_ack = 0
  BY <1>1 DEF LateInv, LagInv, CountInv
<1>4. \A c \in mask : Entered(c)
  BY <1>3 DEF Acked
<1>5. start_irq = {} /\ irq_pending = {}
  BY <1>1, <1>4 DEF LateInv, ReachInv
<1>6. \A c \in Cores : wpc[c] \notin Handling
  BY <1>1, <1>4 DEF LateInv, ReachInv, Entered, Handling
<1>7. RestInv'
  BY <1>1, <1>2, <1>3, <1>5, <1>6 DEF RestInv, workerVars
<1>8. TypeOK'
  <2>1. RegsTypeOK' /\ nb_wait' # 0
    BY <1>2 DEF LateInv, TypeOK, RegsTypeOK, configVars
  <2>2. EuTypeOK'
    BY <1>1 DEF LateInv, TypeOK, EuTypeOK, DoneEvent
  <2> QED
    BY <1>1, <2>1, <2>2 DEF LateInv, TypeOK, InFlight, Waiting, workerVars
<1>9. ReadyInv'
  <2>1. Armed' = Armed /\ nb_ready' = nb_ready
    BY <1>1, <1>2, ArmedKept DEF workerVars, configVars
  <2> QED
    BY <1>1, <2>1 DEF LateInv, ReadyInv, Booting
<1>10. LagInv' /\ ReachInv' /\ CountInv'
  BY <1>1 DEF LateInv, LagInv, ReachInv, CountInv, Calling, workerVars
<1> QED
  BY <1>7, <1>8, <1>9, <1>10 DEF LateInv

\* A cycle in which no core does anything: the pulses are latched.
LEMMA LateTile ==
  ASSUME LateInv, Idle \/ OtherEvent
  PROVE  LateInv'
<1>1. /\ NoWrite /\ UNCHANGED <<mpc, boots, epoch, mask, eu_mask, workerVars>>
      /\ eu_buffer' \subseteq eu_buffer \cup DoneEvent \cup {"other"}
  BY DEF Idle, OtherEvent, mainVars, EuIdle, EuLatch
<1>2. /\ nb_ack' = nb_ack /\ start' = start
      /\ start_irq' = {} /\ irq_pending' = irq_pending \cup start_irq
      /\ done' \in BOOLEAN /\ nb_done' \in Counter /\ UNCHANGED configVars
  BY <1>1, LateQuiet DEF NoWrite
<1>3. TypeOK'
  <2>1. RegsTypeOK' /\ nb_wait' # 0
    BY <1>2 DEF LateInv, TypeOK, RegsTypeOK, configVars
  <2>2. EuTypeOK'
    BY <1>1 DEF LateInv, TypeOK, EuTypeOK, DoneEvent
  <2> QED
    BY <1>1, <2>1, <2>2 DEF LateInv, TypeOK, workerVars
<1>4. ReadyInv'
  <2>1. Armed' = Armed /\ nb_ready' = nb_ready
    BY <1>1, <1>2, ArmedKept DEF workerVars, configVars
  <2> QED
    BY <1>1, <2>1 DEF LateInv, ReadyInv
<1>5. Acked' = Acked /\ \A c \in Cores : Entered(c)' = Entered(c)
  BY <1>1 DEF Acked, Entered, Finished, workerVars
<1>6. RestInv' /\ CountInv'
  BY <1>1, <1>2, <1>5 DEF LateInv, RestInv, CountInv, workerVars
<1>7. LagInv'
  BY <1>1, <1>2 DEF LateInv, LagInv, Entered, Finished, workerVars, configVars
<1>8. ReachInv'
  BY <1>1, <1>2 DEF LateInv, ReachInv, Entered, Finished, workerVars, configVars
<1> QED
  BY <1>3, <1>4, <1>6, <1>7, <1>8 DEF LateInv

\* A worker's step outside the handler changes nothing for the dispatch.
LEMMA LateElsewhere ==
  ASSUME LateInv, NEW c \in Cores, NEW to \in WorkerPc \ (Handling \cup {"task"}),
         wpc[c] \notin Handling, wpc' = [wpc EXCEPT ![c] = to],
         to \in {"off", "ready"} => wpc[c] \in {"off", "ready"},
         UNCHANGED <<mainVars, a0, t1>>, EuIdle(DoneEvent),
         last' = [last EXCEPT ![c] = IF wpc[c] = "task" THEN t1[c] ELSE last[c]],
         UNCHANGED <<clk_en, entry_point, nb_wait, taskbin, data>>,
         nb_ready' \in Counter, ReadyInv', done' \in BOOLEAN, nb_done' \in Counter,
         nb_ack' = nb_ack, start' = start, start_irq' = {},
         irq_pending' = irq_pending \cup start_irq
  PROVE  LateInv'
<1>1. /\ UNCHANGED <<mpc, boots, epoch, mask, eu_mask>>
      /\ eu_buffer' = eu_buffer \cup DoneEvent
  BY DEF mainVars, EuIdle, EuLatch
<1>2. /\ wpc \in [Cores -> WorkerPc] /\ last \in [Cores -> Nat] /\ epoch \in Nat
      /\ t1 \in [Cores -> Nat] /\ mask \in SUBSET Cores
  BY DEF LateInv, TypeOK
<1>3. /\ wpc'[c] = to /\ to # "task" /\ to \notin Handling
      /\ last'[c] = IF wpc[c] = "task" THEN t1[c] ELSE last[c]
      /\ \A d \in Cores \ {c} : wpc'[d] = wpc[d] /\ last'[d] = last[d]
      /\ wpc' \in [Cores -> WorkerPc] /\ last' \in [Cores -> Nat]
  BY <1>2
<1>4. \A d \in Cores : /\ last[d] <= epoch
                       /\ wpc[d] = "task" => t1[d] <= epoch /\ last[d] < epoch
  BY DEF LateInv, LagInv
<1>5. \A d \in Cores : Entered(d)' = Entered(d)
  <2>1. ASSUME NEW d \in Cores \ {c}
        PROVE  Entered(d)' = Entered(d)
    BY <1>1, <1>3 DEF Entered, Finished
  <2>2. CASE wpc[c] = "task"
    <3>1. Entered(c) <=> t1[c] = epoch
      BY <1>2, <1>4, <2>2 DEF Entered, Finished
    <3>2. Entered(c)' <=> t1[c] = epoch
      BY <1>1, <1>3, <2>2 DEF Entered, Finished
    <3> QED
      BY <2>1, <3>1, <3>2 DEF Entered
  <2>3. CASE wpc[c] # "task"
    BY <1>1, <1>3, <2>1, <2>3 DEF Entered, Finished
  <2> QED
    BY <2>2, <2>3
<1>6. TypeOK'
  <2>1. RegsTypeOK'
    BY DEF LateInv, TypeOK, RegsTypeOK
  <2>2. EuTypeOK'
    BY <1>1 DEF LateInv, TypeOK, EuTypeOK, DoneEvent
  <2> QED
    BY <1>1, <1>3, <2>1, <2>2 DEF LateInv, TypeOK
<1>7. RestInv'
  <2> SUFFICES ASSUME mpc # "poll_start"
               PROVE  RestInv'
    BY <1>1 DEF RestInv
  <2>1. /\ start = {} /\ nb_ack = 0 /\ start_irq = {} /\ irq_pending = {}
        /\ \A d \in Cores : wpc[d] \notin Handling
    BY DEF LateInv, RestInv
  <2>2. \A d \in Cores : wpc'[d] \notin Handling
    BY <1>3, <2>1
  <2> QED
    BY <2>1, <2>2 DEF RestInv
<1>8. LagInv'
  <2>1. \A d \in Cores : /\ last'[d] <= epoch
                         /\ wpc'[d] = "task" => t1[d] <= epoch /\ last'[d] < epoch
    BY <1>3, <1>4
  <2>2. mpc \in Calling => \A d \in Cores : ~Entered(d)'
    BY <1>5 DEF LateInv, LagInv
  <2> QED
    BY <1>1, <2>1, <2>2 DEF LateInv, LagInv
<1>9. ReachInv'
  <2> SUFFICES ASSUME mpc = "poll_start"
               PROVE  ReachInv'
    BY <1>1 DEF ReachInv
  <2>1. ASSUME NEW d \in Cores
        PROVE  /\ wpc'[d] \in Handling => d \in mask /\ last'[d] # epoch
               /\ wpc'[d] \in {"rd_task", "ack"} => a0[d] = data
               /\ wpc'[d] = "ack" => t1[d] = epoch
    BY <1>3 DEF LateInv, ReachInv, Handling, Finished
  <2>2. ASSUME NEW d \in start_irq \cup irq_pending
        PROVE  d \in mask /\ ~Entered(d)' /\ wpc'[d] \notin Handling \cup {"off", "ready"}
    <3>1. d \in mask /\ ~Entered(d) /\ wpc[d] \notin Handling \cup {"off", "ready"}
      BY DEF LateInv, ReachInv
    <3> QED
      BY <1>2, <1>3, <1>5, <3>1
  <2>3. ASSUME NEW d \in mask
        PROVE  Entered(d)' \/ wpc'[d] \in Handling \/ d \in irq_pending'
    BY <1>2, <1>3, <1>5 DEF LateInv, ReachInv
  <2> QED
    BY <1>1, <2>1, <2>2, <2>3 DEF ReachInv, Finished
<1>10. CountInv'
  <2>1. Acked' = Acked
    BY <1>1, <1>2, <1>5 DEF Acked
  <2> QED
    BY <1>1, <2>1 DEF LateInv, CountInv
<1> QED
  BY <1>6, <1>7, <1>8, <1>9, <1>10 DEF LateInv

LEMMA LateWorker ==
  ASSUME LateInv, NEW c \in Cores,
         Boot(c) \/ SignalReady(c) \/ RunTask(c) \/ SignalDone(c) \/ Mret(c)
  PROVE  LateInv'
<1>1. /\ wpc \in [Cores -> WorkerPc] /\ last \in [Cores -> Nat] /\ nb_ready \in Counter
      /\ nb_ready \in Nat /\ NCores \in Nat
      /\ nb_done \in Counter /\ nb_done \in Nat /\ UNCHANGED mainVars /\ EuIdle(DoneEvent)
  BY NCoresType DEF LateInv, TypeOK, RegsTypeOK, Boot, SignalReady, RunTask, SignalDone, Mret,
         WorkerGoes
<1>2. mpc' = mpc
  BY <1>1 DEF mainVars
<1>3. Cardinality(Armed) \in Nat /\ IsFiniteSet(Armed) /\ nb_ready <= Cardinality(Armed)
  BY CoreSets DEF Armed, LateInv, ReadyInv
<1>4. CASE Boot(c)
  <2>1. /\ wpc[c] = "off" /\ wpc' = [wpc EXCEPT ![c] = "ready"] /\ NoWrite
        /\ UNCHANGED <<a0, t1, last>>
    BY <1>4 DEF Boot, WorkerGoes
  <2>2. Armed' = Armed
    BY <1>1, <2>1 DEF Armed
  <2>3. ReadyInv' /\ nb_ready' \in Counter
    BY <1>1, <1>2, <2>1, <2>2 DEF LateInv, ReadyInv, NoWrite, configVars
  <2>4. "ready" \in WorkerPc \ (Handling \cup {"task"}) /\ wpc[c] \notin Handling
    BY <2>1 DEF WorkerPc, Handling
  <2>5. last' = [last EXCEPT ![c] = IF wpc[c] = "task" THEN t1[c] ELSE last[c]]
    BY <1>1, <2>1
  <2> QED
    BY <1>1, <2>1, <2>3, <2>4, <2>5, LateQuiet, LateElsewhere DEF NoWrite, configVars
<1>5. CASE SignalReady(c)
  <2>1. /\ wpc[c] = "ready" /\ wpc' = [wpc EXCEPT ![c] = "wfi"] /\ WriteReady
        /\ UNCHANGED <<a0, t1, last>>
    BY <1>5 DEF SignalReady, WorkerGoes
  <2>2. Armed' = Armed \cup {c} /\ c \notin Armed
    BY <1>1, <2>1 DEF Armed
  <2>3. Cardinality(Armed') = Cardinality(Armed) + 1
    BY <1>3, <2>2, FS_AddElement
  <2>4. nb_ready' \in Counter /\ nb_ready' <= nb_ready + 1
    BY <1>1, <2>1, NCoresType DEF WriteReady, Counter, NCores
  <2>5. ReadyInv'
    <3>1. nb_ready' <= Cardinality(Armed')
      BY <1>1, <1>3, <2>3, <2>4 DEF Counter
    <3>2. mpc' \notin Booting => Armed' = Cores
      BY <1>2, <2>2 DEF LateInv, ReadyInv
    <3> QED
      BY <3>1, <3>2 DEF ReadyInv
  <2>6. "wfi" \in WorkerPc \ (Handling \cup {"task"}) /\ wpc[c] \notin Handling
    BY <2>1 DEF WorkerPc, Handling
  <2>7. last' = [last EXCEPT ![c] = IF wpc[c] = "task" THEN t1[c] ELSE last[c]]
    BY <1>1, <2>1
  <2> QED
    BY <1>1, <2>1, <2>4, <2>5, <2>6, <2>7, LateQuiet, LateElsewhere DEF WriteReady
<1>6. CASE RunTask(c) \/ Mret(c)
  <2> DEFINE to == IF wpc[c] = "task" THEN "done" ELSE "wfi"
  <2>1. /\ wpc[c] \in {"task", "mret"} /\ wpc' = [wpc EXCEPT ![c] = to] /\ NoWrite
        /\ UNCHANGED <<a0, t1>>
        /\ last' = [last EXCEPT ![c] = IF wpc[c] = "task" THEN t1[c] ELSE last[c]]
    BY <1>1, <1>6 DEF RunTask, Mret, WorkerGoes
  <2>2. Armed' = Armed
    BY <1>1, <2>1 DEF Armed
  <2>3. ReadyInv' /\ nb_ready' \in Counter
    BY <1>1, <1>2, <2>1, <2>2 DEF LateInv, ReadyInv, NoWrite, configVars
  <2>4. /\ to \in WorkerPc \ (Handling \cup {"task"}) /\ wpc[c] \notin Handling
        /\ to \notin {"off", "ready"}
    BY <2>1 DEF WorkerPc, Handling
  <2> HIDE DEF to
  <2> QED
    BY <1>1, <2>1, <2>3, <2>4, LateQuiet, LateElsewhere DEF NoWrite, configVars
<1>7. CASE SignalDone(c)
  <2>1. /\ wpc[c] = "done" /\ wpc' = [wpc EXCEPT ![c] = "mret"] /\ WriteDone
        /\ UNCHANGED <<a0, t1, last>>
    BY <1>7 DEF SignalDone, WorkerGoes
  <2>2. Armed' = Armed
    BY <1>1, <2>1 DEF Armed
  <2>3. ReadyInv' /\ nb_ready' \in Counter
    BY <1>1, <1>2, <2>1, <2>2 DEF LateInv, ReadyInv, WriteDone, configVars
  <2>4. /\ "mret" \in WorkerPc \ (Handling \cup {"task"}) /\ wpc[c] \notin Handling
    BY <2>1 DEF WorkerPc, Handling
  <2>5. last' = [last EXCEPT ![c] = IF wpc[c] = "task" THEN t1[c] ELSE last[c]]
    BY <1>1, <2>1
  <2>6. Succ(nb_done) \in Counter
    BY <1>1 DEF Succ, Counter
  <2>7. /\ done' \in BOOLEAN /\ nb_done' \in Counter
        /\ nb_ack' = nb_ack /\ start' = start /\ start_irq' = {}
        /\ irq_pending' = irq_pending \cup start_irq
    <3>1. done' = QuorumMet(Succ(nb_done)) /\ (nb_done' = 0 \/ nb_done' = Succ(nb_done))
      BY <2>1 DEF WriteDone, Edge, Settle
    <3>2. done' \in BOOLEAN
      BY <3>1 DEF QuorumMet
    <3> QED
      BY <2>1, <2>6, <3>1, <3>2, LateBelow, NCoresType
         DEF WriteDone, Edge, Settle, LatchIrq
  <2> QED
    BY <1>1, <2>1, <2>3, <2>4, <2>5, <2>7, LateElsewhere DEF WriteDone, configVars
<1> QED
  BY <1>4, <1>5, <1>6, <1>7

\* What the steps of the handler have in common.
LEMMA LateHandler ==
  ASSUME LateInv, NEW c \in Cores, NEW to \in Handling \cup {"task"},
         wpc[c] \in Handling \cup {"wfi"},
         c \in irq_pending \/ wpc[c] \in Handling,
         wpc' = [wpc EXCEPT ![c] = to],
         UNCHANGED <<mainVars, configVars, last>>, EuIdle(DoneEvent),
         a0' \in [Cores -> Nat], t1' \in [Cores -> Nat],
         \A d \in Cores \ {c} : a0'[d] = a0[d] /\ t1'[d] = t1[d],
         to \in {"rd_task", "ack"} => a0'[c] = data,
         to \in {"ack", "task"} => t1'[c] = epoch,
         done' \in BOOLEAN, nb_done' \in Counter, nb_ack' \in Counter,
         start' \subseteq Cores, start_irq' = {},
         irq_pending' = (irq_pending \cup start_irq) \ {c},
         CountInv'
  PROVE  LateInv'
<1>1. /\ UNCHANGED <<mpc, boots, epoch, mask, eu_mask, configVars, last>>
      /\ eu_buffer' = eu_buffer \cup DoneEvent
  BY DEF mainVars, EuIdle, EuLatch
<1>2. /\ wpc \in [Cores -> WorkerPc] /\ last \in [Cores -> Nat] /\ epoch \in Nat
      /\ mask \in SUBSET Cores
      /\ irq_pending \in SUBSET Cores /\ start_irq \in SUBSET Cores
  BY DEF LateInv, TypeOK, RegsTypeOK
<1>3. mpc = "poll_start"
  BY DEF LateInv, RestInv
<1>4. c \in mask /\ ~Finished(c)
  BY <1>3 DEF LateInv, ReachInv, Entered
<1>5. /\ wpc'[c] = to /\ to \in WorkerPc /\ to \notin {"off", "ready"}
      /\ \A d \in Cores \ {c} : wpc'[d] = wpc[d] /\ Entered(d)' = Entered(d)
      /\ wpc' \in [Cores -> WorkerPc]
  BY <1>1, <1>2 DEF WorkerPc, Handling, Entered, Finished
<1>6. \A d \in Cores : Finished(d)' = Finished(d)
  BY <1>1 DEF Finished
<1>7. TypeOK'
  <2>1. RegsTypeOK' /\ nb_wait' # 0
    BY <1>1, <1>2 DEF LateInv, TypeOK, RegsTypeOK, configVars
  <2>2. EuTypeOK'
    BY <1>1 DEF LateInv, TypeOK, EuTypeOK, DoneEvent
  <2> QED
    BY <1>1, <1>5, <2>1, <2>2 DEF LateInv, TypeOK
<1>8. ReadyInv'
  <2>1. Armed' = Armed
    BY <1>2, <1>5 DEF Armed, Handling
  <2> QED
    BY <1>1, <2>1 DEF LateInv, ReadyInv, configVars
<1>9. RestInv'
  BY <1>1, <1>3 DEF RestInv
<1>10. LagInv'
  <2>1. last[c] < epoch
    BY <1>2, <1>4 DEF LateInv, LagInv, Finished
  <2>2. \A d \in Cores : /\ last'[d] <= epoch'
                         /\ wpc'[d] = "task" => t1'[d] <= epoch' /\ last'[d] < epoch'
    BY <1>1, <1>2, <1>5, <2>1 DEF LateInv, LagInv
  <2> QED
    BY <1>1, <1>3, <2>2 DEF LateInv, LagInv, Calling, configVars
<1>11. ReachInv'
  <2>1. ASSUME NEW d \in Cores
        PROVE  /\ wpc'[d] \in Handling => d \in mask /\ ~Finished(d)'
               /\ wpc'[d] \in {"rd_task", "ack"} => a0'[d] = data
               /\ wpc'[d] = "ack" => t1'[d] = epoch
    <3>1. CASE d = c
      BY <1>4, <1>5, <1>6, <3>1
    <3>2. CASE d # c
      BY <1>3, <1>5, <1>6, <3>2 DEF LateInv, ReachInv
    <3> QED
      BY <3>1, <3>2
  <2>2. ASSUME NEW d \in irq_pending'
        PROVE  d \in mask /\ ~Entered(d)' /\ wpc'[d] \notin Handling \cup {"off", "ready"}
    BY <1>2, <1>3, <1>5 DEF LateInv, ReachInv
  <2>3. ASSUME NEW d \in mask
        PROVE  Entered(d)' \/ wpc'[d] \in Handling \/ d \in irq_pending'
    <3>1. CASE d = c
      BY <1>1, <1>5, <3>1 DEF Entered
    <3>2. CASE d # c
      BY <1>2, <1>3, <1>5, <3>2 DEF LateInv, ReachInv
    <3> QED
      BY <3>1, <3>2
  <2> QED
    BY <1>1, <2>1, <2>2, <2>3 DEF ReachInv, configVars
<1> QED
  BY <1>7, <1>8, <1>9, <1>10, <1>11 DEF LateInv

LEMMA LateRead ==
  ASSUME LateInv, NEW c \in Cores, TakeIrq(c) \/ ReadData(c) \/ ReadTaskbin(c)
  PROVE  LateInv'
<1> DEFINE to == CASE wpc[c] = "wfi"     -> "rd_data"
                   [] wpc[c] = "rd_data" -> "rd_task"
                   [] OTHER              -> "ack"
<1>1. /\ wpc[c] \in {"wfi", "rd_data", "rd_task"} /\ wpc' = [wpc EXCEPT ![c] = to]
      /\ wpc[c] = "wfi" => c \in irq_pending
      /\ UNCHANGED <<mainVars, configVars, last>> /\ EuIdle(DoneEvent)
  <2>1. CASE TakeIrq(c)
    BY <2>1 DEF TakeIrq, WorkerGoes, AckIrq
  <2>2. CASE ReadData(c)
    BY <2>2 DEF ReadData, WorkerGoes, NoWrite
  <2>3. CASE ReadTaskbin(c)
    BY <2>3 DEF ReadTaskbin, WorkerGoes, NoWrite
  <2> QED
    BY <2>1, <2>2, <2>3
<1>2. /\ mpc = "poll_start" /\ mpc' = mpc /\ mask' = mask /\ epoch' = epoch
      /\ to \in Handling /\ wpc[c] \in Handling \cup {"wfi"}
      /\ c \in irq_pending \/ wpc[c] \in Handling
  BY <1>1 DEF LateInv, RestInv, Handling, mainVars
<1>3. /\ wpc \in [Cores -> WorkerPc] /\ a0 \in [Cores -> Nat] /\ t1 \in [Cores -> Nat]
      /\ data \in Nat /\ taskbin \in Nat /\ mask \in SUBSET Cores
      /\ nb_ack \in Counter /\ start \in SUBSET Cores /\ nb_done \in Counter
  BY DEF LateInv, TypeOK, RegsTypeOK
<1>4. /\ nb_ack' = nb_ack /\ start' = start /\ start_irq' = {}
      /\ irq_pending' = (irq_pending \cup start_irq) \ {c}
      /\ done' \in BOOLEAN /\ nb_done' \in Counter
  <2>1. CASE TakeIrq(c)
    <3>1. done' = QuorumMet(nb_done) /\ (nb_done' = 0 \/ nb_done' = nb_done)
      BY <2>1 DEF TakeIrq, AckIrq, Settle
    <3>2. done' \in BOOLEAN
      BY <3>1 DEF QuorumMet
    <3> QED
      BY <1>3, <2>1, <3>1, <3>2, LateBelow, NCoresType DEF TakeIrq, AckIrq, Settle, LatchIrq
  <2>2. CASE ReadData(c) \/ ReadTaskbin(c)
    <3>1. c \notin start_irq \cup irq_pending
      <4>1. wpc[c] \in Handling
        BY <2>2 DEF ReadData, ReadTaskbin, WorkerGoes, Handling
      <4> QED
        BY <1>2, <4>1 DEF LateInv, ReachInv
    <3>2. NoWrite
      BY <2>2 DEF ReadData, ReadTaskbin
    <3> QED
      BY <3>1, <3>2, LateQuiet DEF NoWrite
  <2> QED
    BY <2>1, <2>2
<1>5. /\ a0' \in [Cores -> Nat] /\ t1' \in [Cores -> Nat]
      /\ \A d \in Cores \ {c} : a0'[d] = a0[d] /\ t1'[d] = t1[d]
      /\ to \in {"rd_task", "ack"} => a0'[c] = data
      /\ to \in {"ack", "task"} => t1'[c] = epoch
  <2>1. CASE TakeIrq(c)
    BY <1>3, <2>1 DEF TakeIrq, WorkerGoes
  <2>2. CASE ReadData(c)
    BY <1>3, <2>2 DEF ReadData, WorkerGoes
  <2>3. CASE ReadTaskbin(c)
    BY <1>2, <1>3, <2>3 DEF ReadTaskbin, WorkerGoes, LateInv, LagInv, ReachInv
  <2> QED
    BY <2>1, <2>2, <2>3
<1>6. CountInv'
  <2>1. to # "task" /\ wpc[c] # "task" /\ wpc'[c] = to
    BY <1>1, <1>2, <1>3 DEF Handling
  <2>2. \A d \in Cores : Entered(d)' = Entered(d)
    BY <1>1, <1>2, <1>3, <1>5, <2>1 DEF Entered, Finished
  <2>3. Acked' = Acked
    BY <1>2, <1>3, <2>2 DEF Acked
  <2> QED
    BY <1>2, <1>4, <2>3 DEF LateInv, CountInv
<1> HIDE DEF to
<1> QED
  BY <1>1, <1>2, <1>3, <1>4, <1>5, <1>6, LateHandler

\* The ACK of one member: the last one clears START, no other does.
LEMMA LateAck ==
  ASSUME LateInv, NEW c \in Cores, Ack(c)
  PROVE  LateInv'
<1>1. /\ wpc[c] = "ack" /\ wpc' = [wpc EXCEPT ![c] = "task"]
      /\ UNCHANGED <<mainVars, configVars, a0, t1, last>> /\ EuIdle(DoneEvent)
  BY DEF Ack, WorkerGoes, WriteStartZero
<1>2. mpc = "poll_start" /\ mpc' = mpc /\ mask' = mask /\ epoch' = epoch
  BY <1>1 DEF LateInv, RestInv, Handling, mainVars
<1>3. c \in mask /\ ~Finished(c) /\ t1[c] = epoch /\ c \notin start_irq \cup irq_pending
  BY <1>1, <1>2 DEF LateInv, ReachInv, Handling
<1>4. /\ wpc \in [Cores -> WorkerPc] /\ a0 \in [Cores -> Nat] /\ t1 \in [Cores -> Nat]
      /\ mask \in SUBSET Cores /\ nb_wait = Cardinality(mask)
      /\ nb_wait \in Nat /\ nb_wait # 0 /\ nb_done \in Counter
  BY <1>2 DEF LateInv, TypeOK, RegsTypeOK, LagInv, Counter
<1>5. Acked \in SUBSET mask /\ c \notin Acked /\ Acked' = Acked \cup {c}
  <2>1. \A d \in Cores \ {c} : Entered(d)' = Entered(d)
    BY <1>1, <1>2, <1>4 DEF Entered, Finished
  <2>2. ~Entered(c) /\ Entered(c)'
    BY <1>1, <1>2, <1>3, <1>4 DEF Entered
  <2> QED
    BY <1>2, <1>3, <1>4, <2>1, <2>2 DEF Acked
<1>6. start = mask /\ nb_ack = Cardinality(Acked)
  BY <1>2, <1>3, <1>5 DEF LateInv, CountInv
<1>7. /\ Succ(nb_ack) = Cardinality(Acked') /\ Succ(nb_ack) \in Counter
      /\ QuorumMet(Succ(nb_ack)) <=> Acked' = mask
  <2>1. Succ(nb_ack) = Cardinality(Acked')
    BY <1>3, <1>4, <1>5, <1>6, OneMore
  <2>2. Acked' \in SUBSET mask /\ Cardinality(Acked') \in Nat /\ Cardinality(Acked') \in Counter
    <3>1. Acked \cup {c} \in SUBSET Cores
      BY <1>3, <1>4, <1>5
    <3>2. Cardinality(Acked \cup {c}) \in Nat /\ Cardinality(Acked \cup {c}) \in Counter
      BY <3>1, CoreSets
    <3> QED
      BY <1>3, <1>5, <3>2
  <2>3. Acked' # mask => Cardinality(Acked') < Cardinality(mask)
    BY <1>3, <1>4, <1>5, SubsetCount
  <2> QED
    BY <1>4, <2>1, <2>2, <2>3 DEF QuorumMet
<1>8. /\ done' \in BOOLEAN /\ start_irq' = {} /\ nb_done' \in Counter
      /\ irq_pending' = (irq_pending \cup start_irq) \ {c}
      /\ start' = IF Acked' = mask THEN {} ELSE mask
      /\ nb_ack' = IF Acked' = mask THEN 0 ELSE Cardinality(Acked')
  <2>1. done' = QuorumMet(nb_done) /\ (nb_done' = 0 \/ nb_done' = nb_done)
    BY DEF Ack, WriteStartZero, Edge, Settle
  <2>2. done' \in BOOLEAN
    BY <2>1 DEF QuorumMet
  <2>3. /\ start_irq' = {} /\ irq_pending' = irq_pending \cup start_irq
        /\ start' = IF Acked' = mask THEN {} ELSE mask
        /\ nb_ack' = IF Acked' = mask THEN 0 ELSE Cardinality(Acked')
    BY <1>6, <1>7 DEF Ack, WriteStartZero, Edge, Settle, LatchIrq
  <2> QED
    BY <1>3, <1>4, <2>1, <2>2, <2>3, NCoresType
<1>9. start' \subseteq Cores /\ nb_ack' \in Counter
  BY <1>4, <1>7, <1>8, NCoresType
<1>10. CountInv'
  BY <1>2, <1>8 DEF CountInv
<1>11. wpc[c] \in Handling /\ "task" \in Handling \cup {"task"}
  BY <1>1 DEF Handling
<1> QED
  BY <1>1, <1>3, <1>4, <1>8, <1>9, <1>10, <1>11, LateHandler

LEMMA LateStutter ==
  ASSUME LateInv, UNCHANGED vars
  PROVE  LateInv'
<1>1. Armed' = Armed /\ Acked' = Acked
  BY DEF vars, workerVars, mainVars, Armed, Acked, Entered, Finished
<1>2. TypeOK' /\ ReadyInv'
  BY <1>1 DEF LateInv, vars, regVars, countVars, configVars, euVars, mainVars,
              workerVars, TypeOK, RegsTypeOK, EuTypeOK, ReadyInv
<1>3. RestInv' /\ LagInv' /\ ReachInv' /\ CountInv'
  BY <1>1 DEF LateInv, vars, regVars, countVars, configVars, mainVars, workerVars,
              RestInv, LagInv, ReachInv, CountInv, Entered, Finished
<1> QED
  BY <1>2, <1>3 DEF LateInv

LEMMA LateNext ==
  ASSUME LateInv, [Next]_vars
  PROVE  LateInv'
<1>1. CASE Main
  <2>1. CASE SetBinary \/ ClkEn \/ PollReady \/ Stop
    BY <2>1, LateBoot
  <2>2. CASE \/ UseOther \/ ArmMask \/ ArmClear \/ ArmEnable
             \/ WaitEnable \/ WaitWfe \/ PollSees \/ PollClear \/ PollTimeout
    BY <2>2, LateEvents
  <2>3. CASE SetNb \/ SetFunc \/ \E m \in SUBSET Cores : Dispatch(m)
    BY <2>3, LateCall
  <2>4. CASE Start
    BY <2>4, LateStart
  <2>5. CASE PollStart
    BY <2>5, LatePollStart
  <2> QED
    BY <1>1, <2>1, <2>2, <2>3, <2>4, <2>5 DEF Main, MainInCall
<1>2. ASSUME NEW c \in Cores, Worker(c)
      PROVE  LateInv'
  BY <1>2, LateWorker, LateRead, LateAck DEF Worker
<1>3. CASE Idle \/ OtherEvent
  BY <1>3, LateTile
<1>4. CASE UNCHANGED vars
  BY <1>4, LateStutter
<1> QED
  BY <1>1, <1>2, <1>3, <1>4 DEF Next

-----------------------------------------------------------------------------
(* What holds however long a task takes.                                   *)

\* The inductive invariant of the ACK side: between a START write and the
\* last worker's ACK, the mask, the counter, the interrupts and the places in
\* pulp_crt0.S agree, whatever older tasks are still running and whatever
\* DONEs they count into the new dispatch.
THEOREM LateInvariantHolds == Spec => []LateInv
<1>1. Init => LateInv
  BY LateInit
<1>2. LateInv /\ [Next]_vars => LateInv'
  BY LateNext
<1> QED
  BY <1>1, <1>2, PTL DEF Spec

\* Every register and every core stays within its type: the counters of
\* obi_slave_ctrl_cluster.sv never leave their width, READY never passes the
\* number of workers, and NB_CORES_TO_WAIT is never 0.
THEOREM TypeCorrect == Spec => []TypeOK
<1>1. LateInv => TypeOK
  BY DEF LateInv
<1> QED
  BY <1>1, LateInvariantHolds, PTL

\* pulp_run_task returns only once every selected worker has read TASKBIN and
\* DATA for this dispatch: the mask stays in START until the last ACK.
THEOREM StartIsHeld == Spec => []StartClearsLast
<1>1. LateInv => StartClearsLast
  <2> SUFFICES ASSUME LateInv, mpc = "poll_start", start = {}
               PROVE  \A c \in mask : Entered(c)
    BY DEF StartClearsLast
  <2>1. mask # {}
    BY DEF LateInv, LagInv
  <2>2. Acked = mask
    BY <2>1 DEF LateInv, CountInv
  <2> QED
    BY <2>2 DEF Acked
<1> QED
  BY <1>1, LateInvariantHolds, PTL

\* The latch of magia_tile.sv loses no dispatch interrupt, also not that of a
\* worker that is still in the task of an earlier dispatch.
THEOREM DispatchIsSeen == Spec => []DispatchReachesAll
<1>1. LateInv => DispatchReachesAll
  BY DEF LateInv, ReachInv, DispatchReachesAll
<1> QED
  BY <1>1, LateInvariantHolds, PTL

\* The trap handler calls a task only on the workers the mask selects, with
\* the task and the context of that dispatch, and once for each dispatch.
THEOREM CallsOnce == Spec => CalledOnce
<1> DEFINE Once == \A c \in Cores :
                     wpc[c] = "ack" /\ wpc'[c] = "task" =>
                       c \in mask /\ t1[c] = epoch /\ a0[c] = data /\ last[c] # epoch
<1>1. LateInv => Once
  <2> SUFFICES ASSUME LateInv, NEW c \in Cores, wpc[c] = "ack"
               PROVE  c \in mask /\ t1[c] = epoch /\ a0[c] = data /\ last[c] # epoch
    OBVIOUS
  <2>1. mpc = "poll_start"
    BY DEF LateInv, RestInv, Handling
  <2> QED
    BY <2>1 DEF LateInv, ReachInv, Finished, Handling
<1>2. LateInv /\ [Next]_vars => [Once]_vars
  BY <1>1
<1> QED
  BY <1>2, LateInvariantHolds, PTL DEF CalledOnce, Spec
=============================================================================
