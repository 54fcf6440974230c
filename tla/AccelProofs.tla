---------------------------- MODULE AccelProofs ----------------------------
(***************************************************************************)
(* Theorems about AccelWaits, for any jobs and programs: a wait returns no *)
(* event of an earlier run of a job, and what it takes for complete is.    *)
(***************************************************************************)
EXTENDS AccelWaits, FiniteSetTheorems, SequenceTheorems, TLAPS

USE AccelAssumption

Single == {"polling", "wfe", "mask_wait", "idma_load", "spatz_wfe", "spatz_polling"}
Multi  == {"multi_wfe", "multi_polling"}

\* The functions that can be at a place of a wait.
FnsAt(place) ==
  CASE place \in {"poll_enable", "poll", "poll_clear"}       -> {"polling"}
    [] place \in {"wfe_enable", "wfe_wait"}                  -> {"wfe", "mask_wait", "idma_load"}
    [] place = "wfe_disable"                                 -> {"mask_wait"}
    [] place = "load_busy"                                   -> {"idma_load"}
    [] place = "multi_enable"                                -> Multi
    [] place = "multi_wait"                                  -> {"multi_wfe"}
    [] place = "multi_check"                                 -> {"multi_polling"}
    [] place \in {"spatz_check", "spatz_wait", "spatz_clear"} -> {"spatz_wfe", "spatz_polling"}

Places ==
  {"poll_enable", "poll", "poll_clear", "wfe_enable", "wfe_wait", "wfe_disable", "load_busy",
   "multi_enable", "multi_wait", "multi_check", "spatz_check", "spatz_wait", "spatz_clear"}

AnyEvent == {"redmule", "a2o", "o2a", "fsync", "spatz", "cluster", "busy"}

Fresh(events) == \A j \in events \cap Jobs : st[j] = "done"

\* A job runs only between its start and a wait that has returned for it.
JobInv ==
  /\ program \in Programs
  /\ st \in [Jobs -> {"idle", "running", "done"}]
  /\ open \subseteq Jobs /\ prepared \subseteq Jobs
  /\ \A j \in open : st[j] # "idle"
  /\ \A j \in Jobs : st[j] = "running" => j \in open /\ j \notin prepared

\* Nothing latched or seen is older than the last start of its job.
FreshInv ==
  /\ Fresh(eu_buffer) /\ Fresh(acc) /\ Fresh(result.events)
  /\ pc \in {"ready", "init"} => acc = {}
  /\ pc # "init" => prepared \cap eu_buffer = {}

\* An initialisation runs while no job does, and clears the buffer.
InitialInv ==
  pc = "init" =>
    /\ open = {}
    /\ todo \in Seq([op : {"clear", "enable", "disable_all"}, evts : SUBSET AnyEvent])
    /\ todo # <<>>
    /\ Jobs \cap eu_buffer = {} \/ \E k \in 1..Len(todo) : todo[k] = Clear(Events)

WaitInv ==
  /\ pc \in Places \cup {"ready", "init"}
  /\ pc \in Places =>
       /\ want \subseteq open
       /\ fn \in FnsAt(pc)
       /\ fn \in Single => \E j \in Jobs : want = {j}
       /\ fn = "idma_load" => want = {"a2o"}
       /\ pc = "spatz_clear" => Fresh(want)

\* Programs whose waits are for all they have started.
Joining(p) == ~p.concurrent \/ p.waits \subseteq {"multi_wfe", "multi_polling"}

\* An event taken out of the buffer is held by the wait, and only where it is
\* about to be returned or to be added to.
HeldAt == {"poll_clear", "wfe_disable", "load_busy", "multi_wait", "multi_check"}

HeldInv ==
  /\ pc \notin HeldAt => acc = {}
  /\ pc = "multi_check" => acc \subseteq eu_buffer
  /\ Joining(program) =>
       /\ ~program.concurrent => \A j, k \in open : j = k
       /\ pc \in Places => want = open
  /\ NoLostEvent

\* One job at a time: all events are its own.
SoloInv ==
  Solo(program) =>
    /\ eu_buffer \subseteq Jobs \cup {"busy"}
    /\ "busy" \notin eu_mask
    /\ pc # "init" => \E j \in AnyEvent :
                        prepared \cup open \cup acc \cup (eu_buffer \cap Jobs) \subseteq {j}
    /\ pc = "init" =>
         /\ \E j \in AnyEvent : prepared \subseteq {j}
         /\ \A k \in 1..Len(todo) : todo[k].op = "enable" => "busy" \notin todo[k].evts

\* The blocking waits for one job run only where no other event can come.
WaitsAreSolo == \A p \in Programs : TakesAny(p) => Solo(p)

AwaitInv ==
  /\ pc \in Places => fn \in program.waits
  /\ pc = "poll_clear" => acc \subseteq want
  /\ result.want \subseteq Jobs
  /\ WaitsAreSolo => AwaitedDone

IInv == JobInv /\ FreshInv /\ InitialInv /\ WaitInv

-----------------------------------------------------------------------------
LEMMA InitInv == Init => IInv
BY DEF Init, eu_init, IInv, JobInv, FreshInv, InitialInv, WaitInv, Fresh, NoResult, Places

\* Whatever the core does at the Event Unit, only lines of this cycle are new.
LEMMA Buffer ==
  ASSUME NEW F \in SUBSET Running, NEW evts
  PROVE  /\ EuIdle(Lines(F)) => eu_buffer' \subseteq eu_buffer \cup Lines(F)
         /\ EuDisableAll(Lines(F)) => eu_buffer' \subseteq eu_buffer \cup Lines(F)
         /\ eu_enable_events(evts, Lines(F)) => eu_buffer' \subseteq eu_buffer \cup Lines(F)
         /\ eu_disable_events(evts, Lines(F)) => eu_buffer' \subseteq eu_buffer \cup Lines(F)
         /\ eu_clear_events(evts, Lines(F)) => eu_buffer' \subseteq (eu_buffer \ evts) \cup Lines(F)
         /\ eu_evt_wait(Lines(F)) => eu_buffer' \subseteq eu_buffer \cup Lines(F)
         /\ eu_evt_waitAndClr(Lines(F)) => eu_buffer' \subseteq eu_buffer \cup Lines(F)
<1>1. ASSUME NEW S, EuLatch(Lines(F), S)
      PROVE  eu_buffer' \subseteq (eu_buffer \ S) \cup Lines(F)
  BY <1>1 DEF EuLatch
<1> QED
  BY <1>1 DEF EuIdle, EuDisableAll, eu_enable_events, eu_disable_events, eu_clear_events,
     eu_evt_wait, eu_evt_waitAndClr

LEMMA JobLines ==
  ASSUME NEW F \in SUBSET Running
  PROVE  Lines(F) \cap Jobs = F /\ F \subseteq Jobs
<1>1. "busy" \notin Jobs
  OBVIOUS
<1> QED
  BY <1>1 DEF Lines, Running

\* What a cycle in which the jobs F finish does to jobs and events.
LEMMA FinishInv ==
  ASSUME IInv, NEW F \in SUBSET Running, Finish(F),
         eu_buffer' \subseteq eu_buffer \cup Lines(F)
  PROVE  /\ program' = program
         /\ st' \in [Jobs -> {"idle", "running", "done"}]
         /\ \A j \in Jobs : /\ st[j] = "done" => st'[j] = "done"
                            /\ st'[j] = "running" => st[j] = "running"
                            /\ st[j] # "idle" => st'[j] # "idle"
         /\ Fresh(eu_buffer)'
         /\ pc # "init" => prepared \cap eu_buffer' = {}
<1>1. program' = program /\ st' = [j \in Jobs |-> IF j \in F THEN "done" ELSE st[j]]
  BY DEF Finish
<1>2. Lines(F) \cap Jobs = F /\ F \subseteq Running /\ F \subseteq Jobs
  BY JobLines
<1>3. Fresh(eu_buffer)'
  BY <1>1, <1>2 DEF IInv, FreshInv, Fresh
<1>4. prepared \cap F = {} /\ prepared \subseteq Jobs
  BY <1>2 DEF IInv, JobInv, Running
<1> QED
  BY <1>1, <1>2, <1>3, <1>4 DEF IInv, JobInv, FreshInv

-----------------------------------------------------------------------------
(* The core goes on in a wait, or returns from it.                         *)

LEMMA TickInv ==
  ASSUME IInv, NEW F \in SUBSET Running, Tick(F)
  PROVE  IInv'
<1>1. Finish(F) /\ UNCHANGED coreVars /\ eu_buffer' \subseteq eu_buffer \cup Lines(F)
  BY Buffer DEF Tick
<1>2. pc = "init" => Lines(F) \cap Jobs = {}
  <2>1. pc = "init" => Running = {}
    BY DEF IInv, JobInv, InitialInv, Running
  <2> QED
    BY <2>1, JobLines
<1> USE FinishInv, <1>1 DEF coreVars
<1>3. JobInv'
  BY DEF IInv, JobInv
<1>4. FreshInv'
  BY DEF IInv, FreshInv, JobInv, Fresh
<1>5. InitialInv'
  <2>1. pc = "init" /\ Jobs \cap eu_buffer = {} => Jobs \cap eu_buffer' = {}
    BY <1>2
  <2> QED
    BY <2>1 DEF IInv, InitialInv
<1>6. WaitInv'
  BY DEF IInv, WaitInv, JobInv, Fresh
<1> QED
  BY <1>3, <1>4, <1>5, <1>6 DEF IInv

LEMMA GoInv ==
  ASSUME IInv, NEW F \in SUBSET Running, Finish(F),
         eu_buffer' \subseteq eu_buffer \cup Lines(F),
         pc \in Places, NEW place \in Places, NEW events, Go(place, events),
         fn \in FnsAt(place), \A j \in events \cap Jobs : st'[j] = "done",
         place = "spatz_clear" => \A j \in want \cap Jobs : st'[j] = "done"
  PROVE  IInv'
<1>1. pc' = place /\ acc' = events /\ UNCHANGED <<prepared, open, todo, fn, want, result>>
      /\ pc # "init" /\ place \notin {"init", "ready"}
  BY DEF Go, Places
<1> USE FinishInv, <1>1
<1>3. JobInv'
  BY DEF IInv, JobInv
<1>4. FreshInv'
  BY DEF IInv, FreshInv, JobInv, Fresh
<1>5. InitialInv'
  BY DEF InitialInv
<1>6. WaitInv'
  BY DEF IInv, WaitInv, JobInv, Fresh
<1> QED
  BY <1>3, <1>4, <1>5, <1>6 DEF IInv

\* The wait leaves its jobs only if it has their events.
LEMMA ReturnInv ==
  ASSUME IInv, NEW F \in SUBSET Running, Finish(F),
         eu_buffer' \subseteq eu_buffer \cup Lines(F),
         pc \in Places, NEW events, Return(events),
         \A j \in events \cap Jobs : st'[j] = "done",
         fn = "multi_wfe" => want \subseteq events
  PROVE  IInv'
<1>1. /\ pc' = "ready" /\ acc' = {} /\ result'.events = events
      /\ UNCHANGED <<prepared, todo>> /\ pc # "init"
  BY DEF Return, Places
<1>2. /\ open' \subseteq open
      /\ \A j \in open \ open' : st'[j] = "done"
  <2>1. open' = open \/ (open' = open \ want /\ events \cap want # {}
                         /\ (fn = "multi_polling" => want \subseteq events))
    BY DEF Return
  <2>2. fn \in Single \/ fn \in Multi
    BY DEF IInv, WaitInv, FnsAt, Places, Single, Multi
  <2>3. events \cap want # {} /\ fn \in Single => want \subseteq events
    BY DEF IInv, WaitInv
  <2>4. want \subseteq Jobs
    BY DEF IInv, WaitInv, JobInv
  <2> QED
    BY <2>1, <2>2, <2>3, <2>4 DEF Multi
<1> USE FinishInv, <1>1
<1>3. JobInv'
  BY <1>2 DEF IInv, JobInv
<1>4. FreshInv'
  BY DEF IInv, FreshInv, JobInv, Fresh
<1>5. InitialInv'
  BY DEF InitialInv
<1>6. WaitInv'
  BY DEF WaitInv, Places
<1> QED
  BY <1>3, <1>4, <1>5, <1>6 DEF IInv

-----------------------------------------------------------------------------
(* Initialisations, starts, and calls of waits.                            *)

LEMMA CallInitInv ==
  ASSUME IInv, NEW i \in program.inits, CallInit(i)
  PROVE  IInv'
<1>1. /\ pc = "ready" /\ open = {} /\ pc' = "init" /\ todo' = Accesses(i) /\ prepared' = i[2]
      /\ UNCHANGED <<program, euVars, st, open, fn, want, acc, result>>
  BY DEF CallInit
<1>2. program \in Programs
  BY DEF IInv, JobInv
<1>3. i[2] \in SUBSET Jobs
      /\ i[1] \in {"cluster", "redmule", "idma", "fsync", "spatz", "multi", "pair"}
  BY <1>2
<1>4. /\ Accesses(i) \in Seq([op : {"clear", "enable", "disable_all"}, evts : SUBSET AnyEvent])
      /\ Accesses(i) # <<>>
      /\ \E k \in 1..Len(Accesses(i)) : Accesses(i)[k] = Clear(Events)
  <2> DEFINE Op == [op : {"clear", "enable", "disable_all"}, evts : SUBSET AnyEvent]
  <2>1. /\ [op |-> "disable_all", evts |-> {}] \in Op
        /\ \A S \in SUBSET AnyEvent : Clear(S) \in Op /\ Enable(S) \in Op
    BY DEF Clear, Enable
  <2>2. /\ {"redmule"} \subseteq AnyEvent /\ {"a2o", "o2a"} \cap Jobs \subseteq AnyEvent
        /\ {"spatz"} \subseteq AnyEvent /\ {"fsync"} \subseteq AnyEvent
        /\ {"cluster"} \subseteq AnyEvent /\ Events \subseteq AnyEvent
        /\ i[2] \subseteq AnyEvent /\ EnabledBy(i[2]) \subseteq AnyEvent
    BY <1>3 DEF AnyEvent, RedmuleAll, EnabledBy
  <2>3. /\ Clear(Events) \in Op
        /\ \A S : S \subseteq AnyEvent => Enable(S) \in Op
    BY <2>1, <2>2
  <2> DEFINE Good(s) == s \in Seq(Op) /\ s # <<>> /\ \E k \in 1..Len(s) : s[k] = Clear(Events)
  <2> HIDE DEF Op
  <2>4. ASSUME NEW S, S \subseteq AnyEvent
        PROVE  Good(<<Clear(Events), Enable(S)>>)
    <3> DEFINE c == Clear(Events)
               e == Enable(S)
    <3>1. c \in Op /\ e \in Op
      BY <2>3, <2>4
    <3> HIDE DEF c, e
    <3>2. <<c, e>> \in Seq(Op) /\ Len(<<c, e>>) = 2 /\ <<c, e>> # <<>> /\ <<c, e>>[1] = c
      BY <3>1
    <3>3. 1 \in 1..Len(<<c, e>>)
      BY <3>2
    <3> QED
      BY <3>2, <3>3 DEF c, e
  <2>5. Good(eu_cluster_done_init)
    <3> DEFINE d == [op |-> "disable_all", evts |-> {}]
               c == Clear(Events)
               e == Enable({"cluster"})
    <3>1. d \in Op /\ c \in Op /\ e \in Op
      BY <2>1, <2>2, <2>3
    <3> HIDE DEF c, d, e
    <3>2. /\ <<d, c, e>> \in Seq(Op) /\ Len(<<d, c, e>>) = 3 /\ <<d, c, e>> # <<>>
          /\ <<d, c, e>>[2] = c
      BY <3>1
    <3>3. 2 \in 1..Len(<<d, c, e>>)
      BY <3>2
    <3> QED
      BY <3>2, <3>3 DEF c, d, e, eu_cluster_done_init
  <2>6. \/ Accesses(i) = eu_cluster_done_init
        \/ \E S : S \subseteq AnyEvent /\ Accesses(i) = <<Clear(Events), Enable(S)>>
    BY <1>3, <2>2 DEF Accesses, eu_redmule_init, eu_idma_init, eu_fsync_init, eu_spatz_init,
       eu_multi_init, clear_and_enable
  <2>7. Good(Accesses(i))
    BY <2>4, <2>5, <2>6
  <2> QED
    BY <2>7 DEF Op
<1>5. JobInv'
  BY <1>1, <1>3 DEF IInv, JobInv
<1>6. FreshInv'
  BY <1>1 DEF IInv, FreshInv, Fresh, euVars
<1>7. InitialInv'
  BY <1>1, <1>4 DEF InitialInv
<1>8. WaitInv'
  BY <1>1 DEF WaitInv, Places
<1> QED
  BY <1>5, <1>6, <1>7, <1>8 DEF IInv

LEMMA AboveOne == \A n \in Nat : /\ n > 0 /\ n # 1 => n > 1
                           /\ n > 1 => n - 1 # 0
OBVIOUS

LEMMA InitAccessInv ==
  ASSUME IInv, NEW F \in SUBSET Running, InitAccess(F)
  PROVE  IInv' /\ (pc' # "init" => Jobs \cap eu_buffer' = {})
<1> DEFINE a == Head(todo)
<1>1. /\ pc = "init" /\ todo' = Tail(todo) /\ Finish(F)
      /\ pc' = IF Len(todo) = 1 THEN "ready" ELSE "init"
      /\ UNCHANGED <<prepared, open, fn, want, acc, result>>
  BY DEF InitAccess
<1>2. /\ todo \in Seq([op : {"clear", "enable", "disable_all"}, evts : SUBSET AnyEvent])
      /\ todo # <<>> /\ open = {}
      /\ Jobs \cap eu_buffer = {} \/ \E k \in 1..Len(todo) : todo[k] = Clear(Events)
  BY <1>1 DEF IInv, InitialInv
<1>3. Running = {} /\ F = {} /\ Lines(F) \cap Jobs = {} /\ prepared \subseteq Jobs
  <2>1. Running = {} /\ prepared \subseteq Jobs
    BY <1>2 DEF IInv, JobInv, Running
  <2> QED
    BY <2>1, JobLines
<1>4. a = todo[1] /\ a.op \in {"clear", "enable", "disable_all"} /\ Len(todo) \in Nat /\ Len(todo) > 0
  <2> DEFINE Op == [op : {"clear", "enable", "disable_all"}, evts : SUBSET AnyEvent]
  <2>1. todo \in Seq(Op) /\ \A o \in Op : o.op \in {"clear", "enable", "disable_all"}
    BY <1>2
  <2> HIDE DEF Op
  <2>2. Len(todo) \in Nat /\ Len(todo) > 0 /\ Head(todo) = todo[1] /\ todo[1] \in Op
    BY <1>2, <2>1
  <2> QED
    BY <2>1, <2>2
<1>5. /\ eu_buffer' \subseteq eu_buffer \cup Lines(F)
      /\ a = Clear(Events) => eu_buffer' \subseteq (eu_buffer \ Events) \cup Lines(F)
  <2>1. CASE a.op = "clear"
    <3>1. eu_clear_events(a.evts, Lines(F))
      BY <2>1 DEF InitAccess
    <3>2. eu_buffer' \subseteq (eu_buffer \ a.evts) \cup Lines(F)
      BY <3>1, Buffer
    <3> QED
      BY <3>2 DEF Clear
  <2>2. CASE a.op = "enable"
    <3>1. eu_enable_events(a.evts, Lines(F))
      BY <2>2 DEF InitAccess
    <3>2. eu_buffer' \subseteq eu_buffer \cup Lines(F)
      BY <3>1, Buffer
    <3> QED
      BY <3>2, <2>2 DEF Clear
  <2>3. CASE a.op = "disable_all"
    <3>1. EuDisableAll(Lines(F))
      BY <2>3 DEF InitAccess
    <3>2. eu_buffer' \subseteq eu_buffer \cup Lines(F)
      BY <3>1, Buffer
    <3> QED
      BY <3>2, <2>3 DEF Clear
  <2> QED
    BY <2>1, <2>2, <2>3, <1>4
<1> HIDE DEF a
<1>6. \/ Jobs \cap eu_buffer' = {}
      \/ \E k \in 2..Len(todo) : todo[k] = Clear(Events)
  <2>1. CASE Jobs \cap eu_buffer = {}
    BY <2>1, <1>3, <1>5
  <2>2. CASE a = Clear(Events)
    <3>1. Jobs \subseteq Events
      OBVIOUS
    <3> QED
      BY <2>2, <3>1, <1>3, <1>5
  <2>3. CASE \E k \in 1..Len(todo) : k # 1 /\ todo[k] = Clear(Events)
    BY <2>3, <1>4
  <2> QED
    BY <2>1, <2>2, <2>3, <1>2, <1>4
<1>7. JobInv'
  BY <1>1, <1>5, FinishInv DEF IInv, JobInv
<1>8. Fresh(eu_buffer)' /\ Fresh(acc)' /\ Fresh(result.events)' /\ acc' = {}
  BY <1>1, <1>5, FinishInv DEF IInv, JobInv, FreshInv, Fresh
<1>9. pc' # "init" => Jobs \cap eu_buffer' = {} /\ prepared \cap eu_buffer' = {}
  <2>1. pc' # "init" => Jobs \cap eu_buffer' = {}
    <3>1. pc' # "init" => Len(todo) = 1
      BY <1>1
    <3>2. 2..1 = {}
      BY ONLY \A k \in Nat : ~ (2 <= k /\ k <= 1)
    <3> QED
      BY <3>1, <3>2, <1>6, Zenon
  <2> QED
    BY <2>1, <1>3
<1>10. InitialInv'
  <2>1. SUFFICES ASSUME pc' = "init" PROVE InitialInv'
    BY DEF InitialInv
  <2>2. Len(todo) > 1
    <3>1. Len(todo) # 1
      BY <2>1, <1>1
    <3>2. PICK n \in Nat : n = Len(todo) /\ n > 0
      BY <1>4
    <3>3. n # 1
      BY ONLY <3>1, <3>2
    <3>4. n > 1
      BY ONLY <3>2, <3>3, n \in Nat
    <3> QED
      BY ONLY <3>2, <3>4
  <2> DEFINE Op == [op : {"clear", "enable", "disable_all"}, evts : SUBSET AnyEvent]
  <2> HIDE DEF Op
  <2>7. todo \in Seq(Op)
    BY <1>2 DEF Op
  <2>8. /\ Tail(todo) \in Seq(Op) /\ Len(Tail(todo)) = Len(todo) - 1
        /\ \A k \in 1..Len(Tail(todo)) : Tail(todo)[k] = todo[k + 1]
    BY <1>2, <2>7, HeadTailProperties
  <2>3. /\ todo' \in Seq([op : {"clear", "enable", "disable_all"}, evts : SUBSET AnyEvent])
        /\ todo' # <<>> /\ Len(todo') = Len(todo) - 1
        /\ \A k \in 1..Len(todo') : todo'[k] = todo[k + 1]
    <3>1. todo' = Tail(todo) /\ Len(todo) \in Nat
      BY <1>1, <1>4
    <3>2. Len(Tail(todo)) # 0
      BY <2>2, <2>8, <3>1, AboveOne, Zenon
    <3>3. Tail(todo) # <<>>
      BY ONLY <3>2, <2>8, EmptySeq
    <3> QED
      BY ONLY <2>8, <3>1, <3>3 DEF Op
  <2>4. ASSUME NEW k \in 2..Len(todo), todo[k] = Clear(Events)
        PROVE  \E n \in 1..Len(todo') : todo'[n] = Clear(Events)
    <3>1. k - 1 \in 1..Len(todo') /\ todo'[k - 1] = todo[k]
      BY <2>3, <1>4
    <3> QED
      BY <3>1, <2>4
  <2> QED
    BY <1>1, <1>2, <1>6, <2>3, <2>4 DEF InitialInv
<1>11. WaitInv'
  BY <1>1 DEF WaitInv, Places
<1> QED
  BY <1>1, <1>7, <1>8, <1>9, <1>10, <1>11 DEF IInv, FreshInv

LEMMA StartInv ==
  ASSUME IInv, NEW j \in Jobs, Start(j) \/ SeeDone(j)
  PROVE  IInv'
<1>1. /\ pc = "ready" /\ UNCHANGED <<program, euVars, pc, todo, fn, want, acc>>
      /\ result' = NoResult
  BY DEF Start, SeeDone
<1>2. CASE Start(j)
  <2>1. /\ j \in prepared /\ st' = [st EXCEPT ![j] = "running"]
        /\ prepared' = prepared \ {j} /\ open' = open \cup {j}
    BY <1>2 DEF Start
  <2>2. JobInv'
    BY <1>1, <2>1 DEF IInv, JobInv
  <2>3. FreshInv'
    BY <1>1, <2>1 DEF IInv, JobInv, FreshInv, Fresh, NoResult, euVars
  <2> QED
    BY <1>1, <2>2, <2>3 DEF IInv, InitialInv, WaitInv, Places
<1>3. CASE SeeDone(j)
  <2>1. st[j] = "done" /\ open' = open \ {j} /\ UNCHANGED <<st, prepared>>
    BY <1>3 DEF SeeDone
  <2>2. JobInv'
    BY <1>1, <2>1 DEF IInv, JobInv
  <2>3. FreshInv'
    BY <1>1, <2>1 DEF IInv, FreshInv, Fresh, NoResult, euVars
  <2> QED
    BY <1>1, <2>2, <2>3 DEF IInv, InitialInv, WaitInv, Places
<1> QED
  BY <1>2, <1>3

LEMMA CallWaitInv ==
  ASSUME IInv, NEW f \in program.waits, NEW jobs \in SUBSET Jobs, CallWait(f, jobs)
  PROVE  IInv'
<1>1. /\ pc = "ready" /\ pc' = FirstStep(f, jobs) /\ fn' = f /\ want' = jobs
      /\ acc' = {} /\ result' = NoResult /\ jobs \subseteq open
      /\ UNCHANGED <<program, euVars, st, prepared, open, todo>>
      /\ IF f \in Multi THEN jobs = open ELSE Cardinality(jobs) = 1
      /\ f = "idma_load" => jobs = {"a2o"}
  BY DEF CallWait, Multi
<1>2. f \in Single \cup Multi
  BY DEF IInv, JobInv, Single, Multi
<1>3. pc' \in Places /\ fn' \in FnsAt(pc') /\ pc' # "spatz_clear"
  BY <1>1, <1>2 DEF FirstStep, FnsAt, Places, Single, Multi
<1>4. f \in Single => \E j \in Jobs : jobs = {j}
  <2>1. SUFFICES ASSUME f \in Single PROVE \E j \in Jobs : jobs = {j}
    OBVIOUS
  <2>2. Cardinality(jobs) = 1
    BY <1>1, <2>1 DEF Single, Multi
  <2>3. IsFiniteSet(jobs)
    <3>1. Jobs \subseteq {"redmule", "a2o", "o2a", "fsync", "spatz", "cluster"}
      OBVIOUS
    <3>2. IsFiniteSet({}) /\ \A S, x : IsFiniteSet(S) => IsFiniteSet(S \cup {x})
      BY FS_EmptySet, FS_AddElement
    <3>3. IsFiniteSet({} \cup {"redmule"} \cup {"a2o"} \cup {"o2a"} \cup {"fsync"}
                         \cup {"spatz"} \cup {"cluster"})
      BY ONLY <3>2, Zenon
    <3>4. {} \cup {"redmule"} \cup {"a2o"} \cup {"o2a"} \cup {"fsync"}
                         \cup {"spatz"} \cup {"cluster"}
            = {"redmule", "a2o", "o2a", "fsync", "spatz", "cluster"}
      OBVIOUS
    <3> QED
      BY ZenonT(30), <3>1, <3>3, <3>4, FS_Subset
  <2>4. \E x : jobs = {x}
    BY <2>2, <2>3, FS_Singleton
  <2> QED
    BY <2>4
<1>5. JobInv'
  BY <1>1 DEF IInv, JobInv
<1>6. FreshInv'
  BY <1>1, <1>3 DEF IInv, FreshInv, Fresh, NoResult, Places, euVars
<1>7. InitialInv'
  BY <1>3 DEF InitialInv, Places
<1>8. WaitInv'
  BY <1>1, <1>3, <1>4 DEF WaitInv
<1> QED
  BY <1>5, <1>6, <1>7, <1>8 DEF IInv

-----------------------------------------------------------------------------
(* The steps of the waits.                                                 *)

\* What the core sees is latched, and so finished.
LEMMA SeenIsDone ==
  ASSUME IInv, NEW F \in SUBSET Running, Finish(F)
  PROVE  /\ \A j \in EuMasked \cap Jobs : st'[j] = "done"
         /\ \A j \in acc \cap Jobs : st'[j] = "done"
<1>1. \A j \in Jobs : st[j] = "done" => st'[j] = "done"
  BY DEF IInv, JobInv, Finish
<1> QED
  BY <1>1 DEF IInv, FreshInv, Fresh, EuMasked

LEMMA CoreInv ==
  ASSUME IInv, NEW F \in SUBSET Running, CoreInCall(F)
  PROVE  IInv'
<1>1. WaitInv
  BY DEF IInv
<1>2. CASE InitAccess(F)
  BY <1>2, InitAccessInv
<1>3. CASE PollEnable(F)
  <2>1. /\ pc = "poll_enable" /\ Go("poll", {}) /\ Finish(F)
        /\ eu_buffer' \subseteq eu_buffer \cup Lines(F)
    BY <1>3, Buffer DEF PollEnable
  <2>2. fn \in FnsAt("poll") /\ pc \in Places /\ "poll" \in Places
    BY <1>1, <2>1 DEF WaitInv, FnsAt, Places
  <2> QED
    BY <2>1, <2>2, GoInv
<1>4. CASE PollCheck(F)
  <2>1. /\ pc = "poll" /\ Go("poll_clear", EuMasked \cap want) /\ Finish(F)
        /\ eu_buffer' \subseteq eu_buffer \cup Lines(F)
    BY <1>4, Buffer DEF PollCheck
  <2>2. fn \in FnsAt("poll_clear") /\ pc \in Places /\ "poll_clear" \in Places
    BY <1>1, <2>1 DEF WaitInv, FnsAt, Places
  <2>3. \A j \in (EuMasked \cap want) \cap Jobs : st'[j] = "done"
    BY <2>1, SeenIsDone
  <2> QED
    BY <2>1, <2>2, <2>3, GoInv
<1>5. CASE PollClear(F)
  <2>1. /\ pc = "poll_clear" /\ Return(acc) /\ Finish(F)
        /\ eu_buffer' \subseteq eu_buffer \cup Lines(F)
    BY <1>5, Buffer DEF PollClear
  <2>2. fn # "multi_wfe" /\ pc \in Places
    BY <1>1, <2>1 DEF WaitInv, FnsAt, Places
  <2> QED
    BY <2>1, <2>2, SeenIsDone, ReturnInv
<1>6. CASE WfeEnable(F)
  <2>1. /\ pc = "wfe_enable" /\ Go("wfe_wait", {}) /\ Finish(F)
        /\ eu_buffer' \subseteq eu_buffer \cup Lines(F)
    BY <1>6, Buffer DEF WfeEnable
  <2>2. fn \in FnsAt("wfe_wait") /\ pc \in Places /\ "wfe_wait" \in Places
    BY <1>1, <2>1 DEF WaitInv, FnsAt, Places
  <2> QED
    BY <2>1, <2>2, GoInv
<1>7. CASE WfeWait(F)
  <2>1. /\ pc = "wfe_wait" /\ Finish(F) /\ eu_buffer' \subseteq eu_buffer \cup Lines(F)
        /\ pc \in Places
    BY <1>7, Buffer DEF WfeWait, Places
  <2>2. fn \in {"wfe", "mask_wait", "idma_load"}
    BY <1>1, <2>1 DEF WaitInv, FnsAt
  <2>3. CASE fn = "wfe"
    <3>1. Return(EuMasked)
      BY <1>7, <2>3 DEF WfeWait
    <3> QED
      BY <2>1, <2>3, <3>1, SeenIsDone, ReturnInv
  <2>4. CASE fn = "mask_wait"
    <3>1. Go("wfe_disable", EuMasked)
      BY <1>7, <2>4 DEF WfeWait
    <3>2. fn \in FnsAt("wfe_disable") /\ "wfe_disable" \in Places
      BY <2>4 DEF FnsAt, Places
    <3> QED
      BY <2>1, <3>1, <3>2, SeenIsDone, GoInv
  <2>5. CASE fn = "idma_load"
    <3>1. Go("load_busy", EuMasked)
      BY <1>7, <2>5 DEF WfeWait
    <3>2. fn \in FnsAt("load_busy") /\ "load_busy" \in Places
      BY <2>5 DEF FnsAt, Places
    <3> QED
      BY <2>1, <3>1, <3>2, SeenIsDone, GoInv
  <2> QED
    BY <2>2, <2>3, <2>4, <2>5
<1>8. CASE WfeDisable(F)
  <2>1. /\ pc = "wfe_disable" /\ Return(acc) /\ Finish(F)
        /\ eu_buffer' \subseteq eu_buffer \cup Lines(F)
    BY <1>8, Buffer DEF WfeDisable
  <2>2. fn # "multi_wfe" /\ pc \in Places
    BY <1>1, <2>1 DEF WaitInv, FnsAt, Places
  <2> QED
    BY <2>1, <2>2, SeenIsDone, ReturnInv
<1>9. CASE LoadBusy(F)
  <2>1. /\ pc = "load_busy" /\ Finish(F) /\ eu_buffer' \subseteq eu_buffer \cup Lines(F)
        /\ fn = "idma_load" /\ pc \in Places
    BY <1>1, <1>9, Buffer DEF LoadBusy, WaitInv, FnsAt, Places
  <2>2. CASE st["a2o"] = "running"
    <3>1. Go("wfe_enable", {})
      BY <1>9, <2>2 DEF LoadBusy
    <3>2. fn \in FnsAt("wfe_enable") /\ "wfe_enable" \in Places
      BY <2>1 DEF FnsAt, Places
    <3> QED
      BY <2>1, <3>1, <3>2, GoInv
  <2>3. CASE st["a2o"] # "running"
    <3>1. Return(want)
      BY <1>9, <2>3 DEF LoadBusy
    <3>2. \A j \in want \cap Jobs : st'[j] = "done"
      <4>1. want = {"a2o"} /\ want \subseteq open
        BY <1>1, <2>1 DEF WaitInv
      <4> QED
        BY <4>1, <2>1, <2>3 DEF IInv, JobInv, Finish
    <3> QED
      BY <2>1, <3>1, <3>2, ReturnInv
  <2> QED
    BY <2>2, <2>3
<1>10. CASE MultiEnable(F)
  <2>1. /\ pc = "multi_enable" /\ Finish(F) /\ eu_buffer' \subseteq eu_buffer \cup Lines(F)
        /\ fn \in Multi /\ pc \in Places
    BY <1>1, <1>10, Buffer DEF MultiEnable, WaitInv, FnsAt, Places
  <2>2. CASE fn = "multi_wfe"
    <3>1. Go("multi_wait", {})
      BY <1>10, <2>2 DEF MultiEnable
    <3>2. fn \in FnsAt("multi_wait") /\ "multi_wait" \in Places
      BY <2>2 DEF FnsAt, Places
    <3> QED
      BY <2>1, <3>1, <3>2, GoInv
  <2>3. CASE fn = "multi_polling"
    <3>1. Go("multi_check", {})
      BY <1>10, <2>3 DEF MultiEnable
    <3>2. fn \in FnsAt("multi_check") /\ "multi_check" \in Places
      BY <2>3 DEF FnsAt, Places
    <3> QED
      BY <2>1, <3>1, <3>2, GoInv
  <2> QED
    BY <2>1, <2>2, <2>3 DEF Multi
<1>11. CASE MultiWait(F)
  <2> DEFINE seen == acc \cup EuMasked
  <2>1. /\ pc = "multi_wait" /\ Finish(F) /\ eu_buffer' \subseteq eu_buffer \cup Lines(F)
        /\ fn = "multi_wfe" /\ pc \in Places
    BY <1>1, <1>11, Buffer DEF MultiWait, WaitInv, FnsAt, Places
  <2>2. \A j \in seen \cap Jobs : st'[j] = "done"
    BY <2>1, SeenIsDone
  <2>3. CASE want \subseteq seen
    <3>1. Return(seen)
      BY <1>11, <2>3 DEF MultiWait
    <3> QED
      BY <2>1, <2>2, <2>3, <3>1, ReturnInv
  <2>4. CASE ~ want \subseteq seen
    <3>1. Go("multi_wait", seen)
      BY <1>11, <2>4 DEF MultiWait
    <3>2. fn \in FnsAt("multi_wait") /\ "multi_wait" \in Places
      BY <2>1 DEF FnsAt, Places
    <3> QED
      BY <2>1, <2>2, <3>1, <3>2, GoInv
  <2> QED
    BY <2>3, <2>4
<1>12. CASE MultiCheck(F)
  <2> DEFINE seen == acc \cup (EuMasked \cap want)
  <2>1. /\ pc = "multi_check" /\ Finish(F) /\ eu_buffer' \subseteq eu_buffer \cup Lines(F)
        /\ fn = "multi_polling" /\ pc \in Places
    BY <1>1, <1>12, Buffer DEF MultiCheck, WaitInv, FnsAt, Places
  <2>2. \A j \in seen \cap Jobs : st'[j] = "done"
    BY <2>1, SeenIsDone
  <2>3. CASE want \subseteq seen
    <3>1. Return(seen)
      BY <1>12, <2>3 DEF MultiCheck
    <3> QED
      BY <2>1, <2>2, <2>3, <3>1, ReturnInv
  <2>4. CASE ~ want \subseteq seen
    <3>1. Go("multi_check", seen)
      BY <1>12, <2>4 DEF MultiCheck
    <3>2. fn \in FnsAt("multi_check") /\ "multi_check" \in Places
      BY <2>1 DEF FnsAt, Places
    <3> QED
      BY <2>1, <2>2, <3>1, <3>2, GoInv
  <2> QED
    BY <2>3, <2>4
<1>13. CASE SpatzCheck(F)
  <2>1. /\ pc = "spatz_check" /\ Finish(F) /\ eu_buffer' \subseteq eu_buffer \cup Lines(F)
        /\ fn \in {"spatz_wfe", "spatz_polling"} /\ pc \in Places
    BY <1>1, <1>13, Buffer DEF SpatzCheck, WaitInv, FnsAt, Places
  <2>2. CASE EuSees(want)
    <3>1. Go("spatz_clear", {})
      BY <1>13, <2>2 DEF SpatzCheck
    <3>2. fn \in FnsAt("spatz_clear") /\ "spatz_clear" \in Places
      BY <2>1 DEF FnsAt, Places
    <3>3. \A j \in want \cap Jobs : st'[j] = "done"
      <4>1. PICK j \in Jobs : want = {j}
        BY <1>1, <2>1 DEF WaitInv, Single
      <4>2. j \in EuMasked
        BY <2>2, <4>1 DEF EuSees, EuMasked
      <4> QED
        BY <2>1, <4>1, <4>2, SeenIsDone
    <3> QED
      BY <2>1, <3>1, <3>2, <3>3, GoInv
  <2>3. CASE ~ EuSees(want)
    <3>1. Go("spatz_wait", {})
      BY <1>13, <2>3 DEF SpatzCheck
    <3>2. fn \in FnsAt("spatz_wait") /\ "spatz_wait" \in Places
      BY <2>1 DEF FnsAt, Places
    <3> QED
      BY <2>1, <3>1, <3>2, GoInv
  <2> QED
    BY <2>2, <2>3
<1>14. CASE SpatzWait(F)
  <2>1. /\ pc = "spatz_wait" /\ Go("spatz_check", {}) /\ Finish(F)
        /\ eu_buffer' \subseteq eu_buffer \cup Lines(F)
    BY <1>14, Buffer DEF SpatzWait
  <2>2. fn \in FnsAt("spatz_check") /\ pc \in Places /\ "spatz_check" \in Places
    BY <1>1, <2>1 DEF WaitInv, FnsAt, Places
  <2> QED
    BY <2>1, <2>2, GoInv
<1>15. CASE SpatzClear(F)
  <2>1. /\ pc = "spatz_clear" /\ Return(want) /\ Finish(F)
        /\ eu_buffer' \subseteq eu_buffer \cup Lines(F)
    BY <1>15, Buffer DEF SpatzClear
  <2>2. fn # "multi_wfe" /\ pc \in Places /\ Fresh(want)
    BY <1>1, <2>1 DEF WaitInv, FnsAt, Places
  <2>3. \A j \in want \cap Jobs : st'[j] = "done"
    BY <2>1, <2>2 DEF IInv, JobInv, Finish, Fresh
  <2> QED
    BY <2>1, <2>2, <2>3, ReturnInv
<1> QED
  BY <1>2, <1>3, <1>4, <1>5, <1>6, <1>7, <1>8, <1>9, <1>10, <1>11, <1>12, <1>13, <1>14, <1>15
     DEF CoreInCall

\* A poll that gives up returns what it has seen.
LEMMA TimeoutInv ==
  ASSUME IInv, PollTimeout
  PROVE  IInv'
<1>1. /\ pc \in {"poll", "multi_check"} /\ Return(acc) /\ UNCHANGED <<program, euVars, st>>
  BY DEF PollTimeout
<1>2. Finish({}) /\ {} \in SUBSET Running
  BY <1>1 DEF Finish, IInv, JobInv
<1>3. pc \in Places /\ fn # "multi_wfe"
  BY <1>1 DEF IInv, WaitInv, FnsAt, Places
<1> QED
  BY <1>1, <1>2, <1>3, SeenIsDone, ReturnInv DEF euVars

-----------------------------------------------------------------------------
LEMMA NextInv ==
  ASSUME IInv, [Next]_vars
  PROVE  IInv'
<1>1. CASE Next
  BY <1>1, TickInv, CoreInv, CallInitInv, StartInv, CallWaitInv, TimeoutInv DEF Next
<1>2. CASE UNCHANGED vars
  BY <1>2 DEF vars, coreVars, euVars, IInv, JobInv, FreshInv, InitialInv, WaitInv, Fresh
<1> QED
  BY <1>1, <1>2

\* The invariant behind the freshness of events: a job runs only between its
\* start and the wait that returns for it, every start follows a clear of the
\* buffer (event_unit_utils.h 209 to 253), and a wait leaves a job only with
\* its event.
THEOREM InvariantHolds == Spec => []IInv
BY InitInv, NextInv, PTL DEF Spec

\* A wait returns no event of an earlier run of a job, whatever the program
\* initialises, starts and waits for (event_unit_utils.h 209 to 253, 423 to
\* 452).
THEOREM EventsAreFresh == Spec => []EventsFresh
<1>1. IInv => EventsFresh
  BY DEF IInv, FreshInv, Fresh, EventsFresh
<1> QED
  BY <1>1, InvariantHolds, PTL
-----------------------------------------------------------------------------
(* No event is lost, and a wait for one job is over when the job is.       *)

More == HeldInv /\ SoloInv /\ AwaitInv

LEMMA InitMore == Init => More
BY DEF Init, eu_init, More, HeldInv, NoLostEvent, SoloInv, AwaitInv, AwaitedDone, NoResult,
   Places, AnyEvent, HeldAt

LEMMA NoBusyJob == "busy" \notin Jobs /\ Jobs \subseteq AnyEvent
BY DEF AnyEvent

\* What a step of a wait may do to what the core sees and asks for.
LEMMA CallShape ==
  ASSUME IInv, NEW F \in SUBSET Running, CoreInCall(F), pc # "init"
  PROVE  /\ pc \in Places /\ pc' # "init" /\ Finish(F)
         /\ eu_mask' \subseteq eu_mask \cup want
         /\ prepared' = prepared /\ open' \subseteq open
         /\ acc' \subseteq acc \cup EuMasked \cup want
         /\ eu_buffer' \subseteq eu_buffer \cup Lines(F)
<1> DEFINE Shape == /\ pc \in Places /\ pc' # "init" /\ Finish(F)
                    /\ eu_mask' \subseteq eu_mask \cup want
                    /\ prepared' = prepared /\ open' \subseteq open
                    /\ acc' \subseteq acc \cup EuMasked \cup want
                    /\ eu_buffer' \subseteq eu_buffer \cup Lines(F)
<1>1. /\ EuIdle(Lines(F)) => eu_mask' = eu_mask
      /\ eu_enable_events(want, Lines(F)) => eu_mask' = eu_mask \cup want
      /\ eu_disable_events(want, Lines(F)) => eu_mask' \subseteq eu_mask
      /\ \A evts : eu_clear_events(evts, Lines(F)) => eu_mask' = eu_mask
      /\ eu_evt_wait(Lines(F)) => eu_mask' = eu_mask
      /\ eu_evt_waitAndClr(Lines(F)) => eu_mask' = eu_mask
  BY DEF EuIdle, eu_enable_events, eu_disable_events, eu_clear_events, eu_evt_wait,
     eu_evt_waitAndClr
<1>2. ASSUME NEW events, Return(events)
      PROVE  pc' = "ready" /\ prepared' = prepared /\ open' \subseteq open /\ acc' = {}
  BY <1>2 DEF Return
<1>3. ASSUME NEW place, NEW events, Go(place, events)
      PROVE  pc' = place /\ prepared' = prepared /\ open' = open /\ acc' = events
  BY <1>3 DEF Go
<1>4. CASE PollEnable(F)
  BY <1>4, <1>1, <1>3, Buffer DEF PollEnable, Places
<1>5. CASE PollCheck(F)
  BY <1>5, <1>1, <1>3, Buffer DEF PollCheck, Places
<1>6. CASE PollClear(F)
  BY <1>6, <1>1, <1>2, Buffer DEF PollClear, Places
<1>7. CASE WfeEnable(F)
  BY <1>7, <1>1, <1>3, Buffer DEF WfeEnable, Places
<1>8. CASE WfeWait(F)
  <2>1. fn \in {"wfe", "mask_wait", "idma_load"}
    BY <1>8 DEF WfeWait, IInv, WaitInv, FnsAt, Places
  <2>2. /\ pc = "wfe_wait" /\ Finish(F) /\ eu_mask' = eu_mask
        /\ eu_buffer' \subseteq eu_buffer \cup Lines(F)
    BY <1>8, <1>1, Buffer DEF WfeWait
  <2>3. CASE fn = "wfe"
    BY <2>2, <2>3, <1>8, <1>2 DEF WfeWait, Places
  <2>4. CASE fn = "mask_wait"
    BY <2>2, <2>4, <1>8, <1>3 DEF WfeWait, Places
  <2>5. CASE fn = "idma_load"
    BY <2>2, <2>5, <1>8, <1>3 DEF WfeWait, Places
  <2> QED
    BY <2>1, <2>3, <2>4, <2>5
<1>9. CASE WfeDisable(F)
  BY <1>9, <1>1, <1>2, Buffer DEF WfeDisable, Places
<1>10. CASE LoadBusy(F)
  BY <1>10, <1>1, <1>2, <1>3, Buffer DEF LoadBusy, Places
<1>11. CASE MultiEnable(F)
  BY <1>11, <1>1, <1>3, Buffer DEF MultiEnable, Places
<1>12. CASE MultiWait(F)
  BY <1>12, <1>1, <1>2, <1>3, Buffer DEF MultiWait, Places
<1>13. CASE MultiCheck(F)
  BY <1>13, <1>1, <1>2, <1>3, Buffer DEF MultiCheck, Places
<1>14. CASE SpatzCheck(F)
  BY <1>14, <1>1, <1>3, Buffer DEF SpatzCheck, Places
<1>15. CASE SpatzWait(F)
  BY <1>15, <1>1, <1>3, Buffer DEF SpatzWait, Places
<1>16. CASE SpatzClear(F)
  BY <1>16, <1>1, <1>2, Buffer DEF SpatzClear, Places
<1>17. ~InitAccess(F)
  BY DEF InitAccess
<1> QED
  BY <1>4, <1>5, <1>6, <1>7, <1>8, <1>9, <1>10, <1>11, <1>12, <1>13, <1>14, <1>15, <1>16, <1>17
     DEF CoreInCall

\* One job at a time: every event is its own.
LEMMA SoloStep ==
  ASSUME IInv, SoloInv, Next
  PROVE  SoloInv'
<1>1. program' = program
  BY DEF Next, Tick, CoreInCall, CallInit, Start, SeeDone, CallWait, PollTimeout, Finish,
     InitAccess, PollEnable, PollCheck, PollClear, WfeEnable, WfeWait, WfeDisable, LoadBusy,
     MultiEnable, MultiWait, MultiCheck, SpatzCheck, SpatzWait, SpatzClear
<1> SUFFICES ASSUME Solo(program) PROVE SoloInv'
  BY <1>1 DEF SoloInv, Solo
<1>2. /\ eu_buffer \subseteq Jobs \cup {"busy"} /\ "busy" \notin eu_mask
      /\ pc # "init" => \E j \in AnyEvent :
                          prepared \cup open \cup acc \cup (eu_buffer \cap Jobs) \subseteq {j}
      /\ pc = "init" =>
           /\ \E j \in AnyEvent : prepared \subseteq {j}
           /\ \A k \in 1..Len(todo) : todo[k].op = "enable" => "busy" \notin todo[k].evts
  BY DEF SoloInv
<1>3. ASSUME NEW F \in SUBSET Running
      PROVE  /\ Lines(F) \subseteq F \cup {"busy"} /\ F \subseteq open /\ F \subseteq Jobs
  BY DEF Lines, Running, IInv, JobInv
<1>4. want \subseteq Jobs \/ pc \notin Places
  BY DEF IInv, WaitInv, JobInv
<1>5. EuMasked \subseteq eu_buffer \cap Jobs
  BY <1>2 DEF EuMasked
<1>6. ASSUME NEW F \in SUBSET Running, Tick(F)
      PROVE  SoloInv'
  <2>1. /\ eu_buffer' \subseteq eu_buffer \cup Lines(F) /\ eu_mask' = eu_mask
        /\ UNCHANGED coreVars
    BY <1>6, Buffer DEF Tick, EuIdle
  <2>2. pc = "init" \/ \E j \in AnyEvent :
          prepared \cup open \cup acc \cup (eu_buffer' \cap Jobs) \subseteq {j}
    <3>1. eu_buffer' \cap Jobs \subseteq (eu_buffer \cap Jobs) \cup open
      BY <2>1, <1>3, NoBusyJob
    <3> QED
      BY <3>1, <1>2
  <2> QED
    BY <1>2, <1>3, <2>1, <2>2 DEF SoloInv, coreVars
<1>7. ASSUME NEW F \in SUBSET Running, CoreInCall(F), pc # "init"
      PROVE  SoloInv'
  <2>1. /\ pc \in Places /\ pc' # "init"
        /\ eu_mask' \subseteq eu_mask \cup want
        /\ prepared' = prepared /\ open' \subseteq open
        /\ acc' \subseteq acc \cup EuMasked \cup want
        /\ eu_buffer' \subseteq eu_buffer \cup Lines(F)
        /\ want \subseteq open
    BY <1>7, CallShape DEF IInv, WaitInv
  <2>2. /\ eu_buffer' \cap Jobs \subseteq (eu_buffer \cap Jobs) \cup open
        /\ eu_buffer' \subseteq Jobs \cup {"busy"}
        /\ "busy" \notin eu_mask'
    BY <2>1, <1>2, <1>3, <1>4, NoBusyJob
  <2>3. \E j \in AnyEvent :
          prepared' \cup open' \cup acc' \cup (eu_buffer' \cap Jobs) \subseteq {j}
    <3>1. PICK j \in AnyEvent :
            prepared \cup open \cup acc \cup (eu_buffer \cap Jobs) \subseteq {j}
      BY <1>2, <1>7
    <3>2. prepared' \cup open' \cup acc' \cup (eu_buffer' \cap Jobs) \subseteq {j}
      BY <3>1, <2>1, <2>2, <1>5
    <3> QED
      BY <3>2
  <2> QED
    BY <2>1, <2>2, <2>3 DEF SoloInv
<1>8. ASSUME NEW F \in SUBSET Running, InitAccess(F)
      PROVE  SoloInv'
  <2> DEFINE a == Head(todo)
  <2>1. /\ pc = "init" /\ todo' = Tail(todo) /\ open = {} /\ acc = {}
        /\ pc' = IF Len(todo) = 1 THEN "ready" ELSE "init"
        /\ UNCHANGED <<prepared, open, fn, want, acc, result>>
    BY <1>8 DEF InitAccess, IInv, InitialInv, FreshInv
  <2>2. /\ todo \in Seq([op : {"clear", "enable", "disable_all"}, evts : SUBSET AnyEvent])
        /\ todo # <<>>
    BY <2>1 DEF IInv, InitialInv
  <2> DEFINE Op == [op : {"clear", "enable", "disable_all"}, evts : SUBSET AnyEvent]
  <2>3. \A o \in Op : o.op \in {"clear", "enable", "disable_all"}
    OBVIOUS
  <2>20. todo \in Seq(Op)
    BY <2>2
  <2> HIDE DEF Op
  <2>4. /\ Len(todo) \in Nat \ {0} /\ a = todo[1] /\ a \in Op
        /\ Tail(todo) \in Seq(Op) /\ Len(Tail(todo)) = Len(todo) - 1
        /\ \A k \in 1..Len(Tail(todo)) : Tail(todo)[k] = todo[k + 1]
    BY <2>2, <2>20, HeadTailProperties
  <2>5. a.op = "enable" => "busy" \notin a.evts
    <3>1. 1 \in 1..Len(todo)
      BY ONLY <2>4
    <3> QED
      BY <3>1, <2>1, <2>4, <1>2
  <2>6. \A k \in 1..Len(todo') : todo'[k].op = "enable" => "busy" \notin todo'[k].evts
    <3>1. \A k \in 1..Len(Tail(todo)) : k + 1 \in 1..Len(todo)
      BY ONLY <2>4
    <3> QED
      BY <3>1, <2>1, <2>4, <1>2
  <2> HIDE DEF a
  <2>7. /\ eu_buffer' \subseteq eu_buffer \cup Lines(F)
        /\ "busy" \notin eu_mask'
    <3>1. CASE a.op = "clear"
      <4>1. eu_clear_events(a.evts, Lines(F))
        BY <3>1, <1>8 DEF InitAccess, a
      <4> QED
        BY <4>1, <1>2, Buffer DEF eu_clear_events
    <3>2. CASE a.op = "enable"
      <4>1. eu_enable_events(a.evts, Lines(F))
        BY <3>2, <1>8 DEF InitAccess, a
      <4> QED
        BY <4>1, <3>2, <2>5, <1>2, Buffer DEF eu_enable_events
    <3>3. CASE a.op = "disable_all"
      <4>1. EuDisableAll(Lines(F))
        BY <3>3, <1>8 DEF InitAccess, a
      <4> QED
        BY <4>1, Buffer DEF EuDisableAll
    <3> QED
      BY <3>1, <3>2, <3>3, <2>3, <2>4
  <2>8. pc' # "init" => Jobs \cap eu_buffer' = {}
    BY <1>8, InitAccessInv
  <2>9. \E j \in AnyEvent : prepared \subseteq {j}
    BY <2>1, <1>2
  <2> QED
    BY <2>1, <2>6, <2>7, <2>8, <2>9, <1>2, <1>3 DEF SoloInv
<1>9. ASSUME NEW i \in program.inits, CallInit(i)
      PROVE  SoloInv'
  <2>1. /\ pc = "ready" /\ pc' = "init" /\ todo' = Accesses(i) /\ prepared' = i[2]
        /\ UNCHANGED <<program, eu_buffer, eu_mask>>
    BY <1>9 DEF CallInit, euVars
  <2>2. /\ i[1] \in {"cluster", "redmule", "idma", "fsync", "spatz", "pair"}
        /\ i[2] \subseteq Jobs /\ \A j, k \in i[2] : j = k
    <3>1. program \in Programs
      BY DEF IInv, JobInv
    <3>2. i[2] \in SUBSET Jobs
          /\ i[1] \in {"cluster", "redmule", "idma", "fsync", "spatz", "multi", "pair"}
      BY <3>1
    <3> QED
      BY <3>2 DEF Solo
  <2>3. \E j \in AnyEvent : i[2] \subseteq {j}
    <3>1. "busy" \in AnyEvent
      BY DEF AnyEvent
    <3> QED
      BY <3>1, <2>2, NoBusyJob
  <2> DEFINE Calm(s) ==
        \A k \in 1..Len(s) : s[k].op = "enable" => "busy" \notin s[k].evts
  <2>4. ASSUME NEW S, "busy" \notin S
        PROVE  Calm(<<Clear(Events), Enable(S)>>)
    <3> DEFINE c == Clear(Events)
               e == Enable(S)
    <3>1. c.op # "enable" /\ e.evts = S
      BY DEF Clear, Enable
    <3> HIDE DEF c, e
    <3>2. Calm(<<c, e>>)
      BY <3>1, <2>4
    <3> QED
      BY <3>2 DEF c, e
  <2>5. Calm(eu_cluster_done_init)
    <3> DEFINE d == [op |-> "disable_all", evts |-> {}]
               c == Clear(Events)
               e == Enable({"cluster"})
    <3>1. d.op # "enable" /\ c.op # "enable" /\ e.evts = {"cluster"}
      BY DEF Clear, Enable
    <3> HIDE DEF c, d, e
    <3>2. Calm(<<d, c, e>>)
      BY <3>1
    <3> QED
      BY <3>2 DEF c, d, e, eu_cluster_done_init
  <2>6. \/ Accesses(i) = eu_cluster_done_init
        \/ \E S : "busy" \notin S /\ Accesses(i) = <<Clear(Events), Enable(S)>>
    <3>1. "busy" \notin i[2]
      BY <2>2, NoBusyJob
    <3> QED
      BY <2>2, <3>1 DEF Accesses, eu_redmule_init, eu_idma_init, eu_fsync_init,
         eu_spatz_init, clear_and_enable
  <2>7. Calm(Accesses(i))
    BY <2>4, <2>5, <2>6
  <2> QED
    BY <2>1, <2>3, <2>7, <1>2 DEF SoloInv
<1>10. ASSUME NEW j \in Jobs, Start(j) \/ SeeDone(j)
       PROVE  SoloInv'
  <2>1. /\ pc = "ready" /\ UNCHANGED <<eu_buffer, eu_mask, pc, acc>>
        /\ prepared' \cup open' \subseteq prepared \cup open
    BY <1>10 DEF Start, SeeDone, euVars
  <2> QED
    BY <2>1, <1>2 DEF SoloInv
<1>11. ASSUME NEW f \in program.waits, NEW jobs \in SUBSET Jobs, CallWait(f, jobs)
       PROVE  SoloInv'
  <2>1. /\ pc = "ready" /\ pc' # "init" /\ acc' = {}
        /\ UNCHANGED <<eu_buffer, eu_mask, prepared, open>>
    <3>1. f \in Single \cup Multi
      BY DEF IInv, JobInv, Single, Multi
    <3> QED
      BY <3>1, <1>11 DEF CallWait, FirstStep, euVars, Single, Multi
  <2> QED
    BY <2>1, <1>2 DEF SoloInv
<1>12. ASSUME PollTimeout
       PROVE  SoloInv'
  <2>1. /\ pc # "init" /\ pc' # "init" /\ acc' = {} /\ open' \subseteq open
        /\ UNCHANGED <<eu_buffer, eu_mask, prepared>>
    BY <1>12 DEF PollTimeout, Return, euVars
  <2> QED
    BY <2>1, <1>2 DEF SoloInv
<1>13. ASSUME NEW F \in SUBSET Running, CoreInCall(F), pc = "init"
       PROVE  SoloInv'
  <2>1. InitAccess(F)
    BY <1>13 DEF CoreInCall, PollEnable, PollCheck, PollClear, WfeEnable, WfeWait, WfeDisable,
       LoadBusy, MultiEnable, MultiWait, MultiCheck, SpatzCheck, SpatzWait, SpatzClear
  <2> QED
    BY <2>1, <1>8
<1> QED
  BY <1>6, <1>7, <1>9, <1>10, <1>11, <1>12, <1>13 DEF Next

-----------------------------------------------------------------------------
\* Nothing is cleared but what is latched, and what arrives is latched.
LEMMA Kept ==
  ASSUME NEW F \in SUBSET Running
  PROVE  /\ EuIdle(Lines(F)) => eu_buffer \cup F \subseteq eu_buffer'
         /\ \A evts : eu_enable_events(evts, Lines(F)) => eu_buffer \cup F \subseteq eu_buffer'
         /\ \A evts : eu_disable_events(evts, Lines(F)) => eu_buffer \cup F \subseteq eu_buffer'
         /\ \A evts : eu_clear_events(evts, Lines(F)) =>
                         (eu_buffer \cup F) \ evts \subseteq eu_buffer'
         /\ eu_evt_wait(Lines(F)) => eu_buffer \cup F \subseteq eu_buffer'
         /\ eu_evt_waitAndClr(Lines(F)) => (eu_buffer \cup F) \ EuMasked \subseteq eu_buffer'
<1>1. F \subseteq Lines(F)
  BY DEF Lines
<1>2. ASSUME NEW S, EuLatch(Lines(F), S)
      PROVE  (eu_buffer \cup F) \ S \subseteq eu_buffer'
  BY <1>1, <1>2 DEF EuLatch
<1> QED
  BY <1>2 DEF EuIdle, eu_enable_events, eu_disable_events, eu_clear_events,
     eu_evt_wait, eu_evt_waitAndClr

\* A job that finishes in this cycle, or has finished before, has its event
\* in the buffer or in what the wait has seen, unless it is cleared.
LEMMA DoneIsHeld ==
  ASSUME IInv, HeldInv, NEW F \in SUBSET Running, Finish(F), Joining(program),
         NEW cleared, \A j \in cleared \cap Jobs : st[j] = "done",
         (eu_buffer \cup F) \ cleared \subseteq eu_buffer',
         NEW j \in open, st'[j] = "done"
  PROVE  j \in eu_buffer' \/ j \in acc \/ j \in cleared
<1>1. j \in Jobs
  BY DEF IInv, JobInv
<1>2. CASE st[j] = "done"
  BY <1>2 DEF HeldInv, NoLostEvent, Joining
<1>3. CASE st[j] # "done"
  <2>1. j \in F
    BY <1>1, <1>3 DEF Finish
  <2> QED
    BY <1>1, <1>3, <2>1
<1> QED
  BY <1>2, <1>3

LEMMA GoMore ==
  ASSUME IInv, HeldInv, AwaitInv, NEW F \in SUBSET Running, Finish(F),
         NEW cleared, \A j \in cleared \cap Jobs : st[j] = "done",
         (eu_buffer \cup F) \ cleared \subseteq eu_buffer',
         pc \in Places, NEW place \in Places, NEW events, Go(place, events),
         place \notin HeldAt => events = {},
         place = "multi_check" => events \subseteq eu_buffer',
         place = "poll_clear" => events \subseteq want,
         Joining(program) => cleared \cap open \subseteq events
                             /\ acc \cap open \subseteq events \cup eu_buffer'
  PROVE  HeldInv' /\ AwaitInv'
<1>1. /\ pc' = place /\ acc' = events
      /\ UNCHANGED <<program, prepared, open, todo, fn, want, result>>
  BY DEF Go, Finish
<1>2. \A j \in Jobs : st[j] = "done" => st'[j] = "done"
  BY DEF Finish
<1>3. NoLostEvent'
  <2>1. SUFFICES ASSUME Joining(program), NEW j \in open, st'[j] = "done"
                 PROVE  j \in eu_buffer' \cup events
    BY <1>1 DEF NoLostEvent, Joining
  <2>2. j \in eu_buffer' \/ j \in acc \/ j \in cleared
    BY <2>1, DoneIsHeld
  <2> QED
    BY <2>1, <2>2
<1>4. HeldInv'
  BY <1>1, <1>3 DEF HeldInv, Joining
<1>5. AwaitInv'
  BY <1>1, <1>2 DEF AwaitInv, AwaitedDone
<1> QED
  BY <1>4, <1>5

LEMMA ReturnMore ==
  ASSUME IInv, HeldInv, AwaitInv, NEW F \in SUBSET Running, Finish(F),
         NEW cleared, \A j \in cleared \cap Jobs : st[j] = "done",
         (eu_buffer \cup F) \ cleared \subseteq eu_buffer',
         pc \in Places, NEW events, Return(events),
         WaitsAreSolo /\ fn \in Single /\ events # {} => \A j \in want : st'[j] = "done",
         Joining(program) /\ open' = open => cleared \cap open = {}
                                            /\ acc \cap open \subseteq eu_buffer'
  PROVE  HeldInv' /\ AwaitInv'
<1>1. /\ pc' = "ready" /\ acc' = {} /\ result' = [want |-> want, events |-> events, fn |-> fn]
      /\ open' = open \/ open' = open \ want
      /\ UNCHANGED <<program, prepared, todo>>
  BY DEF Return, Finish
<1>2. want \subseteq Jobs /\ want \subseteq open
  BY DEF IInv, WaitInv, JobInv
<1>3. NoLostEvent'
  <2>1. SUFFICES ASSUME Joining(program), NEW j \in open', st'[j] = "done"
                 PROVE  j \in eu_buffer'
    BY <1>1 DEF NoLostEvent, Joining
  <2>2. want = open
    BY <2>1 DEF HeldInv
  <2>3. open' = open
    BY <1>1, <2>1, <2>2
  <2>4. j \in eu_buffer' \/ j \in acc \/ j \in cleared
    BY <2>1, <2>3, DoneIsHeld
  <2> QED
    BY <2>1, <2>3, <2>4
<1>4. HeldInv'
  BY <1>1, <1>3 DEF HeldInv, Joining, Places
<1>5. WaitsAreSolo => AwaitedDone'
  BY <1>1, <1>2 DEF AwaitedDone, Single
<1>6. AwaitInv'
  BY <1>1, <1>2, <1>5 DEF AwaitInv, Places
<1> QED
  BY <1>4, <1>6

LEMMA CoreMore ==
  ASSUME IInv, More, NEW F \in SUBSET Running, CoreInCall(F), pc # "init"
  PROVE  HeldInv' /\ AwaitInv'
<1>1. /\ WaitInv /\ HeldInv /\ AwaitInv /\ pc \in Places /\ Finish(F)
      /\ want \subseteq open /\ want \subseteq Jobs /\ open \subseteq Jobs
      /\ (fn \in Single => \E j \in Jobs : want = {j})
      /\ fn \in FnsAt(pc)
  BY CallShape DEF IInv, More, WaitInv, JobInv
<1>2. /\ \A j \in EuMasked \cap Jobs : st[j] = "done"
      /\ \A j \in acc \cap Jobs : st[j] = "done"
      /\ \A j \in Jobs : st[j] = "done" => st'[j] = "done"
      /\ EuMasked \subseteq eu_buffer
  BY <1>1 DEF IInv, FreshInv, Fresh, EuMasked, Finish
\* A blocking wait for one job has only that job's event to find.
<1>3. WaitsAreSolo /\ fn \in {"wfe", "mask_wait"} =>
        EuMasked \subseteq want /\ acc \subseteq want
  <2>1. SUFFICES ASSUME WaitsAreSolo, fn \in {"wfe", "mask_wait"}
                 PROVE  EuMasked \subseteq want /\ acc \subseteq want
    OBVIOUS
  <2>2. Solo(program)
    <3>1. fn \in program.waits /\ program \in Programs
      BY <1>1 DEF AwaitInv, IInv, JobInv
    <3> QED
      BY <2>1, <3>1 DEF WaitsAreSolo, TakesAny
  <2>3. PICK j \in AnyEvent : open \cup acc \cup (eu_buffer \cap Jobs) \subseteq {j}
    BY <2>2, <1>1, CallShape DEF More, SoloInv, Places
  <2>4. want = {j}
    <3>1. PICK k \in Jobs : want = {k}
      BY <1>1, <2>1 DEF Single
    <3> QED
      BY <3>1, <2>3, <1>1
  <2>5. EuMasked \subseteq eu_buffer \cap Jobs
    BY <2>2 DEF More, SoloInv, EuMasked
  <2> QED
    BY <2>3, <2>4, <2>5
<1>4. /\ pc \notin HeldAt => acc = {}
      /\ pc = "multi_check" => acc \subseteq eu_buffer
      /\ Joining(program) => want = open
      /\ pc = "poll_clear" => acc \subseteq want
  BY <1>1 DEF HeldInv, AwaitInv
<1>5. CASE PollEnable(F)
  <2>1. pc = "poll_enable" /\ Go("poll", {}) /\ (eu_buffer \cup F) \ {} \subseteq eu_buffer'
    BY <1>5, Kept DEF PollEnable
  <2>2. acc = {} /\ "poll" \in Places /\ "poll" \notin HeldAt
    BY <2>1, <1>4 DEF HeldAt, Places
  <2> QED
    BY <1>1, <2>1, <2>2, GoMore
<1>6. CASE PollCheck(F)
  <2>1. /\ pc = "poll" /\ Go("poll_clear", EuMasked \cap want)
        /\ (eu_buffer \cup F) \ {} \subseteq eu_buffer'
    BY <1>6, Kept DEF PollCheck
  <2>2. acc = {} /\ "poll_clear" \in Places /\ "poll_clear" \in HeldAt
    BY <2>1, <1>4 DEF HeldAt, Places
  <2> DEFINE seen == EuMasked \cap want
  <2>3. seen \subseteq want /\ Go("poll_clear", seen)
    BY <2>1
  <2> HIDE DEF seen
  <2>4. Joining(program) => /\ {} \cap open \subseteq seen
                            /\ acc \cap open \subseteq seen \cup eu_buffer'
    BY <2>2
  <2> QED
    BY <1>1, <2>1, <2>2, <2>3, <2>4, GoMore
<1>7. CASE PollClear(F)
  <2>1. /\ pc = "poll_clear" /\ Return(acc) /\ (eu_buffer \cup F) \ acc \subseteq eu_buffer'
    BY <1>7, Kept DEF PollClear
  <2>2. fn = "polling" /\ acc \subseteq want
    BY <2>1, <1>1, <1>4 DEF FnsAt
  <2>3. acc # {} => \A j \in want : st'[j] = "done"
    <3>1. PICK j \in Jobs : want = {j}
      BY <2>2, <1>1 DEF Single
    <3> QED
      BY <2>2, <3>1, <1>2
  <2>4. Joining(program) /\ open' = open => acc \cap open = {}
    BY <2>1, <2>2, <1>1, <1>4 DEF Return
  <2> QED
    BY ZenonT(30), <1>1, <1>2, <2>1, <2>3, <2>4, ReturnMore
<1>8. CASE WfeEnable(F)
  <2>1. pc = "wfe_enable" /\ Go("wfe_wait", {}) /\ (eu_buffer \cup F) \ {} \subseteq eu_buffer'
    BY <1>8, Kept DEF WfeEnable
  <2>2. acc = {} /\ "wfe_wait" \in Places /\ "wfe_wait" \notin HeldAt
    BY <2>1, <1>4 DEF HeldAt, Places
  <2> QED
    BY <1>1, <2>1, <2>2, GoMore
<1>9. CASE WfeWait(F)
  <2>1. /\ pc = "wfe_wait" /\ (eu_buffer \cup F) \ EuMasked \subseteq eu_buffer' /\ acc = {}
    BY <1>9, <1>4, Kept DEF WfeWait, HeldAt
  <2>2. fn \in {"wfe", "mask_wait", "idma_load"}
    BY <1>1, <2>1 DEF FnsAt
  <2>3. CASE fn = "wfe"
    <3>1. Return(EuMasked) /\ fn # "multi_polling"
      BY <1>9, <2>3 DEF WfeWait
    <3>2. WaitsAreSolo /\ EuMasked # {} => \A j \in want : st'[j] = "done"
      BY <2>3, <1>1, <1>2, <1>3 DEF Single
    <3>3. Joining(program) /\ open' = open => EuMasked \cap open = {}
      BY <3>1, <1>1, <1>4 DEF Return
    <3> QED
      BY <1>1, <1>2, <2>1, <3>1, <3>2, <3>3, ReturnMore
  <2>4. CASE fn = "mask_wait"
    <3>1. Go("wfe_disable", EuMasked)
      BY <1>9, <2>4 DEF WfeWait
    <3>2. "wfe_disable" \in Places /\ "wfe_disable" \in HeldAt
      BY DEF HeldAt, Places
    <3> QED
      BY <1>1, <1>2, <2>1, <3>1, <3>2, GoMore
  <2>5. CASE fn = "idma_load"
    <3>1. Go("load_busy", EuMasked)
      BY <1>9, <2>5 DEF WfeWait
    <3>2. "load_busy" \in Places /\ "load_busy" \in HeldAt
      BY DEF HeldAt, Places
    <3> QED
      BY <1>1, <1>2, <2>1, <3>1, <3>2, GoMore
  <2> QED
    BY <2>2, <2>3, <2>4, <2>5
<1>10. CASE WfeDisable(F)
  <2>1. /\ pc = "wfe_disable" /\ Return(acc) /\ (eu_buffer \cup F) \ {} \subseteq eu_buffer'
    BY <1>10, Kept DEF WfeDisable
  <2>2. fn = "mask_wait" /\ (WaitsAreSolo => acc \subseteq want)
    BY <2>1, <1>1, <1>3 DEF FnsAt
  <2>3. WaitsAreSolo /\ acc # {} => \A j \in want : st'[j] = "done"
    BY <2>2, <1>1, <1>2 DEF Single
  <2>4. Joining(program) /\ open' = open => acc \cap open = {}
    BY <2>1, <2>2, <1>1, <1>4 DEF Return
  <2> QED
    BY ZenonT(30), <1>1, <1>2, <2>1, <2>3, <2>4, ReturnMore
<1>11. CASE LoadBusy(F)
  <2>1. /\ pc = "load_busy" /\ fn = "idma_load" /\ want = {"a2o"}
        /\ (eu_buffer \cup F) \ {} \subseteq eu_buffer'
    BY <1>1, <1>11, Kept DEF LoadBusy, FnsAt, WaitInv
  <2>2. CASE st["a2o"] = "running"
    <3>1. Go("wfe_enable", {})
      BY <1>11, <2>2 DEF LoadBusy
    <3>2. "wfe_enable" \in Places /\ "wfe_enable" \notin HeldAt
      BY DEF HeldAt, Places
    <3>3. Joining(program) => acc \cap open = {}
      BY <2>1, <2>2, <1>1, <1>2, <1>4
    <3>4. Joining(program) => {} \cap open \subseteq {} /\ acc \cap open \subseteq {} \cup eu_buffer'
      BY <3>3
    <3> QED
      BY <1>1, <2>1, <3>1, <3>2, <3>4, GoMore
  <2>3. CASE st["a2o"] # "running"
    <3>1. Return(want) /\ fn # "multi_polling"
      BY <1>11, <2>1, <2>3 DEF LoadBusy
    <3>2. \A j \in want : st'[j] = "done"
      BY <1>1, <1>2, <2>1, <2>3 DEF IInv, JobInv
    <3>3. Joining(program) /\ open' = open => acc \cap open = {}
      BY <3>1, <2>1, <1>1 DEF Return
    <3>4. Joining(program) /\ open' = open =>
            {} \cap open = {} /\ acc \cap open \subseteq eu_buffer'
      BY <3>3
    <3> QED
      BY <1>1, <2>1, <3>1, <3>2, <3>4, ReturnMore
  <2> QED
    BY <2>2, <2>3
<1>12. CASE MultiEnable(F)
  <2>1. /\ pc = "multi_enable" /\ (eu_buffer \cup F) \ {} \subseteq eu_buffer' /\ acc = {}
    BY <1>12, <1>4, Kept DEF MultiEnable, HeldAt
  <2>2. PICK place \in {"multi_wait", "multi_check"} : Go(place, {})
    BY <1>12 DEF MultiEnable
  <2>3. place \in Places /\ place # "poll_clear"
    BY <2>2 DEF Places
  <2> QED
    BY <1>1, <2>1, <2>2, <2>3, GoMore
<1>13. CASE MultiWait(F)
  <2> DEFINE seen == acc \cup EuMasked
  <2>1. /\ pc = "multi_wait" /\ fn = "multi_wfe"
        /\ (eu_buffer \cup F) \ EuMasked \subseteq eu_buffer'
    BY <1>13, <1>1, Kept DEF MultiWait, FnsAt
  <2>2. CASE want \subseteq seen
    <3>1. Return(seen) /\ fn \notin Single
      BY <1>13, <2>1, <2>2 DEF MultiWait, Single
    <3>2. Joining(program) /\ open' = open => open = {}
      BY <3>1, <2>1, <2>2, <1>1, <1>4 DEF Return
    <3>3. Joining(program) /\ open' = open =>
            EuMasked \cap open = {} /\ acc \cap open \subseteq eu_buffer'
      BY <3>2
    <3> HIDE DEF seen
    <3> QED
      BY <1>1, <1>2, <2>1, <3>1, <3>3, ReturnMore
  <2>3. CASE ~ want \subseteq seen
    <3>1. Go("multi_wait", seen)
      BY <1>13, <2>3 DEF MultiWait
    <3>2. "multi_wait" \in Places \cap HeldAt
      BY DEF HeldAt, Places
    <3> QED
      BY <1>1, <1>2, <2>1, <3>1, <3>2, GoMore
  <2> QED
    BY <2>2, <2>3
<1>14. CASE MultiCheck(F)
  <2> DEFINE seen == acc \cup (EuMasked \cap want)
  <2>1. /\ pc = "multi_check" /\ fn = "multi_polling" /\ seen \subseteq eu_buffer'
        /\ acc \subseteq eu_buffer' /\ (eu_buffer \cup F) \ {} \subseteq eu_buffer'
    BY <1>14, <1>1, <1>2, <1>4, Kept DEF MultiCheck, FnsAt
  <2>2. CASE want \subseteq seen
    <3>1. Return(seen) /\ fn \notin Single
      BY <1>14, <2>1, <2>2 DEF MultiCheck, Single
    <3>2. Joining(program) /\ open' = open =>
            {} \cap open = {} /\ acc \cap open \subseteq eu_buffer'
      BY <2>1
    <3> HIDE DEF seen
    <3> QED
      BY <1>1, <1>2, <2>1, <3>1, <3>2, ReturnMore
  <2>3. CASE ~ want \subseteq seen
    <3>1. Go("multi_check", seen)
      BY <1>14, <2>3 DEF MultiCheck
    <3>2. "multi_check" \in Places \cap HeldAt
      BY DEF HeldAt, Places
    <3> QED
      BY <1>1, <1>2, <2>1, <3>1, <3>2, GoMore
  <2> QED
    BY <2>2, <2>3
<1>15. CASE SpatzCheck(F)
  <2>1. /\ pc = "spatz_check" /\ (eu_buffer \cup F) \ {} \subseteq eu_buffer' /\ acc = {}
    BY <1>15, <1>4, Kept DEF SpatzCheck, HeldAt
  <2>2. PICK place \in {"spatz_clear", "spatz_wait"} : Go(place, {})
    BY <1>15 DEF SpatzCheck
  <2>3. place \in Places /\ place # "poll_clear"
    BY <2>2 DEF Places
  <2> QED
    BY <1>1, <2>1, <2>2, <2>3, GoMore
<1>16. CASE SpatzWait(F)
  <2>1. /\ pc = "spatz_wait" /\ Go("spatz_check", {})
        /\ (eu_buffer \cup F) \ {} \subseteq eu_buffer'
    BY <1>16, Kept DEF SpatzWait
  <2>2. acc = {} /\ "spatz_check" \in Places /\ "spatz_check" \notin HeldAt
    BY <2>1, <1>4 DEF HeldAt, Places
  <2> QED
    BY <1>1, <2>1, <2>2, GoMore
<1>17. CASE SpatzClear(F)
  <2>1. /\ pc = "spatz_clear" /\ Return(want) /\ (eu_buffer \cup F) \ want \subseteq eu_buffer'
    BY <1>17, Kept DEF SpatzClear
  <2>2. /\ fn \in {"spatz_wfe", "spatz_polling"} /\ acc = {}
        /\ \A j \in want \cap Jobs : st[j] = "done"
    BY <2>1, <1>1, <1>4 DEF FnsAt, HeldAt, WaitInv, Fresh, Places
  <2>3. \A j \in want : st'[j] = "done"
    BY <2>2, <1>1, <1>2
  <2>4. Joining(program) /\ open' = open => want \cap open = {}
    BY <2>1, <2>2, <1>1 DEF Return, Single
  <2> QED
    BY <1>1, <2>1, <2>2, <2>3, <2>4, ReturnMore
<1>18. ~InitAccess(F)
  BY DEF InitAccess
<1> QED
  BY <1>5, <1>6, <1>7, <1>8, <1>9, <1>10, <1>11, <1>12, <1>13, <1>14, <1>15, <1>16, <1>17, <1>18
     DEF CoreInCall

LEMMA NextMore ==
  ASSUME IInv, IInv', More, [Next]_vars
  PROVE  More'
<1> USE DEF More
<1>1. \A j \in Jobs : Fresh(eu_buffer) /\ open \subseteq Jobs
  BY DEF IInv, JobInv, FreshInv
<1>2. ASSUME NEW F \in SUBSET Running, Tick(F)
      PROVE  HeldInv' /\ AwaitInv'
  <2>1. /\ UNCHANGED <<program, prepared, open, pc, todo, fn, want, acc, result>> /\ Finish(F)
        /\ (eu_buffer \cup F) \ {} \subseteq eu_buffer'
    BY <1>2, Kept DEF Tick, coreVars, Finish
  <2>2. \A j \in Jobs : st[j] = "done" => st'[j] = "done"
    BY <2>1 DEF Finish
  <2>3. NoLostEvent'
    <3>1. SUFFICES ASSUME Joining(program), NEW j \in open, st'[j] = "done"
                   PROVE  j \in eu_buffer' \cup acc
      BY <2>1 DEF NoLostEvent, Joining
    <3>2. \A j1 \in {} \cap Jobs : st[j1] = "done"
      OBVIOUS
    <3> QED
      BY <2>1, <3>1, <3>2, DoneIsHeld
  <2>4. HeldInv'
    BY <2>1, <2>3 DEF HeldInv, Joining
  <2>5. AwaitInv'
    BY <2>1, <2>2 DEF AwaitInv, AwaitedDone
  <2> QED
    BY <2>4, <2>5
<1>3. ASSUME NEW F \in SUBSET Running, InitAccess(F)
      PROVE  HeldInv' /\ AwaitInv'
  <2>1. /\ pc = "init" /\ pc' \in {"init", "ready"} /\ open = {} /\ acc = {} /\ Finish(F)
        /\ UNCHANGED <<program, prepared, open, fn, want, acc, result>>
    BY <1>3 DEF InitAccess, Finish, IInv, InitialInv, FreshInv
  <2>2. \A j \in Jobs : st[j] = "done" => st'[j] = "done"
    BY <2>1 DEF Finish
  <2> QED
    BY <2>1, <2>2 DEF HeldInv, NoLostEvent, AwaitInv, AwaitedDone, Places
<1>4. ASSUME NEW F \in SUBSET Running, CoreInCall(F)
      PROVE  HeldInv' /\ AwaitInv'
  <2>1. CASE pc # "init"
    BY <1>4, <2>1, CoreMore
  <2>2. CASE pc = "init"
    <3>1. InitAccess(F)
      BY <1>4, <2>2 DEF CoreInCall, PollEnable, PollCheck, PollClear, WfeEnable, WfeWait,
         WfeDisable, LoadBusy, MultiEnable, MultiWait, MultiCheck, SpatzCheck, SpatzWait, SpatzClear
    <3> QED
      BY <3>1, <1>3
  <2> QED
    BY <2>1, <2>2
<1>5. ASSUME NEW i \in program.inits, CallInit(i)
      PROVE  HeldInv' /\ AwaitInv'
  <2>1. /\ pc = "ready" /\ pc' = "init" /\ open = {}
        /\ UNCHANGED <<program, st, eu_buffer, open, fn, want, acc, result>>
    BY <1>5 DEF CallInit, euVars
  <2>2. "ready" \notin HeldAt /\ "init" \notin Places
    BY DEF HeldAt, Places
  <2> QED
    BY <2>1, <2>2 DEF HeldInv, NoLostEvent, AwaitInv, AwaitedDone, Places
<1>6. ASSUME NEW j \in Jobs, Start(j)
      PROVE  HeldInv' /\ AwaitInv'
  <2>1. /\ pc = "ready" /\ pc' = "ready" /\ result' = NoResult /\ open' = open \cup {j}
        /\ st' = [st EXCEPT ![j] = "running"] /\ st \in [Jobs -> {"idle", "running", "done"}]
        /\ program.concurrent \/ open = {}
        /\ UNCHANGED <<program, eu_buffer, fn, want, acc>>
    BY <1>6 DEF Start, euVars, IInv, JobInv
  <2>2. "ready" \notin HeldAt /\ "ready" \notin Places /\ program.concurrent \in BOOLEAN
    BY DEF HeldAt, Places, IInv, JobInv
  <2>3. NoLostEvent'
    BY <2>1, <1>1 DEF HeldInv, NoLostEvent
  <2>4. HeldInv'
    BY <2>1, <2>2, <2>3 DEF HeldInv, Joining
  <2>5. AwaitInv'
    BY <2>1, <2>2 DEF AwaitInv, AwaitedDone, NoResult
  <2> QED
    BY <2>4, <2>5
<1>7. ASSUME NEW j \in Jobs, SeeDone(j)
      PROVE  HeldInv' /\ AwaitInv'
  <2>1. /\ pc = "ready" /\ pc' = "ready" /\ result' = NoResult /\ open' = open \ {j}
        /\ UNCHANGED <<program, st, eu_buffer, fn, want, acc>>
    BY <1>7 DEF SeeDone, euVars
  <2>2. "ready" \notin HeldAt /\ "ready" \notin Places
    BY DEF HeldAt, Places
  <2>3. HeldInv'
    BY <2>1, <2>2 DEF HeldInv, NoLostEvent, Joining
  <2>4. AwaitInv'
    BY <2>1, <2>2 DEF AwaitInv, AwaitedDone, NoResult
  <2> QED
    BY <2>3, <2>4
<1>8. ASSUME NEW f \in program.waits, NEW jobs \in SUBSET Jobs, CallWait(f, jobs)
      PROVE  HeldInv' /\ AwaitInv'
  <2>1. /\ pc = "ready" /\ fn' = f /\ want' = jobs /\ acc' = {} /\ result' = NoResult
        /\ jobs \subseteq open /\ jobs # {} /\ pc' # "poll_clear"
        /\ (f \in Multi => jobs = open)
        /\ UNCHANGED <<program, st, eu_buffer, open>>
    <3>1. f \in Single \cup Multi
      BY DEF IInv, JobInv, Single, Multi
    <3> QED
      BY <3>1, <1>8 DEF CallWait, FirstStep, euVars, Single, Multi
  <2>2. "ready" \notin HeldAt
    BY DEF HeldAt
  <2>3. acc = {}
    BY <2>1, <2>2 DEF HeldInv
  <2>4. Joining(program) => jobs = open
    <3>1. ~program.concurrent => \A j, k \in open : j = k
      BY DEF HeldInv, Joining
    <3> QED
      BY <2>1, <3>1 DEF Joining, Multi
  <2>5. NoLostEvent'
    BY <2>1, <2>3 DEF HeldInv, NoLostEvent
  <2>6. HeldInv'
    BY <2>1, <2>4, <2>5 DEF HeldInv, Joining
  <2>7. AwaitInv'
    BY <2>1 DEF AwaitInv, AwaitedDone, NoResult
  <2> QED
    BY <2>6, <2>7
<1>9. ASSUME PollTimeout
      PROVE  HeldInv' /\ AwaitInv'
  <2>1. /\ pc \in {"poll", "multi_check"} /\ Return(acc) /\ UNCHANGED <<program, st, eu_buffer>>
    BY <1>9 DEF PollTimeout, euVars
  <2>2. /\ Finish({}) /\ {} \in SUBSET Running /\ pc \in Places
        /\ (eu_buffer \cup {}) \ {} \subseteq eu_buffer'
    BY <2>1 DEF Finish, IInv, JobInv, Places
  <2>3. fn \in Single => acc = {}
    BY <2>1 DEF HeldInv, HeldAt, IInv, WaitInv, FnsAt, Places, Single, Multi
  <2>4. Joining(program) /\ open' = open =>
          {} \cap open = {} /\ acc \cap open \subseteq eu_buffer'
    BY <2>1 DEF HeldInv, HeldAt
  <2> QED
    BY <2>1, <2>2, <2>3, <2>4, ReturnMore
<1>10. CASE UNCHANGED vars
  BY <1>10 DEF vars, coreVars, euVars, HeldInv, NoLostEvent, SoloInv, AwaitInv, AwaitedDone
<1>11. CASE Next
  <2>1. SoloInv'
    BY <1>11, SoloStep
  <2>2. HeldInv' /\ AwaitInv'
    BY <1>11, <1>2, <1>4, <1>5, <1>6, <1>7, <1>8, <1>9 DEF Next
  <2> QED
    BY <2>1, <2>2
<1> QED
  BY <1>10, <1>11

\* What a wait holds of the events it has taken out of the buffer, and that
\* with one job at a time every event is that job's.
THEOREM MoreHolds == Spec => []More
BY InvariantHolds, InitMore, NextMore, PTL DEF Spec

\* No event is lost between the end of a job and the wait for it, in programs
\* that wait for one job at a time or for all together: it stays latched, or
\* the wait that cleared it holds it until it returns for the job
\* (event_unit_utils.h 209 to 253 and 423 to 452).
THEOREM NothingIsLost == Spec => []NoLostEvent
<1>1. More => NoLostEvent
  BY DEF More, HeldInv
<1> QED
  BY <1>1, MoreHolds, PTL

\* A wait for one job that returns an event returns after that job, if the
\* blocking waits, which return for any enabled event, are made only where no
\* other event is to come: one job at a time, no eu_multi_init
\* (event_unit_utils.h 209 to 253, 314 to 317).
THEOREM AwaitedIsDone ==
  ASSUME \A p \in Programs : TakesAny(p) => Solo(p)
  PROVE  Spec => []AwaitedDone
<1>1. More => AwaitedDone
  BY DEF More, AwaitInv, WaitsAreSolo
<1> QED
  BY <1>1, MoreHolds, PTL
=============================================================================
