----------------------------- MODULE AccelWaits -----------------------------
(***************************************************************************)
(* The main core waits for its accelerators through the Event Unit: the    *)
(* initialisations and waits of sw/utils/event_unit_utils.h, access by     *)
(* access, for the jobs of a tile (RedMulE, the two channels of the iDMA,  *)
(* FractalSync, the Spatz core, the PULP cluster).  A job raises its done  *)
(* event once, when it finishes; RedMulE also shows a level while it runs. *)
(*                                                                         *)
(* The program works in rounds, as the tests do: initialise, start jobs,   *)
(* wait for them.                                                          *)
(***************************************************************************)
EXTENDS EventUnit, FiniteSets, Sequences

CONSTANTS
  Jobs,        \* the jobs of a tile
  Programs     \* the programs: the initialisations they use, as pairs of
               \* function and jobs, their wait functions, whether several
               \* jobs run at once, and whether polls may time out

\* Every done event is named after its job.
RedmuleAll == {"redmule", "busy", "spatz"}   \* EU_REDMULE_ALL_MASK, 0x0F00

ASSUME AccelAssumption ==
  /\ Jobs \subseteq {"redmule", "a2o", "o2a", "fsync", "spatz", "cluster"}
  /\ Events = Jobs \cup RedmuleAll
  /\ \A p \in Programs :
       /\ {p.concurrent, p.timeouts} \subseteq BOOLEAN
       /\ p.inits \subseteq {"cluster", "redmule", "idma", "fsync", "spatz", "multi", "pair"}
                            \X SUBSET Jobs
       /\ p.waits \subseteq {"polling", "wfe", "mask_wait", "idma_load", "multi_wfe",
                            "multi_polling", "spatz_wfe", "spatz_polling"}

\* Programs in which nothing but the job that was started raises an event: one
\* job at a time, no initialisation that prepares another or enables more.
Solo(p) ==
  /\ ~p.concurrent
  /\ \A i \in p.inits : i[1] # "multi" /\ \A j, k \in i[2] : j = k

\* A blocking wait for one job returns for any event that is enabled.
TakesAny(p) == p.waits \cap {"wfe", "mask_wait"} # {}

VARIABLES
  program,    \* the program that runs
  st,         \* what each job is doing
  prepared,   \* jobs that may be started since the last initialisation
  open,       \* jobs started that no wait has returned for
  pc,         \* where the main core is
  todo,       \* accesses an initialisation has still to make
  fn,         \* the wait it is in
  want,       \* the events it waits for
  acc,        \* the events it has seen
  result      \* history: what the last wait was for and returned

coreVars == <<prepared, open, pc, todo, fn, want, acc, result>>
vars     == <<program, euVars, st, coreVars>>

NoResult == [want |-> {}, events |-> {}, fn |-> "none"]

\* Where eu_init leaves the unit; the tests call it first.
eu_init == eu_buffer = {} /\ eu_mask = {}

Init ==
  /\ program \in Programs
  /\ eu_init
  /\ st = [j \in Jobs |-> "idle"]
  /\ prepared = {} /\ open = {}
  /\ pc = "ready" /\ todo = <<>> /\ fn = "none" /\ want = {} /\ acc = {}
  /\ result = NoResult

-----------------------------------------------------------------------------
(* The jobs.  F are the jobs that finish in this cycle.                    *)

Running == {j \in Jobs : st[j] = "running"}

\* The event lines in this cycle; busy is a level.
Lines(F) == F \cup IF "redmule" \in Running THEN {"busy"} ELSE {}

Finish(F) ==
  /\ UNCHANGED program
  /\ st' = [j \in Jobs |-> IF j \in F THEN "done" ELSE st[j]]

\* A cycle without an access by the core.
Tick(F) ==
  /\ Lines(F) # {}
  /\ Finish(F) /\ EuIdle(Lines(F)) /\ UNCHANGED coreVars

-----------------------------------------------------------------------------
(* Initialisations and starts.                                             *)

Clear(evts)  == [op |-> "clear", evts |-> evts]
Enable(evts) == [op |-> "enable", evts |-> evts]

EnabledBy(jobs) ==
  UNION {IF j = "redmule" THEN RedmuleAll ELSE {j} : j \in jobs}

\* The initialisations of the API.  Each clears the whole buffer; only that
\* of the cluster disables what was enabled before, and eu_multi_init enables
\* more of RedMulE's events than its done.
eu_cluster_done_init ==
  <<[op |-> "disable_all", evts |-> {}], Clear(Events), Enable({"cluster"})>>
eu_redmule_init     == <<Clear(Events), Enable({"redmule"})>>
eu_idma_init        == <<Clear(Events), Enable({"a2o", "o2a"} \cap Jobs)>>
eu_fsync_init       == <<Clear(Events), Enable({"fsync"})>>
eu_spatz_init       == <<Clear(Events), Enable({"spatz"})>>
eu_multi_init(jobs) == <<Clear(Events), Enable(EnabledBy(jobs))>>

\* The pair of calls the tests make before a transfer in one direction.
clear_and_enable(jobs) == <<Clear(Events), Enable(jobs)>>

\* Fault: the events latched before are not cleared.
AccessesUncleared(i) == <<Enable(i[2])>>

Accesses(i) ==
  CASE i[1] = "cluster" -> eu_cluster_done_init
    [] i[1] = "redmule" -> eu_redmule_init
    [] i[1] = "idma"    -> eu_idma_init
    [] i[1] = "fsync"   -> eu_fsync_init
    [] i[1] = "spatz"   -> eu_spatz_init
    [] i[1] = "multi"   -> eu_multi_init(i[2])
    [] i[1] = "pair"    -> clear_and_enable(i[2])

CallInit(i) ==
  /\ pc = "ready" /\ i \in program.inits /\ open = {}
  /\ pc' = "init" /\ todo' = Accesses(i) /\ prepared' = i[2]
  /\ UNCHANGED <<program, euVars, st, open, fn, want, acc, result>>

InitAccess(F) ==
  /\ pc = "init"
  /\ LET a == Head(todo)
     IN  CASE a.op = "clear"       -> eu_clear_events(a.evts, Lines(F))
           [] a.op = "enable"      -> eu_enable_events(a.evts, Lines(F))
           [] a.op = "disable_all" -> EuDisableAll(Lines(F))
  /\ todo' = Tail(todo)
  /\ pc' = IF Len(todo) = 1 THEN "ready" ELSE "init"
  /\ Finish(F) /\ UNCHANGED <<prepared, open, fn, want, acc, result>>

\* The program starts a job it has prepared, once in a round.
Start(j) ==
  /\ pc = "ready" /\ j \in prepared /\ (program.concurrent \/ open = {})
  /\ st' = [st EXCEPT ![j] = "running"]
  /\ prepared' = prepared \ {j} /\ open' = open \cup {j} /\ result' = NoResult
  /\ UNCHANGED <<program, euVars, pc, todo, fn, want, acc>>

\* The program learns in another way that a job has ended (dma_wait, a busy
\* register), and leaves its event latched.
SeeDone(j) ==
  /\ pc = "ready" /\ j \in open /\ st[j] = "done"
  /\ open' = open \ {j} /\ result' = NoResult
  /\ UNCHANGED <<program, euVars, st, prepared, pc, todo, fn, want, acc>>

-----------------------------------------------------------------------------
(* Waits.  Each ends in Return.                                            *)

\* eu_cluster_done_wait enables its event in either mode.
FirstStep(f, jobs) ==
  CASE f = "polling"                           ->
         IF jobs = {"cluster"} THEN "poll_enable" ELSE "poll"
    [] f \in {"wfe", "mask_wait", "idma_load"} -> "wfe_enable"
    [] f \in {"multi_wfe", "multi_polling"}    -> "multi_enable"
    [] f \in {"spatz_wfe", "spatz_polling"}    -> "spatz_check"

\* The waits take one job of the program's choice, the multi-accelerator ones
\* all it has started.
CallWait(f, jobs) ==
  /\ pc = "ready" /\ f \in program.waits /\ jobs \subseteq open /\ jobs # {}
  /\ IF f \in {"multi_wfe", "multi_polling"} THEN jobs = open ELSE Cardinality(jobs) = 1
  /\ f = "idma_load" => jobs = {"a2o"}
  /\ f \in {"spatz_wfe", "spatz_polling"} => jobs = {"spatz"}
  /\ pc' = FirstStep(f, jobs) /\ fn' = f /\ want' = jobs /\ acc' = {} /\ result' = NoResult
  /\ UNCHANGED <<program, euVars, st, prepared, open, todo>>

\* A wait that gave up leaves its jobs to be waited for again.
Return(events) ==
  /\ pc' = "ready" /\ fn' = "none" /\ want' = {} /\ acc' = {}
  /\ result' = [want |-> want, events |-> events, fn |-> fn]
  /\ open' = IF events \cap want = {} \/ (fn = "multi_polling" /\ ~ want \subseteq events)
             THEN open ELSE open \ want
  /\ UNCHANGED <<prepared, todo>>

Go(place, events) ==
  /\ pc' = place /\ acc' = events
  /\ UNCHANGED <<prepared, open, todo, fn, want, result>>

PollEnable(F) ==
  /\ pc = "poll_enable" /\ Go("poll", {})
  /\ Finish(F) /\ eu_enable_events(want, Lines(F))

\* eu_wait_events_polling: look, clear what was seen, return it.
PollCheck(F) ==
  /\ pc = "poll" /\ EuSees(want)
  /\ Go("poll_clear", EuMasked \cap want)
  /\ Finish(F) /\ EuIdle(Lines(F))

PollClear(F) ==
  /\ pc = "poll_clear" /\ Return(acc)
  /\ Finish(F) /\ eu_clear_events(acc, Lines(F))

\* Fault: events are cleared as the wait begins.
WfeEnableCleared(F) ==
  /\ pc = "wfe_enable" /\ Go("wfe_wait", {})
  /\ Finish(F) /\ EuLatch(Lines(F), Events) /\ eu_mask' = eu_mask \cup want

\* eu_wait_events_wfe, and eu_evt_maskWaitAndClr, which disables afterwards.
WfeEnable(F) ==
  /\ pc = "wfe_enable" /\ Go("wfe_wait", {})
  /\ Finish(F) /\ eu_enable_events(want, Lines(F))

WfeWait(F) ==
  /\ pc = "wfe_wait"
  /\ CASE fn = "wfe"       -> Return(EuMasked)
       [] fn = "mask_wait" -> Go("wfe_disable", EuMasked)
       [] fn = "idma_load" -> Go("load_busy", EuMasked)
  /\ Finish(F) /\ eu_evt_waitAndClr(Lines(F))

WfeDisable(F) ==
  /\ pc = "wfe_disable" /\ Return(acc)
  /\ Finish(F) /\ eu_disable_events(want, Lines(F))

\* Fault: idle or not, the load is over after the first event.
LoadBusyOnce(F) ==
  /\ pc = "load_busy" /\ Return(want)
  /\ Finish(F) /\ EuIdle(Lines(F))

\* idma_load_l2_to_l1 (hello_redmule_pulp/main.c): wait again while the
\* channel is busy.
LoadBusy(F) ==
  /\ pc = "load_busy"
  /\ IF st["a2o"] = "running" THEN Go("wfe_enable", {}) ELSE Return(want)
  /\ Finish(F) /\ EuIdle(Lines(F))

\* eu_multi_wait_all.
MultiEnable(F) ==
  /\ pc = "multi_enable"
  /\ Go(IF fn = "multi_wfe" THEN "multi_wait" ELSE "multi_check", {})
  /\ Finish(F) /\ eu_enable_events(want, Lines(F))

\* Fault: only the last events count.
MultiWaitLast(F) ==
  /\ pc = "multi_wait"
  /\ IF want \subseteq EuMasked THEN Return(EuMasked) ELSE Go("multi_wait", {})
  /\ Finish(F) /\ eu_evt_waitAndClr(Lines(F))

MultiWait(F) ==
  /\ pc = "multi_wait"
  /\ LET seen == acc \cup EuMasked
     IN  IF want \subseteq seen THEN Return(seen) ELSE Go("multi_wait", seen)
  /\ Finish(F) /\ eu_evt_waitAndClr(Lines(F))

MultiCheck(F) ==
  /\ pc = "multi_check" /\ ~ EuMasked \cap want \subseteq acc
  /\ LET seen == acc \cup (EuMasked \cap want)
     IN  IF want \subseteq seen THEN Return(seen) ELSE Go("multi_check", seen)
  /\ Finish(F) /\ EuIdle(Lines(F))

\* eu_wait_spatz_wfe and _polling: events of others stay where they are.
SpatzCheck(F) ==
  /\ pc = "spatz_check"
  /\ EuSees(want) \/ fn = "spatz_wfe"
  /\ Go(IF EuSees(want) THEN "spatz_clear" ELSE "spatz_wait", {})
  /\ Finish(F) /\ EuIdle(Lines(F))

SpatzWait(F) ==
  /\ pc = "spatz_wait" /\ Go("spatz_check", {})
  /\ Finish(F) /\ eu_evt_wait(Lines(F))

SpatzClear(F) ==
  /\ pc = "spatz_clear" /\ Return(want)
  /\ Finish(F) /\ eu_clear_events(want, Lines(F))

\* A poll gives up: the single waits return 0, the multi-accelerator one what
\* it has seen so far.
PollTimeout ==
  /\ program.timeouts /\ pc \in {"poll", "multi_check"}
  /\ Return(acc) /\ UNCHANGED <<program, euVars, st>>

-----------------------------------------------------------------------------
CoreInCall(F) ==
  \/ InitAccess(F)
  \/ PollEnable(F) \/ PollCheck(F) \/ PollClear(F)
  \/ WfeEnable(F) \/ WfeWait(F) \/ WfeDisable(F) \/ LoadBusy(F)
  \/ MultiEnable(F) \/ MultiWait(F) \/ MultiCheck(F)
  \/ SpatzCheck(F) \/ SpatzWait(F) \/ SpatzClear(F)

Next ==
  \/ \E F \in SUBSET Running : Tick(F) \/ CoreInCall(F)
  \/ \E i \in program.inits : CallInit(i)
  \/ \E j \in Jobs : Start(j) \/ SeeDone(j)
  \/ \E f \in program.waits, jobs \in SUBSET Jobs : CallWait(f, jobs)
  \/ PollTimeout

Spec == Init /\ [][Next]_vars

Finishing(j) ==
  \E F \in SUBSET Running : j \in F /\ (Tick(F) \/ CoreInCall(F))

\* The core executes its instructions and every job ends.
Fairness ==
  /\ WF_vars(\E F \in SUBSET Running : CoreInCall(F))
  /\ \A j \in Jobs : WF_vars(Finishing(j))

FairSpec == Spec /\ Fairness

-----------------------------------------------------------------------------
(* Properties.                                                             *)

\* An event a wait returns belongs to a job that has finished since it was
\* started last: nothing stale is returned (event_unit_utils.h 209 to 253).
EventsFresh == \A j \in result.events \cap Jobs : st[j] = "done"

\* A wait for one job that returns an event returns after that job, although
\* blocking waits return for any event (event_unit_utils.h 209 to 253, 314 to
\* 317, hello_redmule_pulp/main.c 71 to 73).
AwaitedDone ==
  /\ result.fn \in {"polling", "wfe", "mask_wait", "idma_load", "spatz_wfe", "spatz_polling"}
  /\ result.events # {}
  => \A j \in result.want : st[j] = "done"

\* The event of a job that has finished is not lost before the job has been
\* waited for: it is latched, or the wait has seen it (event_unit_utils.h 209
\* to 253 and 423 to 452).  A blocking wait for one of several jobs swallows
\* the events of the others, so this is for programs that wait for one job at
\* a time or for all together.
NoLostEvent ==
  ~program.concurrent \/ program.waits \subseteq {"multi_wfe", "multi_polling"} =>
    \A j \in open : st[j] = "done" => j \in eu_buffer \cup acc

\* Every wait ends: the event it needs is still to come or still latched.
WaitEnds == pc # "ready" ~> pc = "ready"
=============================================================================
