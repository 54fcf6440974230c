-------------------------- MODULE DataDemuxProofs --------------------------
(***************************************************************************)
(* Theorems about DataDemux, for any number of accesses, and for both      *)
(* cores: whatever the paths' delays and whenever the core's clock stops,  *)
(* no response is dropped and none overtakes another.                      *)
(***************************************************************************)
EXTENDS DataDemux, TLAPS

USE IssueAssumption

Other(p) == IF p = "xbar" THEN "eu" ELSE "xbar"

\* What a path owes: no access, access n, or the accesses n and n + 1. An
\* access is on the path or its response is captured. The second of two stays
\* away from the capture register as long as the first one is in it.
None(p)   == path[p] = {} /\ cap[p] = 0
One(p, n) == \/ path[p] = {n} /\ cap[p] = 0
             \/ path[p] = {} /\ cap[p] = n
Two(p, n) == \/ path[p] = {n, n + 1} /\ cap[p] = 0
             \/ path[p] = {n + 1} /\ cap[p] = n /\ n + 1 \in held

\* The order FIFO says which path owes which access.
OrderInv ==
  LET p == arriving_order[1]
      q == arriving_order[0]
  IN  /\ num_outstanding = 0 => None("xbar") /\ None("eu")
      /\ num_outstanding = 1 => One(q, got + 1) /\ None(Other(q))
      /\ num_outstanding = 2 /\ p = q => Two(q, got + 1) /\ None(Other(q))
      /\ num_outstanding = 2 /\ p # q => One(p, got + 1) /\ One(q, got + 2)

CountInv == num_outstanding = issued - got

\* While the core's clock is off, the access issued last is the wait access,
\* and it cannot be answered yet.
SleepInv == ~core_clock_en => slept = issued /\ issued \in path["eu"] \cap held

IInv == DemuxTypeOK /\ CountInv /\ OrderInv /\ SleepInv

-----------------------------------------------------------------------------
(* A cycle on one path.                                                    *)

Pushes(p, req, rsp) == Granted(req, rsp) /\ req = p
Pops(p, rsp) == RespValid(rsp) /\ head = p

\* What the cycle does to path p and to its capture register.
LEMMA PathStep ==
  ASSUME DemuxTypeOK, NEW req \in Requests, NEW rsp \in Rsps, Cycle(req, rsp),
         NEW p \in Paths
  PROVE  /\ rsp[p] \in Nat
         /\ rsp[p] # 0 => rsp[p] \in path[p] /\ rsp[p] \notin held
         /\ \A n \in path[p] : rsp[p] <= n
         /\ path'[p] = (path[p] \ {rsp[p]})
                         \cup IF Pushes(p, req, rsp) THEN {issued + 1} ELSE {}
         /\ cap'[p] = IF rsp[p] # 0 /\ num_outstanding # 0 /\ (head # p \/ ~core_clock_en)
                      THEN rsp[p] ELSE IF Pops(p, rsp) THEN 0 ELSE cap[p]
         /\ Pushes(p, req, rsp) => issued + 1 \in held' /\ core_clock_en
         /\ RespValid(rsp) => core_clock_en
         /\ Pops(p, rsp) <=> /\ num_outstanding # 0 /\ core_clock_en /\ head = p
                             /\ rsp[p] # 0 \/ cap[p] # 0
<1>1. rsp[p] \in 0 .. MaxIssue
  BY DEF Rsps
<1>2. cap[p] \in Nat /\ path[p] \in SUBSET Nat
  BY DEF DemuxTypeOK
<1>3. /\ rsp[p] # 0 => rsp[p] \in path[p] /\ rsp[p] \notin held
      /\ \A n \in path[p] : rsp[p] <= n
  BY <1>1, <1>2 DEF Cycle, Answers
<1>4. path'[p] = (path[p] \ {rsp[p]})
                   \cup IF Pushes(p, req, rsp) THEN {issued + 1} ELSE {}
  BY DEF Cycle, Pushes
<1>5. cap'[p] = IF rsp[p] # 0 /\ num_outstanding # 0 /\ (head # p \/ ~core_clock_en)
                THEN rsp[p] ELSE IF Pops(p, rsp) THEN 0 ELSE cap[p]
  BY DEF Cycle, Capture, Pops
<1>6. Pushes(p, req, rsp) => issued + 1 \in held' /\ core_clock_en
  BY DEF Cycle, Pushes, Hold, Cut, Granted
<1>7. /\ RespValid(rsp) => core_clock_en
      /\ Pops(p, rsp) <=> /\ num_outstanding # 0 /\ core_clock_en /\ head = p
                          /\ rsp[p] # 0 \/ cap[p] # 0
  BY DEF Pops, RespValid, Eff
<1> QED
  BY <1>1, <1>3, <1>4, <1>5, <1>6, <1>7

\* A path that owes nothing.
LEMMA NoneStep ==
  ASSUME DemuxTypeOK, NEW req \in Requests, NEW rsp \in Rsps, Cycle(req, rsp),
         NEW p \in Paths, NEW m \in Nat, m = issued + 1, None(p)
  PROVE  /\ ~Pops(p, rsp)
         /\ IF Pushes(p, req, rsp) THEN One(p, m)' ELSE None(p)'
BY PathStep DEF None, One

\* A path that owes one access: it keeps it until it is the head's turn.
LEMMA OneStep ==
  ASSUME DemuxTypeOK, NEW req \in Requests, NEW rsp \in Rsps, Cycle(req, rsp),
         NEW p \in Paths, NEW m \in Nat, m = issued + 1,
         NEW n \in Nat \ {0}, One(p, n), num_outstanding # 0,
         n <= issued, issued \in Nat
  PROVE  /\ ~Pushes(p, req, rsp) => IF Pops(p, rsp) THEN None(p)' ELSE One(p, n)'
         /\ Pushes(p, req, rsp) =>
              IF Pops(p, rsp) THEN One(p, m)'
              ELSE n = issued => Two(p, n)'
         /\ Pops(p, rsp) => Eff(p, rsp) = n
<1>1. rsp[p] \in {0, n}
  BY PathStep DEF One
<1>2. rsp[p] = n => path[p] = {n} /\ cap[p] = 0
  BY PathStep DEF One
<1>3. Pops(p, rsp) => path[p] \ {rsp[p]} = {} /\ cap'[p] = 0 /\ Eff(p, rsp) = n
  BY <1>1, <1>2, PathStep DEF One, Eff
<1>4. ~Pops(p, rsp) =>
        \/ path[p] \ {rsp[p]} = {n} /\ cap'[p] = 0
        \/ path[p] \ {rsp[p]} = {} /\ cap'[p] = n
  <2>1. CASE rsp[p] = n
    BY <1>2, <2>1, PathStep
  <2>2. CASE rsp[p] = 0
    BY <2>2, PathStep DEF One
  <2> QED
    BY <1>1, <2>1, <2>2
<1> QED
  BY <1>3, <1>4, PathStep DEF None, One, Two

\* A path that owes both accesses: they come one after the other.
LEMMA TwoStep ==
  ASSUME IInv, NEW req \in Requests, NEW rsp \in Rsps, Cycle(req, rsp),
         NEW p \in Paths, NEW n \in Nat \ {0}, Two(p, n), num_outstanding = 2, head = p,
         n + 1 = issued
  PROVE  /\ ~Pops(p, rsp) => ~Pushes(p, req, rsp) /\ Two(p, n)'
         /\ Pops(p, rsp) => IF Pushes(p, req, rsp) THEN Two(p, n + 1)'
                            ELSE One(p, n + 1)'
         /\ Pops(p, rsp) => Eff(p, rsp) = n
<1>0. DemuxTypeOK
  BY DEF IInv
<1>1. rsp[p] \in {0, n}
  BY <1>0, PathStep DEF Two
<1>2. rsp[p] = n => path[p] = {n, n + 1} /\ cap[p] = 0
  BY <1>0, PathStep DEF Two
<1>3. Pops(p, rsp) => path[p] \ {rsp[p]} = {n + 1} /\ cap'[p] = 0 /\ Eff(p, rsp) = n
  <2>1. CASE rsp[p] = n
    BY <1>0, <1>2, <2>1, PathStep DEF Eff
  <2>2. CASE rsp[p] = 0
    BY <1>0, <2>2, PathStep DEF Two, Eff
  <2> QED
    BY <1>1, <2>1, <2>2
<1>4. ASSUME ~Pops(p, rsp)
      PROVE  ~Pushes(p, req, rsp) /\ Two(p, n)'
  <2>1. ~Pushes(p, req, rsp)
    BY <1>4 DEF Pushes, Granted, CanIssue, Pops
  <2>2. CASE core_clock_en
    <3>1. rsp[p] = 0 /\ cap[p] = 0
      BY <1>0, <1>4, <2>2, PathStep
    <3> QED
      BY <1>0, <1>4, <2>1, <3>1, PathStep DEF Two
  <2>3. CASE ~core_clock_en
    <3>1. n + 1 \in held'
      BY <2>3 DEF IInv, SleepInv, Cycle, Hold, StopClock, StartClock, KeepClock
    <3>2. CASE rsp[p] = n
      BY <1>0, <1>2, <2>1, <2>3, <3>1, <3>2, PathStep DEF Two
    <3>3. CASE rsp[p] = 0
      BY <1>0, <1>4, <2>1, <3>1, <3>3, PathStep DEF Two
    <3> QED
      BY <1>1, <3>2, <3>3
  <2> QED
    BY <2>2, <2>3
<1> QED
  BY <1>0, <1>3, <1>4, PathStep DEF One, Two

-----------------------------------------------------------------------------
(* A cycle of the order FIFO.                                              *)

LEMMA TypeStep ==
  ASSUME DemuxTypeOK, NEW req \in Requests, NEW rsp \in Rsps, Cycle(req, rsp),
         num_outstanding' \in 0 .. 2
  PROVE  DemuxTypeOK'
<1> USE DEF DemuxTypeOK, Rsps, Paths, Requests
<1>1. issued' \in Nat
  BY DEF Cycle
<1>7. core_clock_en' \in BOOLEAN /\ slept' \in Nat
  <2>1. StopClock \/ StartClock \/ KeepClock
    BY DEF Cycle
  <2>2. CASE StopClock
    BY <1>1, <2>2 DEF StopClock
  <2>3. CASE StartClock \/ KeepClock
    BY <2>3 DEF StartClock, KeepClock
  <2> QED
    BY <2>1, <2>2, <2>3
<1>2. arriving_order' \in [{0, 1} -> Paths]
  BY DEF Cycle, Fifo, Granted
<1>3. cap' \in [Paths -> Nat]
  BY DEF Cycle, Capture
<1>4. path' \in [Paths -> SUBSET Nat]
  BY <1>1 DEF Cycle
<1>5. held' \subseteq Nat
  BY <1>1, <1>7 DEF Cycle, Hold, Cut
<1>6. got' \in Nat
  <2>1. head \in Paths
    BY DEF head
  <2>2. Eff(head, rsp) \in Nat
    BY <2>1 DEF Eff
  <2> QED
    BY <2>2 DEF Cycle, Respond
<1> QED
  BY <1>1, <1>2, <1>3, <1>4, <1>5, <1>6, <1>7

\* The FIFO's view of a cycle.
LEMMA FifoStep ==
  ASSUME IInv, NEW req \in Requests, NEW rsp \in Rsps, Cycle(req, rsp)
  PROVE  LET push == Granted(req, rsp)
             pop  == RespValid(rsp)
         IN  /\ push \in BOOLEAN /\ pop \in BOOLEAN /\ (push => req \in Paths)
             /\ issued' = IF push THEN issued + 1 ELSE issued
             /\ num_outstanding' = IF push = pop THEN num_outstanding
                                   ELSE IF push THEN num_outstanding + 1
                                        ELSE num_outstanding - 1
             /\ arriving_order'[0] = IF push THEN req ELSE arriving_order[0]
             /\ arriving_order'[1] = IF push # pop \/ (push /\ num_outstanding = 2)
                                     THEN arriving_order[0] ELSE arriving_order[1]
             /\ got' = IF pop THEN Eff(head, rsp) ELSE got
             /\ num_outstanding = 2 /\ push => pop
             /\ pop => num_outstanding # 0
             /\ \A p \in Paths : /\ Pushes(p, req, rsp) <=> push /\ req = p
                                 /\ Pops(p, rsp) <=> pop /\ head = p
<1>1. Granted(req, rsp) => req \in Paths
  BY DEF Granted, Requests
<1>2. RespValid(rsp) => core_clock_en /\ num_outstanding # 0
  BY DEF RespValid
<1>3. arriving_order \in [{0, 1} -> Paths] /\ num_outstanding \in 0 .. 2
  BY DEF IInv, DemuxTypeOK
<1>4. num_outstanding = 2 /\ Granted(req, rsp) => RespValid(rsp)
  BY DEF Granted, CanIssue
<1>5. Granted(req, rsp) \in BOOLEAN /\ RespValid(rsp) \in BOOLEAN
  BY DEF Granted, RespValid
<1>6. got' = IF RespValid(rsp) THEN Eff(head, rsp) ELSE got
  BY <1>2 DEF Cycle, Respond
<1>7. issued' = IF Granted(req, rsp) THEN issued + 1 ELSE issued
  BY DEF Cycle
<1> QED
  BY <1>1, <1>2, <1>4, <1>5, <1>6, <1>7 DEF Cycle, Fifo, Pushes, Pops

\* Counts and order, for no, one and two accesses outstanding.
LEMMA OrderStep ==
  ASSUME IInv, NEW req \in Requests, NEW rsp \in Rsps, Cycle(req, rsp)
  PROVE  /\ num_outstanding' \in 0 .. 2 /\ CountInv' /\ OrderInv'
         /\ RespValid(rsp) => got' = got + 1
<1> DEFINE push == Granted(req, rsp)
           pop  == RespValid(rsp)
<1>0. PICK n \in Nat \ {0}, m \in Nat : n = got + 1 /\ m = issued + 1
  BY DEF IInv, DemuxTypeOK
<1>1. /\ DemuxTypeOK /\ num_outstanding \in 0 .. 2 /\ issued \in Nat /\ got \in Nat
      /\ arriving_order[0] \in Paths /\ arriving_order[1] \in Paths
      /\ num_outstanding = issued - got
  BY DEF IInv, DemuxTypeOK, CountInv
<1>3. CASE num_outstanding = 0
  <2>1. None("xbar") /\ None("eu") /\ ~pop
    BY <1>3, FifoStep DEF IInv, OrderInv
  <2>2. \A p \in Paths : IF push /\ req = p THEN One(p, m)' ELSE None(p)'
    BY <1>0, <1>1, <2>1, NoneStep, FifoStep DEF Paths
  <2> QED
    BY <1>0, <1>1, <1>3, <2>1, <2>2, FifoStep DEF OrderInv, CountInv, Paths, Other
<1>4. CASE num_outstanding = 1
  <2>0. PICK p \in Paths, q \in Paths : p = arriving_order[0] /\ q = Other(p)
    BY <1>1 DEF Other, Paths
  <2>1. One(p, n) /\ None(q) /\ head = p /\ n = issued /\ p # q
    BY <1>0, <1>1, <1>4, <2>0 DEF IInv, OrderInv, head, Other, Paths
  <2>2. /\ ~(push /\ req = p) => IF pop THEN None(p)' ELSE One(p, n)'
        /\ push /\ req = p => IF pop THEN One(p, m)' ELSE Two(p, n)'
        /\ pop => Eff(p, rsp) = n
    BY <1>0, <1>1, <1>4, <2>1, OneStep, FifoStep
  <2>3. IF push /\ req = q THEN One(q, m)' ELSE None(q)'
    BY <1>0, <1>1, <2>1, NoneStep, FifoStep
  <2> QED
    BY <1>0, <1>1, <1>4, <2>0, <2>1, <2>2, <2>3, FifoStep
       DEF OrderInv, CountInv, Paths, Other
<1>5. CASE num_outstanding = 2
  <2>0. PICK p \in Paths, q \in Paths : p = arriving_order[1] /\ q = arriving_order[0]
    BY <1>1
  <2>1. head = p /\ n + 1 = issued
    BY <1>0, <1>1, <1>5, <2>0 DEF head
  <2>2. CASE p = q
    <3>0. PICK o \in Paths : o = Other(p) /\ o # p
      BY DEF Other, Paths
    <3>1. Two(p, n) /\ None(o)
      BY <1>0, <1>5, <2>0, <2>1, <2>2, <3>0 DEF IInv, OrderInv
    <3>2. /\ ~pop => ~(push /\ req = p) /\ Two(p, n)'
          /\ pop => IF push /\ req = p THEN Two(p, n + 1)' ELSE One(p, n + 1)'
          /\ pop => Eff(p, rsp) = n
      BY <1>0, <1>1, <1>5, <2>1, <3>1, TwoStep, FifoStep
    <3>3. IF push /\ req = o THEN One(o, m)' ELSE None(o)'
      BY <1>0, <1>1, <3>1, NoneStep, FifoStep
    <3> QED
      BY <1>0, <1>1, <1>5, <2>0, <2>1, <2>2, <3>0, <3>2, <3>3, FifoStep
         DEF OrderInv, CountInv, Paths, Other
  <2>3. CASE p # q
    <3>1. One(p, n) /\ One(q, n + 1)
      BY <1>0, <1>1, <1>5, <2>0, <2>3 DEF IInv, OrderInv
    <3>2. /\ ~(push /\ req = p) => IF pop THEN None(p)' ELSE One(p, n)'
          /\ push /\ req = p => One(p, m)'
          /\ pop => Eff(p, rsp) = n
      BY <1>0, <1>1, <1>5, <2>1, <3>1, OneStep, FifoStep
    <3>3. /\ ~(push /\ req = q) => One(q, n + 1)'
          /\ push /\ req = q => Two(q, n + 1)'
      BY <1>0, <1>1, <1>5, <2>1, <2>3, <3>1, OneStep, FifoStep
    <3> QED
      BY <1>0, <1>1, <1>5, <2>0, <2>1, <2>3, <3>2, <3>3, FifoStep
         DEF OrderInv, CountInv, Paths, Other
  <2> QED
    BY <2>2, <2>3
<1> QED
  BY <1>1, <1>3, <1>4, <1>5

\* The access the core sleeps on stays on its path until the clock is back.
LEMMA SleepStep ==
  ASSUME IInv, NEW req \in Requests, NEW rsp \in Rsps, Cycle(req, rsp)
  PROVE  SleepInv'
<1> SUFFICES ASSUME ~core_clock_en'
             PROVE  slept' = issued' /\ issued' \in path'["eu"] \cap held'
  BY DEF SleepInv
<1>1. slept' \in held'
  BY DEF Cycle, Hold
<1>2. CASE core_clock_en
  BY <1>1, <1>2 DEF Cycle, StopClock, StartClock, KeepClock, IInv, DemuxTypeOK
<1>3. CASE ~core_clock_en
  <2>1. slept' = slept /\ issued' = issued /\ ~Granted(req, rsp)
    BY <1>3 DEF Cycle, StopClock, StartClock, KeepClock, Granted, IInv, DemuxTypeOK
  <2>2. slept = issued /\ issued \in path["eu"] \cap held
    BY <1>3 DEF IInv, SleepInv
  <2>3. 0 \notin path["eu"]
    BY DEF IInv, OrderInv, DemuxTypeOK, None, One, Two, Other, Paths
  <2>4. "eu" \in Paths /\ rsp["eu"] # issued
    BY <2>2, <2>3, PathStep DEF IInv, Paths
  <2> QED
    BY <1>1, <2>1, <2>2, <2>4, PathStep DEF IInv, Pushes
<1> QED
  BY <1>2, <1>3

-----------------------------------------------------------------------------
(* The theorems.                                                           *)

LEMMA InitInv == ASSUME DemuxInit PROVE IInv
<1>1. DemuxTypeOK
  BY DEF DemuxInit, DemuxTypeOK, Paths
<1> QED
  BY <1>1 DEF DemuxInit, IInv, CountInv, OrderInv, SleepInv, None, Paths

LEMMA NextStep ==
  ASSUME IInv, [DemuxNext]_portVars
  PROVE  IInv' /\ (got' # got => got' = got + 1)
<1>1. CASE DemuxNext
  <2>1. PICK req \in Requests, rsp \in Rsps : Cycle(req, rsp)
    BY <1>1 DEF DemuxNext
  <2>2. IInv'
    BY <2>1, OrderStep, SleepStep, TypeStep DEF IInv
  <2>3. ~RespValid(rsp) => got' = got
    BY <2>1, FifoStep
  <2> QED
    BY <2>1, <2>2, <2>3, OrderStep
<1>2. CASE UNCHANGED portVars
  BY <1>2 DEF IInv, portVars, demuxVars, tileVars, DemuxTypeOK, CountInv, OrderInv, SleepInv,
              None, One, Two
<1> QED
  BY <1>1, <1>2

\* The order FIFO, the capture registers, the paths and the sleeping core fit
\* together, for any number of accesses.
THEOREM InvariantHolds == DemuxSpec => []IInv
<1>1. DemuxInit => IInv
  BY InitInv
<1>2. IInv /\ [DemuxNext]_portVars => IInv'
  BY NextStep
<1> QED
  BY <1>1, <1>2, PTL DEF DemuxSpec

\* Types: the demultiplexer never counts more than two accesses.
THEOREM TypeCorrect == DemuxSpec => []DemuxTypeOK
<1>1. IInv => DemuxTypeOK
  BY DEF IInv
<1> QED
  BY <1>1, InvariantHolds, PTL

\* A response that finds the core asleep, or an older access outstanding, is
\* kept: no access is lost between its path and the core, and none is there
\* twice.
THEOREM NoResponseDropped == DemuxSpec => []NothingDropped
<1>1. IInv => NothingDropped
  <2> SUFFICES ASSUME IInv
               PROVE  NothingDropped
    OBVIOUS
  <2> DEFINE captured == {cap[p] : p \in Paths} \ {0}
  <2>1. /\ num_outstanding \in 0 .. 2 /\ issued \in Nat /\ got \in Nat
        /\ arriving_order[0] \in Paths /\ arriving_order[1] \in Paths
        /\ num_outstanding = issued - got
    BY DEF IInv, DemuxTypeOK, CountInv
  <2>2. captured = {cap["xbar"], cap["eu"]} \ {0}
    BY DEF Paths
  <2>3. CASE num_outstanding = 0
    <3>1. {k \in 1 .. issued : k > got} = {}
      BY <2>1, <2>3
    <3> QED
      BY <2>2, <2>3, <3>1 DEF IInv, OrderInv, NothingDropped, None
  <2>4. CASE num_outstanding = 1
    <3>1. {k \in 1 .. issued : k > got} = {got + 1}
      BY <2>1, <2>4
    <3> QED
      BY <2>1, <2>2, <2>4, <3>1
         DEF IInv, OrderInv, NothingDropped, None, One, Other, Paths
  <2>5. CASE num_outstanding = 2
    <3>1. {k \in 1 .. issued : k > got} = {got + 1, got + 2}
      BY <2>1, <2>5
    <3>2. CASE arriving_order[1] = arriving_order[0]
      BY <2>1, <2>2, <2>5, <3>1, <3>2
         DEF IInv, OrderInv, NothingDropped, None, Two, Other, Paths
    <3>3. CASE arriving_order[1] # arriving_order[0]
      BY <2>1, <2>2, <2>5, <3>1, <3>3
         DEF IInv, OrderInv, NothingDropped, One, Other, Paths
    <3> QED
      BY <3>2, <3>3
  <2> QED
    BY <2>1, <2>3, <2>4, <2>5
<1> QED
  BY <1>1, InvariantHolds, PTL

\* The core takes the responses in the order in which it issued the accesses,
\* each of them once.
THEOREM ResponsesInOrder == DemuxSpec => InOrder
<1>1. IInv /\ [DemuxNext]_portVars => [got' # got => got' = got + 1]_portVars
  BY NextStep
<1> QED
  BY <1>1, InvariantHolds, PTL DEF DemuxSpec, InOrder
=============================================================================
