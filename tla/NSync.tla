-------------------------------- MODULE NSync --------------------------------
(***************************************************************************)
(* The software barriers of the mesh at work: the tiles of a test run      *)
(* their accesses to the barrier words round after round.                  *)
(*                                                                         *)
(* An access is one step. A tile issues the next one only after the last   *)
(* was answered when the two go to different targets (the data             *)
(* demultiplexer drains one target before it turns to another), and the    *)
(* atomic increment is carried out at the memory.                          *)
(***************************************************************************)
EXTENDS Naturals, Sequences, FiniteSets

CONSTANTS
  Setups,    \* tests: tiles, what each executes, its group, number of rounds
  Words      \* barrier words per tile

\* A setup's root names a tile's group by one of its members.
WellFormed(s) ==
  /\ IsFiniteSet(s.tiles)
  /\ s.root \in [s.tiles -> s.tiles]
  /\ s.rounds \in Nat
  /\ \A t \in s.tiles :
       /\ s.prog[t] \in Seq([op : {"add", "await", "put"}, tile : s.tiles,
                             word : Words, value : Nat])
       /\ Len(s.prog[t]) >= 2

ASSUME NSyncAssumption == \A s \in Setups : WellFormed(s)

VARIABLES
  setup,   \* the test that runs
  round,   \* tile -> rounds it has left
  pc,      \* tile -> its next access of the round
  mem      \* tile -> word -> contents

vars == <<setup, round, pc, mem>>

Tiles   == setup.tiles
Prog(t) == setup.prog[t]
Rounds  == setup.rounds

TypeOK ==
  /\ setup \in Setups
  /\ round \in [Tiles -> Nat]
  /\ \A t \in Tiles : round[t] <= Rounds
  /\ pc \in [Tiles -> Nat \ {0}]
  /\ \A t \in Tiles : pc[t] <= Len(Prog(t))
  /\ mem \in [Tiles -> [Words -> Nat]]

Init ==
  /\ setup \in Setups
  /\ round = [t \in Tiles |-> 0]
  /\ pc = [t \in Tiles |-> 1]
  /\ mem = [t \in Tiles |-> [w \in Words |-> 0]]

-----------------------------------------------------------------------------

Current(t) == Prog(t)[pc[t]]

LastAccess(t) == pc[t] = Len(Prog(t))

\* The access before the current one.
Previous(t) == Prog(t)[pc[t] - 1]

Advance(t) ==
  /\ pc' = [pc EXCEPT ![t] = IF LastAccess(t) THEN 1 ELSE @ + 1]
  /\ round' = [round EXCEPT ![t] = IF LastAccess(t) THEN @ + 1 ELSE @]
  /\ UNCHANGED setup

\* Fault: one round too many.
RunningOnceMore(t) == round[t] <= Rounds

Running(t) == round[t] < Rounds

\* Fault: the word is read once, not until it has the value.
PollOnce(t) ==
  /\ Running(t)
  /\ Current(t).op = "await"
  /\ Advance(t)
  /\ UNCHANGED mem

\* Fault: the first request ends the wait.
PollAny(t) ==
  LET a == Current(t) IN
  /\ Running(t)
  /\ a.op = "await" /\ mem[a.tile][a.word] # 0
  /\ Advance(t)
  /\ UNCHANGED mem

\* while (mmio32(word) < value);
Poll(t) ==
  LET a == Current(t) IN
  /\ Running(t)
  /\ a.op = "await" /\ mem[a.tile][a.word] >= a.value
  /\ Advance(t)
  /\ UNCHANGED mem

\* mmio32(word) = value
Store(t) ==
  LET a == Current(t) IN
  /\ Running(t)
  /\ a.op = "put"
  /\ mem' = [mem EXCEPT ![a.tile][a.word] = a.value]
  /\ Advance(t)

\* Fault: the increment is not atomic, it stores the value it should add.
AddStores(t) ==
  LET a == Current(t) IN
  /\ Running(t)
  /\ a.op = "add"
  /\ mem' = [mem EXCEPT ![a.tile][a.word] = a.value]
  /\ Advance(t)

\* amoadd.w
Add(t) ==
  LET a == Current(t) IN
  /\ Running(t)
  /\ a.op = "add"
  /\ mem' = [mem EXCEPT ![a.tile][a.word] = @ + a.value]
  /\ Advance(t)

Next == \E t \in Tiles : Poll(t) \/ Store(t) \/ Add(t)

Safe == Init /\ [][Next]_vars

\* Some core runs on as long as one can; each step brings the end nearer, so
\* nothing more is needed.
Fairness == WF_vars(Next)

Spec == Safe /\ Fairness

-----------------------------------------------------------------------------

Entered(t) == round[t] + IF pc[t] > 1 THEN 1 ELSE 0

\* The barrier the test promises: a tile enters with its first access.
Promise == INSTANCE Barrier WITH
  group   <- [r \in 1..Rounds |-> setup.root],
  entered <- [t \in Tiles |-> Entered(t)],
  left    <- round

\* No tile leaves a round that a tile of its group has not entered, whatever
\* the order of requests, resets and answers (nsync_naive_test.c:46-70 and the
\* other tests' barriers).
ImplementsBarrier == Promise!Safe

\* A plain store discards nothing: the reset of a counter wipes out exactly
\* the requests its tile awaited, none that came since, and a flag is stored
\* only where the last one was consumed (nsync_naive_test.c:51, "No need for
\* AMOs (single source write)" in the hyper tests).
NothingOverwritten ==
  [][\A t \in Tiles : Store(t) =>
       LET a == Current(t)
       IN  mem[a.tile][a.word] = IF a.value = 0 THEN Previous(t).value ELSE 0]_vars

\* Every tile gets through all the rounds of its test: no request, answer or
\* flag is lost, and nobody waits for somebody who waits for him.
EveryoneLeaves == <>(\A t \in Tiles : round[t] = Rounds)
=============================================================================
