-------------------------------- MODULE FSync --------------------------------
(***************************************************************************)
(* Barriers in hardware: the FractalSync control block of each tile        *)
(* (hw/tile/obi_slave_fsync.sv) and the programs of the tests, over the    *)
(* synchronisation network, whose geometry is FSyncMesh.  A node joins     *)
(* requests of its two children that have the same id, and at the last     *)
(* level all the tiles behind them are woken.                              *)
(***************************************************************************)
EXTENDS Naturals, Sequences, FiniteSets

CONSTANT Programs   \* mesh side, tiles that run, their patterns in turn

IsPower(n) == \E k \in 1..n : n = 2^k

ASSUME FSyncAssumption ==
  \A p \in Programs :
    /\ p.n \in Nat \ {0} /\ IsPower(p.n)
    /\ p.tiles \subseteq 0..(p.n * p.n - 1)
    /\ p.patterns \in Seq({"hnbr", "vnbr", "hring", "vring", "rows", "cols", "global"})

VARIABLES
  program,   \* the program that runs
  round,     \* tile -> patterns it is through with
  waiting,   \* tiles that have called fsync_mm and not returned from the wait
  event,     \* tiles whose done event is latched
  state,     \* tile -> state of its control block
  requests,  \* requests in the network, waiting at a node
  woken      \* tiles whose wake is on its way

vars == <<program, round, waiting, event, state, requests, woken>>

Tiles == program.tiles
N == program.n
Mesh(n) == INSTANCE FSyncMesh WITH N <- n

-----------------------------------------------------------------------------
(* Requests in the network.                                               *)

Above(p, l) == Mesh(N)!Above(p, l)

Request(p, tiles, l) ==
  [pattern |-> p, level |-> Mesh(N)!Lowest(Above(p, l)), tiles |-> tiles]

\* Two requests that have come to one node from its two children.
Meet(a, b) ==
  /\ a.pattern = b.pattern /\ a.level = b.level
  /\ \E t \in a.tiles, u \in b.tiles :
       Mesh(N)!Siblings(Mesh(N)!Port(a.pattern), a.level, t, u)

Join(a, b) ==
  LET all == a.tiles \cup b.tiles IN
  /\ Meet(a, b)
  /\ IF Above(a.pattern, a.level) = {}
     THEN requests' = requests \ {a, b} /\ woken' = woken \cup all
     ELSE /\ requests' = (requests \ {a, b}) \cup {Request(a.pattern, all, a.level)}
          /\ UNCHANGED woken
  /\ UNCHANGED <<program, round, waiting, event, state>>

-----------------------------------------------------------------------------
(* The tile: its control block and its program.                            *)

Init ==
  /\ program \in Programs
  /\ round = [t \in Tiles |-> 0]
  /\ waiting = {} /\ event = {}
  /\ state = [t \in Tiles |-> "IDLE"]
  /\ requests = {} /\ woken = {}

\* Fault: the trigger is written before the registers of the pattern.
CurrentLate(t) == program.patterns[IF round[t] = 0 THEN 1 ELSE round[t]]

Current(t) == program.patterns[round[t] + 1]

\* Clear the events, enable FSYNC_DONE, write AGGR, ID and CONTROL. Only an
\* idle block takes the trigger; in the next cycle, before another write can
\* reach the registers, SYNC sends the request.
Call(t) ==
  /\ t \notin waiting /\ round[t] < Len(program.patterns)
  /\ waiting' = waiting \cup {t}
  /\ event' = event \ {t}
  /\ IF state[t] = "IDLE"
     THEN /\ state' = [state EXCEPT ![t] = "WAIT"]
          /\ requests' = requests \cup {Request(Mesh(N)!fsync_mm(Current(t), t), {t}, 0)}
     ELSE UNCHANGED <<state, requests>>
  /\ UNCHANGED <<program, round, woken>>

\* Fault: the wake stays on.
WakeKeeps(t) ==
  /\ t \in woken /\ state[t] = "WAIT"
  /\ state' = [state EXCEPT ![t] = "DONE"]
  /\ UNCHANGED <<program, round, waiting, event, requests, woken>>

Wake(t) ==
  /\ t \in woken /\ state[t] = "WAIT"
  /\ woken' = woken \ {t}
  /\ state' = [state EXCEPT ![t] = "DONE"]
  /\ UNCHANGED <<program, round, waiting, event, requests>>

\* Fault: the pulse passes before it is latched.
DoneMissed(t) ==
  /\ state[t] = "DONE"
  /\ state' = [state EXCEPT ![t] = "IDLE"]
  /\ UNCHANGED <<program, round, waiting, event, requests, woken>>

\* done is high for this cycle and the Event Unit latches it.
Done(t) ==
  /\ state[t] = "DONE"
  /\ state' = [state EXCEPT ![t] = "IDLE"]
  /\ event' = event \cup {t}
  /\ UNCHANGED <<program, round, waiting, requests, woken>>

\* Fault: the caller relies on fsync_mm to wait.
ReturnAtOnce(t) ==
  /\ t \in waiting
  /\ waiting' = waiting \ {t}
  /\ event' = event \ {t}
  /\ round' = [round EXCEPT ![t] = @ + 1]
  /\ UNCHANGED <<program, state, requests, woken>>

\* eu_fsync_wait_completion returns and has cleared the event. fsync_mm itself
\* does not wait: its loop on STATUS is compiled out.
Return(t) ==
  /\ t \in waiting /\ t \in event
  /\ waiting' = waiting \ {t}
  /\ event' = event \ {t}
  /\ round' = [round EXCEPT ![t] = @ + 1]
  /\ UNCHANGED <<program, state, requests, woken>>

Next ==
  \/ \E t \in Tiles : Call(t) \/ Wake(t) \/ Done(t) \/ Return(t)
  \/ \E a, b \in requests : Join(a, b)

\* Something moves as long as something can: every core runs on and the network
\* delivers. Each step brings the end nearer.
Spec == Init /\ [][Next]_vars /\ WF_vars(Next)

-----------------------------------------------------------------------------
(* Properties.                                                             *)

TypeOK ==
  /\ program \in Programs
  /\ round \in [Tiles -> 0..Len(program.patterns)]
  /\ waiting \subseteq Tiles /\ event \subseteq Tiles
  /\ state \in [Tiles -> {"IDLE", "WAIT", "DONE"}]
  /\ woken \subseteq {t \in Tiles : state[t] = "WAIT"}
  /\ \A q \in requests : q.tiles \subseteq {t \in Tiles : state[t] = "WAIT"}

Promise == INSTANCE Barrier WITH
  group   <- [r \in DOMAIN program.patterns |->
                [t \in Tiles |-> Mesh(N)!Group(program.patterns[r], t)]],
  entered <- [t \in Tiles |-> round[t] + IF t \in waiting THEN 1 ELSE 0],
  left    <- round

\* Each pattern is a barrier of the tiles its name says: no tile returns from
\* its wait before its whole row, column, ring pair, .. has called, although
\* requests of other groups and of the patterns before and after are in the
\* network (fsync_mm_api.h:27-91, fsync_test_event_unit.c).
ImplementsBarrier == Promise!Safe

\* A trigger is never ignored: the control block is idle whenever fsync_mm is
\* called, so no request of the program is lost (obi_slave_fsync.sv:217-223).
TriggerTaken == [][\A t \in Tiles : Call(t) => state[t] = "IDLE"]_vars

\* Everybody gets through all the patterns: no tile is left out of a
\* rendez-vous, and no done pulse is missed.
EveryoneReturns == <>(\A t \in Tiles : round[t] = Len(program.patterns))
=============================================================================
