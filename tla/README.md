# MAGIA: models, checks and proofs

MAGIA is a mesh of compute tiles. The repository holds the SystemVerilog of the
tile and the mesh, and the bare-metal C and assembly that drives a tile. This
directory models the parts where several actors share state (cores that write
the same registers, responses that overtake each other, clocks that stop, tiles
that wait for each other) and checks them with TLC; what matters most is proved
with TLAPS for every value of the parameters.

## The system

A tile has one main core (CV32E40P, or CV32E40X), the accelerators RedMulE,
iDMA and FractalSync, a Spatz vector core, a cluster of eight PULP worker
cores, an L1 memory, an Event Unit and crossbars.

| Part | State | Operations | Hard because | Correct when |
|---|---|---|---|---|
| Cluster registers `hw/tile/obi_slave_ctrl_cluster.sv` | 8 registers, counters of DONE, ACK and READY, one-cycle pulses | one access per cycle; two quorum comparisons every cycle | eight anonymous writers; counters and quorum are written at different times | a quorum stands for this dispatch's members |
| Interrupt latch, `hw/tile/magia_tile.sv` 2184-2204 | a bit per worker | set by the pulse, cleared by the acknowledge | set and clear in one cycle | no dispatch is lost or taken twice |
| Cluster API `sw/utils/magia_pulp_utils.h`, `cluster_utils.h` | the caller's place | boot, arm, dispatch, wait, stop | a sequence of accesses, each a window | dispatch and wait are a fork and a join |
| Worker runtime `sw/kernel_pulp/pulp_crt0.S` | each worker's place and registers | boot, handler | interrupts enabled before READY; clock gated anywhere | a task runs once, with its argument |
| Event Unit and its use, `sw/utils/event_unit_utils.h` | event buffer and mask | initialise, enable, clear, look, wait | events latch, may be stale, and are shared by all accelerators | a wait returns for its own event, and returns |
| Data demultiplexer `hw/tile/core_data_demux_eu_direct.sv` | a FIFO of two destinations, a capture register per path | request, response | two paths of any latency; the clock stops during an event wait | responses in the order of issue, none lost |
| Spatz registers, API, runtime: `obi_slave_ctrl_spatz.sv`, `magia_spatz_utils.h`, `spatz_crt0.S` | 7 registers, both cores' places | init, dispatch, handler, exception | a level interrupt cleared by its handler; a READY written before the first `wfi` | a task runs once with its own parameters and its result is reported |
| iDMA control `idma_*.sv`, `idma_mm_utils.h` | registers, job queue and counters of two channels | configure, start, wait | two channels numbered alike, a queue that fills up, registers that keep their values | a wait returns after its transfer; a transfer is the one asked for |
| FractalSync block `obi_slave_fsync.sv`, `fsync_mm_api.h` | two registers and a state machine per tile | configure, trigger, wait | requests of several groups in one network; a trigger while busy is ignored | no tile leaves a barrier early, all leave |
| Software barriers, `sw/tests/nsync` | counters and flags in memory | atomic add, store, poll | a reset that races with arrivals; roles derived from bit masks | the same |
| Splitter `converters/tcdm64_to_dual_tcdm32.sv` | spill register, pattern FIFO | a 64-bit access as two of 32 bits | halves granted and answered apart | each access answered once, with its own halves |
| Spatz to OBI bridge `reqrsp64_to_obi32.sv` | one saved strobe | request, response | outstanding requests | a response goes to the right half |
| Collectives, tile CSRs, address map, numbering helpers | little or none | address arithmetic | boundaries | ranges and masks are right |
| RedMulE, cores, caches, FlooNoC, FractalSync network, L1 banks | external IPs | | | not this repository's code |

The cores talk through memory-mapped registers; the register blocks talk back
with one-cycle events to the Event Unit and with interrupts. Tiles meet in the
FractalSync network or through words in each other's L1 memory. Each control
path is a handful of small state machines whose interleaving is what tests
hardly reach. The components' list in `PROJECT.json` says file by file what is
modelled, and its hazards say what can go wrong, at which line, and which
property is about it.

## Plan and status

| | Subject | Modules | Status |
|---|---|---|---|
| 1 | Cluster dispatch, against an abstract fork and join | `ClusterRegs`, `EventUnit`, `ClusterDispatch`, `ForkJoin` | checked, safety and refinement proved |
| 2 | The main core's data path | `DataDemux` | checked, safety proved |
| 3 | Spatz dispatch, against the same fork and join | `SpatzDispatch` | checked, safety and the refinement's steps proved |
| 4 | FractalSync patterns, against an abstract barrier | `FSyncMesh`, `FSync`, `Barrier` | checked, safety and refinement proved |
| 5 | The 64-bit splitter | `Splitter` | checked, safety proved for the vector ports |
| 6 | iDMA control and its API | `Idma` | checked, safety proved |
| 7 | The remaining event waits | `AccelWaits` on `EventUnit` | checked, safety proved |
| 8 | Software barriers, against the same abstract barrier | `NSyncTests`, `NSyncOrder`, `NSync` | checked, safety and refinement proved for orderly programs |
| 9 | Pure operators: chunks, hart numbers, collective addresses, address map | | open |
| 10 | The strobe of the Spatz bridge; the two dispatch machines side by side on one Event Unit | | open |

## Modules

`ClusterRegs` has the registers as variables and one operator per register
write. A step is a cycle of `sys_clk` with at most one write, which is what a
single OBI slave allows. Every write ends in `Edge`: the quorum comparisons
(`Settle`, with the values about to be stored, as in the `always_comb` block)
and the interrupt latch. Counters have the width of the code (`CounterMod` is
2 to the power `N_BIT_CLUSTER_CORES+1`). `NoWrite` is a cycle without a write,
in which the quorums are still compared.

`EventUnit` has the event buffer and the mask of the main core, and one
operator per access of `event_unit_utils.h`. The unit's own code is not in the
repository. Where its behaviour is not visible from here (an event that arrives
as its bit is cleared) both outcomes are possible. Waits with a clear remove
every enabled event, as the register does.

`ClusterDispatch` puts a main core and the workers on these registers. `mpc` is
the main core's place: each access of `pulp_init`, `cluster_arm_done_event`,
`pulp_run_task(_with_params)`, `eu_cluster_done_wait` in both modes and
`cluster_stop` is an action. `wpc` is each worker's place in `pulp_crt0.S`, with
an action per access of the trap handler. Polls that read "not yet" change
nothing and are not steps. The program follows the flow of the repository's
README (boot, then arm, dispatch and wait any number of times; stop) and is
otherwise free. Dispatch number k writes k to TASKBIN, so that a stale argument
shows. A task is one step; how long it takes is when that step happens. Events
of other accelerators are one line, `other`, which may be raised at any time.

`ForkJoin` is what dispatching promises: a round is forked to a team, each
member finishes once, the round is joined after the last.

`DataDemux` is the demultiplexer cycle by cycle. A step takes a request (or
none) and the responses that arrive on both paths in this cycle, and computes
the next state of the FIFO, of the capture registers and of the core. A response
is the number of the access it answers, so order and loss are visible. The rest
of the tile is an environment: a path answers in its own order, after at least
one cycle (the cuts in `magia_tile.sv` 938-953 and 1382-1397), and the Event
Unit may stop the core's clock once per access that waits for an event and
answers that access after it started the clock again. A CV32E40X does not have
the sleeping load, so its clock does not stop (`MaySleep`).

`SpatzDispatch` is the same for the Spatz core: the registers, the main core's
calls and waits, the boot ROM, the READY handshake, the handler with its
interrupt and exception paths. START is the interrupt itself, a level. `mepc`
is kept because an interrupt at the first `wfi` may be taken before it or in
it, and the runtime goes on differently. A store has landed in the register
before the core that made it takes an interrupt or makes its next access. A
task reads SPATZ_DATA as its first act, as all tasks of the repository do. With
`Overlap` the program starts a task before it has waited for the last.

`AccelWaits` has the initialisations and the other waits of
`event_unit_utils.h`, access by access, on `EventUnit`, with the jobs of a tile
(RedMulE, both channels of the iDMA, FractalSync, Spatz, the cluster) as the
actors: a job raises its event once, when it finishes, in any cycle, also one in
which the core accesses the unit. `Programs` says which initialisations and
waits a program mixes, whether it runs several jobs at once, and whether its
polls may give up. Rounds follow each other without bound. RedMulE's busy line
is a level and is enabled by `eu_multi_init`, so it wakes waits for others.

`Idma` has the register decoder, the two channels and every call of
`idma_mm_utils.h`, access by access. A channel is its registers, the sequence of
transfers it accepted (each with the values the registers had when NEXT_ID was
read) and how many of them have left the queue and have retired; NEXT_ID,
DONE_ID and STATUS are computed from these. The decoder grants at once, and a
read of NEXT_ID that meets a full queue is gone (`LoseNextId`, place "hung").
That STATUS is busy exactly while a transfer is not retired, and that DONE_ID
is the number of the one retired last, is how the code uses the external
engine. `InFlight` is what mid-end and back-end hold.

`Barrier` is the abstract barrier of groups of tiles, each round with its own
groups: nobody leaves a round before all of its group have entered it.

`FSyncMesh` has the geometry of a mesh: the patterns of `fsync_mm_api.h` with
the lookup tables of rows and columns, and the nodes of the network. The network
is external. Its model takes ports and widths from `magia.sv` and
`magia_tile_pkg.sv`: two trees, one joining first along x and one first along y,
and the nodes between neighbours that share no node. `Geometric` is what the
patterns and the network owe each other: the peers of a pattern make the same
request, requests that meet at a node are of peers, and two that join stand for
everybody below the next node (`PeersAgree`, `OnlyPeersMeet`, `TeamsJoin`).

`FSync` has the control block of every tile (state machine, aggregate and
identifier) on such a mesh, and the tests' way to use it: arm the event,
trigger, wait for the event. Two requests of the same identifier that come to a
node from its two children are joined. That the program's groups use it as
intended (that `rows` really is a row) is the property.

`NSyncTests` has the twelve barriers of `sw/tests/nsync` as what they are, each
tile's sequence of accesses in a round: add to a word, await a value in a word,
put a value into a word; loops over tiles and bit masks are unrolled by the
operators of the module. `NSync` runs them, an access a step. A tile's accesses
take effect in program order, because the data demultiplexer drains one target
before it issues to another, and an `amoadd.w` is carried out at the memory.
`NSyncOrder` says of programs, not of behaviours, what makes them a barrier
(`Orderly`): every word is a handshake between its writers and its owner, and
from its own accesses alone a tile can tell enough of the others' when it
writes, resets or leaves.

`Splitter` is the port of `tcdm64_to_dual_tcdm32.sv` as built with `RVD=1`,
cycle by cycle. The halves of the access at the head of the spill register are
offered until both are granted in the same cycle, so a half granted alone is
carried out and answered again. `Slow` chooses what is behind it: banks that
answer in the next cycle (the vector ports) or cuts behind which the banks
answer when they will (the scalar core's port).

The modules named `MC...` give TLC sets of events, programs and tests. The
modules named `...Proofs` hold theorems.

Definitions marked "Fault" are plausible mistakes in the definition that
follows them. No specification uses them; each shows that a property is able to
notice that mistake (the mutants of `PROJECT.json`).

## Runs

| Run | Instance | Shows |
|---|---|---|
| `cluster_safety` | 3 workers, 2 dispatches, 2 boots | `JoinSound`, `NoStaleDone`, `IrqFindsDispatcher`, `ContextStable`, `ForksAndJoins`, and the inductive invariant `IInv` |
| `cluster_late_tasks` | 2 workers, 3 dispatches, 2 boots, polls may time out, fair | dispatches that overlap: `StartClearsLast`, `DispatchReachesAll`, `CalledOnce` still hold, and no dispatch or wait hangs (`DispatchReturns`) |
| `cluster_reboot` | 2 workers, 2 boots, fair | violated: `BootReturns` |
| `main_core`, its waits | 3 programs over 6 jobs, any number of rounds | `EventsFresh`, `AwaitedDone`, `NoLostEvent`, `WaitEnds`; that the programs meet the assumption of the proof of `AwaitedDone` |
| `main_core`, its data port | 6 accesses, sleeping core | `NothingDropped`, `InOrder`, `AllAnswered`, `DemuxTypeOK` |
| `accelerators`, DMA | 5 programs, 3 transfers, a job queue of 1, 2 polls | `WaitReports`, `OnlyCollectivesStay`, `StartAnswered`, `CallReturns` |
| `accelerators`, Spatz | 3 tasks, exceptions, one at a time | `StartClearsLate`, `ParamsOwn`, `ExceptionReported`, and `ImplementsForkJoin` with its fairness |
| `accelerators`, vector port | 6 accesses, FIFO of 4, prompt banks | `Paired`, and that the FIFO never fills (`SplitterTypeOK`) |
| `spatz_overlap` | 2 tasks, overlapping | violated: `ParamsOwn` |
| `idma_two_way` | a transfer in each direction with `dma_wait`, 3 calls | violated: `WaitSound` |
| `idma_collective` | plain transfers and multicasts, 3 calls | violated: `JobMatchesCall` |
| `nsync_barriers` | 11 tests, meshes of 2 to 4 tiles a side and a row of 8, up to 3 rounds | `ImplementsBarrier`, `NothingOverwritten`, `EveryoneLeaves`; that the programs of these tests, of 16 tiles' hyper barrier and of the 8 x 8 mesh are `Orderly`, the assumption of the proofs |
| `nsync_columns` | the column hyper barrier, 2 x 2 | violated: `NothingOverwritten` |
| `fsync_patterns` | all patterns on 2 x 2, rows and columns of 4 x 4, a column of 8 x 8 | `ImplementsBarrier`, `TriggerTaken`, `EveryoneReturns`; that meshes of 2, 4 and 8 tiles a side are `Geometric`, the assumption of the proofs |
| `splitter_scalar` | 3 accesses, banks behind cuts | violated: `Paired` |

`main_core` and `accelerators` put modules side by side that share no state
(`MCMainCore`, `MCAccelerators`): a behaviour is of one of them, chosen in its
initial state, with that module's own next-state relation and fairness, and the
others rest. Nothing is claimed about how they interact; what the main core
sees of the accelerators is in `AccelWaits`, as events.

Why the bounds are enough. Three workers give masks of every size, members and
bystanders at once, and a quorum that is neither one nor all; two dispatches
make every pair of consecutive masks. When polls time out, a third dispatch can
meet a worker two dispatches behind. Two boots show what follows a stop, with
workers gated in any place. Six accesses fill the demultiplexer's FIFO of two
three times over, and nothing in that block remembers more than two. Three
Spatz tasks are the first (which clears READY on its way back), one after it
and one after that. Three transfers overrun a job queue of one with one in
flight, and follow each of the others on the same or the other channel. The
event waits are unbounded. In the barriers a tile is at most a round ahead of
another, so the second round meets the first and the third meets the words as
the second left them; the hyper barrier of sixteen tiles (`hyper_4`) has too
many states, and only its programs are examined. A row of the 4 x 4 mesh needs both trees' nodes
above the first level, two rows share them, and a column of 8 has a level more.
For the proofs there are no bounds.

`CHECK_DEADLOCK FALSE`: a program that has made its last call stops, and so
does one that lost its start; whether a call returns is a liveness property.

Fairness. The main core's calls run to their end: a clocked core executes its
instructions. Whether the program makes another call is left to it. Each
worker, while its clock runs, makes its next step, and tasks return (liveness
is about the dispatch, not about the task). The clock ticks. Events that other
accelerators raise are not fair. In `DataDemux` each path answers what it has
accepted, and the clock is started again: the awaited event comes. A job of
`AccelWaits` finishes, and so does a transfer of `Idma`, channel by channel. In
`NSync` and `FSync` some step is taken as long as there is one; the programs
are finite and each step brings their end nearer, so nothing finer is needed.
Weak fairness is enough everywhere. Nothing is claimed about the progress of
`Splitter`: an access is taken only in a cycle in which both of its banks grant,
and the arbiters of the interconnect, fair bank by bank, do not bring two grants
together.

### What the violated runs say

* `spatz_overlap`: START reads 0 before the task has read `SPATZ_DATA`; the
  documentation (`spatz/README.md:250`) takes START 0 as leave to write it.
* `nsync_columns`: the loop down the tree of `nsync_col_hyper_test.c:155` ends
  only when the bit has left the word, not at the first bit of the y
  coordinate. At the bits of x the tile pairs up with other columns and stores
  flags there that nobody awaits in step; one of them lands on a flag that was
  not consumed. The row barrier starts at bit 0, where the two ends agree.
* `cluster_reboot`: writing CLK_EN sets the READY count back, "so CV32 can
  re-poll after each init" (`obi_slave_ctrl_cluster.sv:124`), but a worker writes
  READY only when it comes out of reset (`pulp_crt0.S:129`) and stopping the
  cluster does not reset it. The second `cluster_boot` polls for ever.
* `idma_two_way`: the channels number their transfers alike, and `dma_wait` is
  content with either DONE_ID (`idma_mm_utils.h:366`), so it returns for the
  first transfer of one direction when that of the other is done. The tests use
  it with both (`wide_multicast_row.c:69-81`, `idma_test_mm.c:90-128`). What such
  a wait does tell is `WaitReports`.
* `idma_collective`: `collective` writes MULTICAST_MASK and COLLECTIVE_SEL, and
  no other call does, so that a plain transfer to L2 or a push that follows is
  still a multicast (`idma_mm_utils.h:265`, 289). That nothing else of an earlier
  transfer ever stays is `OnlyCollectivesStay`.
* `splitter_scalar`: the splitter looks at the banks' answers only in the cycle
  in which they complete the oldest access and holds none. On the scalar core's
  port the halves go through separate atomic resolvers and cuts and answer at
  different times; an answer that comes early is then taken for that of the
  oldest access, or lost.

### Known divergences without a run of their own

Where code and documentation differ in a way that a look at the code settles,
the models follow the code, and where they would otherwise stop at the
difference they leave the caller's mistake out:

* Cluster. A poll that times out (`cluster_utils.h:72`) looks like completion
  to its caller; the proofs assume it does not happen, `cluster_late_tasks`
  lets it. After it a DONE of the last dispatch may be counted to the next one
  (`obi_slave_ctrl_cluster.sv:148`), and the wait ends early.
* Spatz. The handler stores 0 to `SPATZ_RETURN` whatever a task returns
  (`spatz_crt0.S:169`), against `spatz/README.md:122`; only exceptions are
  reported. `spatz_init` twice waits for a READY that never comes back.
* Demultiplexer. `exokay` does not travel with a captured response
  (`core_data_demux_eu_direct.sv:257`); this matters for a CV32E40X only.
* iDMA. `dma_wait` asks for equality, so a number that was passed before the
  first look is never met (`idma_mm_utils.h:374`); programs of the run that call
  it therefore wait for each transfer of a channel before the next. A start that
  meets a full queue is granted and never answered
  (`idma_obi_ctrl_decoder.sv:172`), for which `StartAnswered` says when.
* Event waits. A blocking wait returns for, and clears, every enabled event
  (`event_unit_utils.h:228`), so after `eu_idma_init` the wait for one direction
  may end with the other's event (`mesh_test_event_unit.c:93`). The polling form
  of `eu_multi_wait_all` returns what it has seen when it gives up (line 450;
  `event_unit_test.c:150` says 0). Clearing the buffer after the start
  (`tile_test_event_unit.c:81`) may clear the event waited for.
* FractalSync. `fsync_mm` never waits itself: `fsync_mm_utils.h:26` defines
  `EVENT_UNIT` and line 47 compiles its loop out; the tests of the memory-mapped
  form (`fsync_test_mm.c`) do not wait either. The models are of the programs
  that wait for the event.
* Meshes. `GET_Y_ID` divides by the number of rows, so the numbering, and with
  it every barrier, is for square meshes.
* Splitter. A store with no byte enabled pushes a pattern that is never popped
  (`tcdm64_to_dual_tcdm32.sv:249-255`, 155-169) and the port stays blocked; a
  half granted alone is carried out twice (harmless for plain loads and
  stores); with a FIFO of one entry the pairing would be lost.
* Bridge. `reqrsp64_to_obi32.sv:85` saves one strobe for all outstanding
  requests.

## Proofs

What is proved holds for every value of the constants that meets the named
assumptions of the modules (`CoresAssumption` and the like), for any number of
steps. None of the properties is inductive; each module of proofs defines an
`IInv`, proves it action by action with one lemma per action or group of
actions, and derives the properties from it.

| Module | Theorems | Further assumption |
|---|---|---|
| `ClusterDispatchProofs` | `LateInvariantHolds`, `TypeCorrect`, `StartIsHeld`, `DispatchIsSeen`, `CallsOnce` | none: tasks may outlast any poll |
| | `InvariantHolds`, `JoinsAfterAll`, `DoneIsFresh`, `InterruptsWait`, `RunsTheTask`, `ImplementsFork` | polls do not time out |
| `SpatzProofs` | `InvariantHolds`, `TypeCorrect`, `StartAcknowledges`, `ParamsAreOwn`, `ExceptionIsReported`, `ImplementsFork` | each task is awaited before the next |
| `DataDemuxProofs` | `InvariantHolds`, `TypeCorrect`, `NoResponseDropped`, `ResponsesInOrder` | none |
| `SplitterProofs` | `InvariantHolds`, `TypeCorrect`, `AnswersPaired` | prompt banks, no store without a byte, more than one FIFO entry |
| `NSyncProofs` | `TypeCorrect` | none |
| | `InvariantHolds`, `NothingIsOverwritten`, `IsABarrier` | the tests are `Orderly` |
| | `CentralIsOrderly`, `MeshTestsAreOrderly`, `XYIsOrderly` | a barrier around one tile (`Central`); an even side for pairs, neighbours and rings; none for XY |
| `FSyncProofs` | `InvariantHolds`, `TypeCorrect`, `TriggersAreTaken` | none |
| | `TeamsGather`, `PatternsAreBarriers` | the meshes are `Geometric` |
| `IdmaProofs` | `InvariantHolds`, `WaitsTellTheTruth`, `WaitingBoundsTheQueue`, `JobsMatchCalls` | none |
| | `PlainJobsMatchCalls` | no collectives |
| `AccelProofs` | `InvariantHolds`, `EventsAreFresh`, `MoreHolds`, `NothingIsLost` | none |
| | `AwaitedIsDone` | waits that return for any event are for the only job |

*Cluster.* `JoinSound`, for one, needs to know that the event the wait returned
for was raised by the quorum (`DoneInv`), that the quorum counted members of
this dispatch (`AckInv`, `PlaceInv`), that the number it was compared with is
the size of this mask (`CallInv`), that nothing was left over when the dispatch
began (`QuietInv`), and that no other event was enabled (`EventInv`). `IrqInv`
says where the interrupts are and `ReadyInv` who is armed. The counters are
tied to the workers' places by cardinality: `nb_done` is the size of the set of
members that have written DONE, until the last one empties it. `ForksAndJoins`
follows with a case for each of fork, finish and join, all else stuttering.

When polls may time out, most of this is false: a wait may end before the task,
and the next dispatch meets workers that are still in the last, or in the one
before. `LateInv` is what is left, and it is inductive without any bound on the
tasks: no worker is ahead of the dispatch (`LagInv`), between dispatches no
interrupt is under way and no handler is at its first accesses (`RestInv`), and
while START is polled every member has entered, is entering, or has its
interrupt coming (`ReachInv`), as many as START and the ACK counter say
(`CountInv`). So dispatching itself is sound whatever the tasks do; only joining
is not.

*Spatz.* A dispatch goes through phases, and for each place of the calling
program the invariant says in which of them the runtime can be: booting,
between two tasks, called, asked (START set), running, ending, signalling,
joined. The event that is pending, the code in RETURN and the argument in
TASKBIN are tied to the phase.

*Data demultiplexer.* A path owes nothing, one access or two, and the one it
owes first may have been captured. The order FIFO says which path owes which
access. While the clock is off the access issued last is the one that waits, and
it cannot be answered. The cuts are needed: the second of two accesses is still
held back as long as the first is in the capture register.

*Splitter.* What a bank has still to answer belongs to the access in the FIFO,
and then all its halves are there; or the FIFO is empty and it belongs to the
access at the head of the spill register, never to all of its halves.

*Software barriers.* One proof covers counters, flags, two phases and trees. The
programs need only be `Orderly`. As handshakes: in a round each writer of a word
adds to it (or the only one stores a one) once, and its owner awaits as much as
all of them write and resets it in the next access. As an order: there is a
`know` that says for each tile and each point of its program which accesses of
others it can be sure of, and every await adds to it only what the tiles it
waited for knew when they wrote; a tile resets a word, writes to one and leaves
only when this is enough. `KnowInv` says that what a tile knows has happened in
its round, `CountInv` that each word is the number of its writers that have made
their access since its last reset, at most one round apart; each step of one
needs the other. `CentralIsOrderly` gives the witness for the barriers around one
tile, and `MeshTestsAreOrderly` shows from the tests' own arithmetic that eight
of the twelve are of this form on the mesh of any size: each is a `Star` of
tiles that ask and of tiles that answer all who ask (the five neighbour tests
as `Pairs`, in which one asks the other). `XYIsOrderly` does the same for the
two phases. Its core is `TwoPhaseIsOrderly`: tiles ask nodes, nodes ask a hub,
and a node counts in one word first its own tiles and then, with them, the hub's
answer. The order gives a node back, with that answer, what the hub knew, which
is why no tile can ask again before the word is reset (`HubKnowledge`,
`NodeKnowledge`, `LeafKnowledge`). For the tree-shaped barriers TLC computes the witness (`Learn`, what the
awaits teach round by round) and checks the definition itself on every run of
`nsync_barriers` (`TestsAreOrderly`): all eleven tests with the meshes that are
run, `hyper_4`, and every one of them on the 8 x 8 mesh. The column hyper barrier
has the handshakes but not the order: nothing tells a tile that the flag it
stores over was consumed, which is the finding of `nsync_columns`.

*FractalSync.* A tile's request is in one place: at a node, or joined and its
wake on the way. A control block is idle unless its tile waits, so the next
trigger finds it idle, whatever the pattern and whoever else is in the network.
For the barriers `BarrierInv` adds what a request in the network stands for:
a whole team, the peers below one node, all in the same round (`TeamInv`). Whoever
has been answered in a round had all his peers in it (`AnswerInv`), and as long
as a request is under way none of its peers has been answered (`UnansweredInv`);
this is why two requests that look alike cannot be of different rounds. The
steps need the geometry only as `Geometric`. TLC evaluates it for sides 2, 4
and 8 on every run of `fsync_patterns` (for 16 it takes minutes and was
evaluated once), so that the theorem covers the whole 4 x 4 and 8 x 8 meshes
with any sequence of patterns, which the run itself cannot explore. A wrong row
identifier or port breaks that evaluation.

*iDMA.* A call touches one channel and ends in its start; what is retired was
taken from the queue, what was taken was queued. The identifiers up to DONE_ID
are those of retired transfers of its channel; `dma_wait` does not say of which.
So what a wait reports is retired, on the channel asked for if the program gives
`dma_wait` one direction only (`TellsApart`), and on that one or the other if it
does not: the action property `WaitReports` is both, for every program. A start
that finds the queue full means that more transfers are unreported than the
queue holds, or that a report was of the wrong channel. `OnlyCollectivesStay` has
an invariant of its own (`MatchInv`): in a call, each register that the call
writes holds what it wants or is still to be written, the access that starts the
transfer is the last, and the two registers of a collective hold zero or what a
collective of the channel wrote. It needs nothing of the program, since a
channel's registers belong to the call under way. In a program without
collectives every job is exactly the call's (`PlainJobsMatchCalls`).

*Event waits.* A job runs only between its start and the wait that returns for
it, every start follows a clear of the whole buffer, and a wait leaves a job
only with its event. That no event gets lost needs where a wait holds the events
it has taken out of the buffer (`HeldInv`); `NoLostEvent` itself says for which
programs. `AwaitedDone` fails where a blocking wait, which returns for any event
that is enabled, is made while another event may come. The theorem therefore
assumes that the programs with such waits run one job at a time and do not use
`eu_multi_init`; TLC checks that the programs of the run are of this kind
(`BlockingWaitsAreSolo`).

Only model-checked: all liveness, with timed-out polls too, and the fairness of
`ForkJoin` (with ENABLED, beyond the prover); that the
programs of the tree-shaped barriers (row hyper and hyper) are `Orderly`, which is
evaluated on the meshes listed; that a mesh is `Geometric`, which is arithmetic of powers and
digits, evaluated side by side; the splitter behind slow banks, where the
property does not hold.

## Not modelled

Start masks with bits beyond the workers (no caller makes them), writes of the
registers by anyone but the cores named, reset while running, bus errors, the
memory accesses of the tasks, `EU_CORE_IRQ_MASK` (no interrupt of the Event Unit
is connected to a core), the latency of a single access. External IPs (cores,
Event Unit, FlooNoC, FractalSync network, iDMA and RedMulE engines, crossbars,
memories) are represented by what the code around them relies on.
`fsync_isa_utils.h` and `idma_isa_utils.h` hold the same calls for custom
instructions of another tile core; `tcdm64_to_dual_tcdm32_blocking.sv` is in no
build. The remaining converters rename signals or hold a register each; the
collectives, tile CSRs and numbering helpers are address arithmetic without
shared state.

Most of the repository's lines are not behaviour of this kind: `cache_fill.h` is
8200 lines of `nop`, `spatz_workers.h` is generated data, `tinyprintf.h` is a
formatter, and the mesh files instantiate external routers.
