-------------------------------- MODULE MCIdma --------------------------------
(***************************************************************************)
(* Transfers for TLC: one of one dimension and one of two on each channel, *)
(* and a multicast.                                                        *)
(***************************************************************************)
EXTENDS Idma

OneDim(dir) ==
  [dir |-> dir, collective |-> FALSE, dst |-> 5, src |-> 6, size |-> 7,
   dst_stride |-> 0, src_stride |-> 0, reps |-> 1, mask |-> 0, op |-> 0]

TwoDim(dir) ==
  [dir |-> dir, collective |-> FALSE, dst |-> 8, src |-> 9, size |-> 4,
   dst_stride |-> 2, src_stride |-> 3, reps |-> 2, mask |-> 0, op |-> 0]

Multicast == [OneDim(1) EXCEPT !.collective = TRUE, !.mask = 3, !.op = 1]

AllCalls   == {OneDim(d) : d \in Dirs} \cup {TwoDim(d) : d \in Dirs} \cup {Multicast}

Program(calls, waits, pending) == [calls |-> calls, waits |-> waits, pending |-> pending]

\* dma_wait with both directions at once, as the tests use it.
BothWays == Program({OneDim(d) : d \in Dirs}, {"dma_wait", "dma_barrier"}, 1)

\* A collective and plain transfers after it.
AfterMulticast == Program({OneDim(1), Multicast}, {"dma_barrier"}, 1)

\* Both directions with the waits that look at one channel or at both, the
\* job queue overrun or not; dma_wait with one direction, and with both.
DmaPrograms ==
  {Program(AllCalls, {"mm_wait", "dma_barrier"}, p) : p \in {1, 3}}
    \cup {Program({OneDim(d), TwoDim(d)}, {"dma_wait", "dma_barrier"}, 1) : d \in Dirs}
    \cup {BothWays}

TwoWay     == {BothWays}
Collective == {AfterMulticast}
=============================================================================
