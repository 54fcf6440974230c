------------------------------- MODULE MCNSync -------------------------------
(***************************************************************************)
(* The tests on meshes of two to four tiles a side. A barrier of rows (or  *)
(* of columns) is run on one row (column) of the larger mesh. On meshes of *)
(* eight tiles a side the tests are not run: their programs are seen to be *)
(* orderly, which makes them barriers by the theorems of NSyncProofs.      *)
(***************************************************************************)
EXTENDS NSync, NSyncOrder, NSyncTests

RowOf(n, y) == {t \in AllOf(n) : GET_Y_ID(n, t) = y}
ColOf(n, x) == {t \in AllOf(n) : GET_X_ID(n, t) = x}

\* The groups, named by a tile of theirs: the whole mesh, a row, a column, and
\* around one tile the tile that the others send their requests to.
WholeMesh(n, t) == 0
RowStart(n, t)  == GET_ID(n, GET_Y_ID(n, t), 0)
ColStart(n, t)  == GET_X_ID(n, t)

Trees(n, tiles, Algorithm(_, _), Group(_, _), rounds) ==
  [tiles |-> tiles, prog |-> [t \in tiles |-> Algorithm(n, t)],
   root |-> [t \in tiles |-> Group(n, t)], rounds |-> rounds]

Around(n, tiles, Algorithm(_, _), rounds) ==
  AroundOne(tiles, [t \in tiles |-> Algorithm(n, t)], rounds)

\* Three rounds are CACHE_HEAT_CYCLES.
AllSetups ==
  [naive_2     |-> Around(2, AllOf(2), Naive, 3),
   naive_3     |-> Around(3, AllOf(3), Naive, 2),
   row_4       |-> Around(4, RowOf(4, 1), Row, 3),
   col_4       |-> Around(4, ColOf(4, 2), Col, 3),
   single_2    |-> Around(2, AllOf(2), Single, 3),
   hneighbor_4 |-> Around(4, RowOf(4, 2), HNeighbor, 3),
   vneighbor_4 |-> Around(4, ColOf(4, 0), VNeighbor, 3),
   hring_4     |-> Around(4, RowOf(4, 3), HRing, 3),
   vring_4     |-> Around(4, ColOf(4, 1), VRing, 3),
   xy_2        |-> XYSetup(2, 3),
   xy_3        |-> XYSetup(3, 2),
   row_hyper_4 |-> Trees(4, RowOf(4, 1), RowHyper, RowStart, 3),
   row_hyper_8 |-> Trees(8, RowOf(8, 6), RowHyper, RowStart, 2),
   hyper_2     |-> Trees(2, AllOf(2), Hyper, WholeMesh, 3),
   hyper_4     |-> Trees(4, AllOf(4), Hyper, WholeMesh, 1),
   col_hyper_2 |-> Trees(2, AllOf(2), ColHyper, ColStart, 3)]

ColumnTree == {AllSetups.col_hyper_2}
SoundTests == {AllSetups[s] : s \in DOMAIN AllSetups \ {"col_hyper_2", "hyper_4"}}

LargeSetups ==
  [hyper_4     |-> AllSetups.hyper_4,
   naive_8     |-> Around(8, AllOf(8), Naive, 3),
   row_8       |-> Around(8, AllOf(8), Row, 3),
   col_8       |-> Around(8, AllOf(8), Col, 3),
   single_8    |-> Around(8, AllOf(8), Single, 3),
   hneighbor_8 |-> Around(8, AllOf(8), HNeighbor, 3),
   vneighbor_8 |-> Around(8, AllOf(8), VNeighbor, 3),
   hring_8     |-> Around(8, AllOf(8), HRing, 3),
   vring_8     |-> Around(8, AllOf(8), VRing, 3),
   xy_8        |-> XYSetup(8, 3),
   row_hyper_8 |-> Trees(8, AllOf(8), RowHyper, RowStart, 3),
   hyper_8     |-> Trees(8, AllOf(8), Hyper, WholeMesh, 3)]
LargeTests == {LargeSetups[s] : s \in DOMAIN LargeSetups}

\* All that follows from the programs, step by step from nothing.
Nothing(s) == [t \in s.tiles |-> [i \in 0..Len(s.prog[t]) |-> {}]]

LearnMore(s, know) ==
  [t \in s.tiles |-> [i \in 0..Len(s.prog[t]) |->
     IF i = 0 THEN {}
     ELSE know[t][i] \cup know[t][i - 1] \cup {<<t, i>>} \cup Heard(s, know, t, i)]]

RECURSIVE Learn(_, _)
Learn(s, know) ==
  LET more == LearnMore(s, know) IN IF more = know THEN know ELSE Learn(s, more)

ASSUME TestsAreOrderly ==
  \A s \in SoundTests \cup LargeTests :
    /\ WellFormed(s) /\ Handshakes(s)
    /\ \E know \in {Learn(s, Nothing(s))} : Ordered(s, know)

CentralNames ==
  {"naive_2", "naive_3", "row_4", "col_4", "single_2", "hneighbor_4", "vneighbor_4",
   "hring_4", "vring_4"}
ASSUME TestsAreCentral == \A n \in CentralNames : Central(AllSetups[n])
=============================================================================
