----------------------------- MODULE NSyncTests -----------------------------
(***************************************************************************)
(* The software barriers of the mesh: what each tile of an n x n mesh does *)
(* between sentinel_start and sentinel_end, as the sequence of its         *)
(* accesses to the barrier words. Every tile has one word per tree level   *)
(* at SYNC_BASE of its own L1 memory; which accesses a tile makes depends  *)
(* on its hart id only.                                                    *)
(***************************************************************************)
EXTENDS Naturals, SequencesExt

GET_Y_ID(n, t) == t \div n
GET_X_ID(n, t) == t % n
GET_ID(n, y, x) == y * n + x

AllOf(n) == 0..(n * n - 1)    \* NUM_HARTS tiles

Access(op, t, w, v) == [op |-> op, tile |-> t, word |-> w, value |-> v]

AddOne(t)      == Access("add", t, 0, 1)      \* amo_increment(.., 1)
Await(t, w, v) == Access("await", t, w, v)    \* while (mmio32(..) < v);
Put(t, w, v)   == Access("put", t, w, v)      \* mmio32(..) = v

\* The member counted i (from 1) among all but the k-th (from 0): the two
\* loops of the responses, below and above the sender.
AllBut(k, i) == IF i <= k THEN i - 1 ELSE i

(***************************************************************************)
(* A barrier around one tile: it awaits the requests, resets its counter   *)
(* and answers the others in turn.                                         *)
(***************************************************************************)
Collect(t, awaited, sources) ==
  <<Await(t, 0, awaited), Put(t, 0, 0)>> \o [i \in DOMAIN sources |-> AddOne(sources[i])]

Request(t, dst) == <<AddOne(dst), Await(t, 0, 1), Put(t, 0, 0)>>

Centre(n) == (n - 1) \div 2
SyncNode(n) == GET_ID(n, Centre(n), Centre(n))

Naive(n, t) ==
  IF t = SyncNode(n)
  THEN Collect(t, n * n - 1, [i \in 1..(n * n - 1) |-> AllBut(t, i)])
  ELSE Request(t, SyncNode(n))

RowOthers(n, t) == [i \in 1..(n - 1) |-> GET_ID(n, GET_Y_ID(n, t), AllBut(Centre(n), i))]
ColOthers(n, t) == [i \in 1..(n - 1) |-> GET_ID(n, AllBut(Centre(n), i), GET_X_ID(n, t))]

Row(n, t) ==
  IF GET_X_ID(n, t) = Centre(n)
  THEN Collect(t, n - 1, RowOthers(n, t))
  ELSE Request(t, GET_ID(n, GET_Y_ID(n, t), Centre(n)))

Col(n, t) ==
  IF GET_Y_ID(n, t) = Centre(n)
  THEN Collect(t, n - 1, ColOthers(n, t))
  ELSE Request(t, GET_ID(n, Centre(n), GET_X_ID(n, t)))

Single(n, t) ==
  IF t % 2 = 1 THEN Request(t, t - 1) ELSE Collect(t, 1, <<t + 1>>)

HNeighbor(n, t) ==
  IF GET_X_ID(n, t) % 2 = 1 THEN Request(t, t - 1) ELSE Collect(t, 1, <<t + 1>>)

VNeighbor(n, t) ==
  IF GET_Y_ID(n, t) % 2 = 1 THEN Request(t, t - n) ELSE Collect(t, 1, <<t + n>>)

HRing(n, t) ==
  LET x == GET_X_ID(n, t) IN
  CASE x = 0                             -> Request(t, t + n - 1)
    [] x # 0 /\ x = n - 1                -> Collect(t, 1, <<t + 1 - n>>)
    [] x \notin {0, n - 1} /\ x % 2 = 1  -> Collect(t, 1, <<t + 1>>)
    [] x \notin {0, n - 1} /\ x % 2 = 0  -> Request(t, t - 1)

VRing(n, t) ==
  LET y == GET_Y_ID(n, t) IN
  CASE y = 0                             -> Request(t, t + n * n - n)
    [] y # 0 /\ y = n - 1                -> Collect(t, 1, <<t + n - n * n>>)
    [] y \notin {0, n - 1} /\ y % 2 = 1  -> Collect(t, 1, <<t + n>>)
    [] y \notin {0, n - 1} /\ y % 2 = 0  -> Request(t, t - n)

(***************************************************************************)
(* The two phases of XY: the rows first, then their nodes along the centre *)
(* column, whose answers share the counter of the row's requests.          *)
(***************************************************************************)
Answer(tiles) == [i \in DOMAIN tiles |-> AddOne(tiles[i])]

XY(n, t) ==
  IF GET_X_ID(n, t) # Centre(n)
  THEN Request(t, GET_ID(n, GET_Y_ID(n, t), Centre(n)))
  ELSE <<Await(t, 0, n - 1)>>
       \o (IF t = SyncNode(n)
           THEN <<Await(t, 0, 2 * n - 2), Put(t, 0, 0)>> \o Answer(ColOthers(n, t))
           ELSE <<AddOne(SyncNode(n)), Await(t, 0, n), Put(t, 0, 0)>>)
       \o Answer(RowOthers(n, t))

\* The whole mesh is one group, named by tile 0.
XYSetup(n, rounds) ==
  [tiles |-> AllOf(n), prog |-> [t \in AllOf(n) |-> XY(n, t)],
   root |-> [t \in AllOf(n) |-> 0], rounds |-> rounds]

(***************************************************************************)
(* The hyper barriers: a binary tree towards the centre. At level b a tile *)
(* whose bit b points away from the centre stores a flag in its partner's  *)
(* word b and drops out; the partner awaits and clears it. On the way down *)
(* the roles are exchanged. The flags are plain stores.                    *)
(***************************************************************************)
Bit(t, b) == (t \div 2^b) % 2
Flip(t, b) == IF Bit(t, b) = 1 THEN t - 2^b ELSE t + 2^b

\* log2 of a power of two, as __builtin_clz gives it.
Log2[n \in Nat] == IF n <= 1 THEN 0 ELSE 1 + Log2[n \div 2]

Take(t, b) == <<Await(t, b, 1), Put(t, b, 0)>>
Give(t, b) == <<Put(t, b, 1)>>

\* The levels a tile takes part in: up to the first whose bit points away
\* from the centre. inward[b] is the value that points to it.
Reached(t, inward, levels) ==
  LET away == {i \in DOMAIN levels : Bit(t, levels[i]) # inward[levels[i]]}
  IN  IF away = {} THEN levels
      ELSE SubSeq(levels, 1, CHOOSE i \in away : \A j \in away : i <= j)

Ascend(t, inward, levels) ==
  FlattenSeq([i \in DOMAIN levels |->
    LET b == levels[i]
    IN  IF Bit(t, b) = inward[b] THEN Take(t, b) ELSE Give(Flip(t, b), b)])

Descend(t, inward, levels) ==
  LET down == Reverse(levels)
  IN  FlattenSeq([i \in DOMAIN down |->
        LET b == down[i]
        IN  IF Bit(t, b) = inward[b] THEN Give(Flip(t, b), b) ELSE Take(t, b)])

\* The roots of the two halves of a line meet at level top.
LineRoots(t, top, distance) ==
  IF Bit(t, top) = 0
  THEN Take(t, top) \o Give(t + distance, top)
  ELSE Give(t - distance, top) \o Take(t, top)

RowHyper(n, t) ==
  LET top     == Log2[n] - 1
      inward  == [b \in 0..top |-> IF GET_X_ID(n, t) <= Centre(n) THEN 1 ELSE 0]
      levels  == [i \in 1..top |-> i - 1]
      reached == Reached(t, inward, levels)
      root    == \A i \in DOMAIN levels : Bit(t, levels[i]) = inward[levels[i]]
  IN  Ascend(t, inward, reached)
      \o (IF root THEN LineRoots(t, top, 1) ELSE << >>)
      \o Descend(t, inward, reached)

\* The loop down has no lower bound at SYNC_START_BIT: with an empty mask every
\* tile goes on through the bits of its x coordinate.
ColHyper(n, t) ==
  LET start   == Log2[n]
      top     == Log2[n * n] - 1
      inward  == [b \in 0..top |-> IF GET_Y_ID(n, t) <= Centre(n) THEN 1 ELSE 0]
      levels  == [i \in 1..(top - start) |-> start + i - 1]
      below   == [i \in 1..start |-> i - 1]
      reached == Reached(t, inward, levels)
      root    == \A i \in DOMAIN levels : Bit(t, levels[i]) = inward[levels[i]]
  IN  Ascend(t, inward, reached)
      \o (IF root THEN LineRoots(t, top, n) ELSE << >>)
      \o Descend(t, inward, below \o reached)

\* Level SYNC_MAX_BIT/2 is the column's quadrant bit and is left out.
HyperTop(n) == Log2[(n * n) \div 2]

HyperLevels(n) ==
  LET half == HyperTop(n) \div 2
  IN  [i \in 1..(HyperTop(n) - 1) |-> IF i <= half THEN i - 1 ELSE i]

HyperInward(n, t) ==
  [b \in 0..HyperTop(n) |->
    LET near == IF b < HyperTop(n) \div 2 THEN GET_X_ID(n, t) ELSE GET_Y_ID(n, t)
    IN  IF near <= Centre(n) THEN 1 ELSE 0]

\* The four tiles around the centre meet: the second quadrant's and the third's
\* at the first, the fourth's at the third.
HyperRoots(n, t) ==
  LET c  == Centre(n)
      q1 == GET_ID(n, c, c)
      q2 == GET_ID(n, c, c + 1)
      q3 == GET_ID(n, c + 1, c)
      q4 == GET_ID(n, c + 1, c + 1)
      b  == HyperTop(n)
  IN  CASE t = q4 -> Give(q3, b) \o Take(t, b)
        [] t = q2 -> Give(q1, b) \o Take(t, b)
        [] t = q3 -> Take(t, b) \o Give(q1, b + 1) \o Take(t, b + 1) \o Give(q4, b)
        [] t = q1 -> Take(t, b) \o Take(t, b + 1) \o Give(q3, b + 1) \o Give(q2, b)
        [] OTHER  -> << >>

Hyper(n, t) ==
  LET inward  == HyperInward(n, t)
      reached == Reached(t, inward, HyperLevels(n))
  IN  Ascend(t, inward, reached) \o HyperRoots(n, t) \o Descend(t, inward, reached)
=============================================================================
