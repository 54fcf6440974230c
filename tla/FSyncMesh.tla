------------------------------ MODULE FSyncMesh ------------------------------
(***************************************************************************)
(* The geometry of barriers in hardware on a mesh of N x N tiles: the      *)
(* patterns of sw/utils/fsync_mm_api.h, and the synchronisation network    *)
(* (fractal_sync_2x2, _4x4, ..).                                           *)
(*                                                                         *)
(* The network is not part of the repository.  It is modelled from its     *)
(* ports and its use: a tree of nodes that joins tiles first along x, then *)
(* y, and so on, one that begins along y, and nodes between neighbours     *)
(* that share none of the first level. Bit l-1 of a request's aggregate    *)
(* asks for a rendez-vous at level l; elsewhere it is passed up.           *)
(***************************************************************************)
EXTENDS Naturals

CONSTANT N   \* tiles on a side of the mesh

GET_Y_ID(t) == t \div N
GET_X_ID(t) == t % N

-----------------------------------------------------------------------------
(* The patterns: the aggregate and the id of each tile's request.          *)

Levels(n) == CHOOSE l \in 1..(2 * n) : n * n = 2^l     \* 31 - clz(NUM_HARTS)

\* 0b101010101 shifted so that its top bit is that of the last level but one.
RC_AGGR     == 341 \div 2^(10 - Levels(N))
RC_LVL      == 2^(Levels(N) - 2)
GLOBAL_AGGR == 2^Levels(N) - 1

\* The width of a tile's id: a negative id is truncated.
ID_W == IF Levels(N) > 3 THEN Levels(N) - 1 ELSE 2

row_id_lookup(y) == IF y < N \div 2 THEN 2 * y ELSE 2 * (y - N \div 2)
col_id_lookup(x) == IF x < N \div 2 THEN 2 * x + 1 ELSE 2 * (x - N \div 2) + 1

Pattern(id, aggr) == [id |-> id, aggr |-> aggr]

fsync_mm_hring(t) ==
  IF GET_X_ID(t) \in {0, N - 1} THEN Pattern(row_id_lookup(GET_Y_ID(t)), RC_LVL) ELSE Pattern(2, 1)

fsync_mm_vring(t) ==
  IF GET_Y_ID(t) \in {0, N - 1} THEN Pattern(col_id_lookup(GET_X_ID(t)), RC_LVL) ELSE Pattern(3, 1)

fsync_mm(pattern, t) ==
  CASE pattern = "hnbr"   -> Pattern(0, 1)
    [] pattern = "vnbr"   -> Pattern(1, 1)
    [] pattern = "hring"  -> fsync_mm_hring(t)
    [] pattern = "vring"  -> fsync_mm_vring(t)
    [] pattern = "rows"   -> Pattern(row_id_lookup(GET_Y_ID(t)), RC_AGGR)
    [] pattern = "cols"   -> Pattern(col_id_lookup(GET_X_ID(t)), RC_AGGR)
    [] pattern = "global" -> Pattern(2^ID_W - 1, GLOBAL_AGGR)

-----------------------------------------------------------------------------
(* The network.                                                            *)

Bit(v, b) == (v \div 2^b) % 2

\* Where the SYNC state sends the request.
Port(p) ==
  IF p.aggr # 1
  THEN IF Bit(p.id, 0) = 0 THEN "ht" ELSE "vt"
  ELSE CASE p.id % 4 = 0 -> "ht" [] p.id % 4 = 1 -> "vt"
         [] p.id % 4 = 2 -> "hn" [] p.id % 4 = 3 -> "vn"

\* The node of level l above a tile; level 0 is the tile's own.
Node(port, l, t) ==
  LET Cut(v, k) == v \div 2^k
      x == GET_X_ID(t)
      y == GET_Y_ID(t)
  IN  CASE port = "ht" -> <<Cut(x, (l + 1) \div 2), Cut(y, l \div 2)>>
        [] port = "vt" -> <<Cut(x, l \div 2), Cut(y, (l + 1) \div 2)>>
        [] port = "hn" -> <<Cut(x + l, l), y>>
        [] port = "vn" -> <<x, Cut(y + l, l)>>

\* Tiles that come to the same node of level l from different children.
Siblings(port, l, t, u) ==
  Node(port, l, t) = Node(port, l, u) /\ Node(port, l - 1, t) # Node(port, l - 1, u)

\* The levels a request has still to be joined at, above l.
Above(p, l) == {k \in (l + 1)..Levels(N) : Bit(p.aggr, k - 1) = 1}

Lowest(S) == CHOOSE i \in S : \A j \in S : i <= j

-----------------------------------------------------------------------------
(* What the patterns and the network owe each other.                       *)

\* The group a pattern's name promises, by the name of one of its tiles.
Group(pattern, t) ==
  LET Ring(v) == IF v = 0 THEN N - 1 ELSE v - ((v + 1) % 2)
      x == GET_X_ID(t)
      y == GET_Y_ID(t)
  IN  CASE pattern = "hnbr"   -> <<x \div 2, y>>
        [] pattern = "vnbr"   -> <<x, y \div 2>>
        [] pattern = "hring"  -> <<Ring(x), y>>
        [] pattern = "vring"  -> <<x, Ring(y)>>
        [] pattern = "rows"   -> <<0, y>>
        [] pattern = "cols"   -> <<x, 0>>
        [] pattern = "global" -> <<0, 0>>

Tiles    == 0..(N * N - 1)
Patterns == {"hnbr", "vnbr", "hring", "vring", "rows", "cols", "global"}

Peers(pattern, t) == {u \in Tiles : Group(pattern, u) = Group(pattern, t)}

\* The peers a request of t stands for while it waits at level l.
Team(pattern, t, l) ==
  LET port == Port(fsync_mm(pattern, t)) IN
  {u \in Peers(pattern, t) : Node(port, l - 1, u) = Node(port, l - 1, t)}

\* All peers make the same request, for some level at least.
PeersAgree ==
  \A pattern \in Patterns, t \in Tiles :
    LET p == fsync_mm(pattern, t) IN
    /\ Above(p, 0) # {}
    /\ \A u \in Peers(pattern, t) : fsync_mm(pattern, u) = p

\* A request starts as its tile's own; of two that meet, the next node up, or
\* the wake, has both in full.
TeamsJoin ==
  \A pattern \in Patterns, t \in Tiles :
    LET p == fsync_mm(pattern, t) IN
    /\ Team(pattern, t, Lowest(Above(p, 0))) = {t}
    /\ \A l \in Above(p, 0), u \in Peers(pattern, t) :
         Siblings(Port(p), l, t, u) =>
           Team(pattern, t, l) \cup Team(pattern, u, l) =
             IF Above(p, l) = {} THEN Peers(pattern, t)
                                 ELSE Team(pattern, t, Lowest(Above(p, l)))

\* Equal requests of siblings, be they of different patterns, are of peers.
OnlyPeersMeet ==
  \A pattern, other \in Patterns, t, u \in Tiles :
    LET p == fsync_mm(pattern, t) IN
    fsync_mm(other, u) = p /\ (\E l \in Above(p, 0) : Siblings(Port(p), l, t, u))
      => u \in Peers(pattern, t)

Geometric == PeersAgree /\ TeamsJoin /\ OnlyPeersMeet
==============================================================================
