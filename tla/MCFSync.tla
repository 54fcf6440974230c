------------------------------- MODULE MCFSync -------------------------------
(***************************************************************************)
(* Every pattern on the whole 2 x 2 mesh, and on some of the rows and      *)
(* columns of the 4 x 4 and 8 x 8 meshes: two rows share nodes.            *)
(***************************************************************************)
EXTENDS FSync

Program(n, tiles, patterns) == [n |-> n, tiles |-> tiles, patterns |-> patterns]

Rows(n, ys) == {t \in 0..(n * n - 1) : t \div n \in ys}
Cols(n, xs) == {t \in 0..(n * n - 1) : t % n \in xs}

Waiting ==
  {Program(2, 0..3, <<"hnbr", "vnbr", "hring", "vring", "rows", "cols", "global">>),
   Program(2, 0..3, <<"global", "cols", "global", "rows">>),
   Program(4, Rows(4, {1}), <<"hring", "hnbr", "rows">>),
   Program(4, Cols(4, {2}), <<"cols", "vring", "vnbr">>),
   Program(4, Rows(4, {0, 1}), <<"rows">>),
   Program(8, Cols(8, {5}), <<"cols">>)}

\* The geometry that the proofs ask for, on the smaller shipped networks. It is
\* of all tiles, whatever part of them a program uses.
ASSUME MeshesAreGeometric == \A n \in {2, 4, 8} : Mesh(n)!Geometric
==============================================================================
