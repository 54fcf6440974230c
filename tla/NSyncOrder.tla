----------------------------- MODULE NSyncOrder -----------------------------
(***************************************************************************)
(* What makes the programs of a test a barrier, read off the programs      *)
(* alone. Each word is a handshake: within a round its writers add to it   *)
(* (or the only one stores a one) once each, and its owner awaits them all *)
(* and resets it. A tile that comes through an await knows that the        *)
(* writers it waited for have written, and with it all they knew then.     *)
(***************************************************************************)
EXTENDS Naturals, Sequences, FiniteSets

Writes(a, t, w) == a.op # "await" /\ a.tile = t /\ a.word = w /\ a.value # 0
Resets(a, t, w) == a.op = "put" /\ a.tile = t /\ a.word = w /\ a.value = 0

\* The accesses of a tile's program, by number.
Accesses(s, t) == 1..Len(s.prog[t])

HasReset(s, t, w) == \E i \in Accesses(s, t) : Resets(s.prog[t][i], t, w)
Writers(s, t, w)  == {d \in s.tiles : \E i \in Accesses(s, d) : Writes(s.prog[d][i], t, w)}

ResetAt(s, t, w)    == CHOOSE i \in Accesses(s, t) : Resets(s.prog[t][i], t, w)
WriteAt(s, d, t, w) == CHOOSE i \in Accesses(s, d) : Writes(s.prog[d][i], t, w)

Alike(a, b) ==
  /\ a.op # "await" /\ b.op # "await"
  /\ a.tile = b.tile /\ a.word = b.word /\ (a.value = 0 <=> b.value = 0)

Handshakes(s) ==
  \A t \in s.tiles : \A i \in Accesses(s, t) :
    LET p == s.prog[t]
        a == p[i]
        writers == Writers(s, a.tile, a.word)
    IN  /\ a.op = "await" => a.tile = t /\ \E j \in i..Len(p) : Resets(p[j], t, a.word)
        /\ a.op = "add" => a.value = 1
        /\ a.op = "put" /\ a.value # 0 => a.value = 1 /\ writers = {t}
        /\ a.op = "put" /\ a.value = 0 =>
             /\ a.tile = t /\ i > 1
             /\ p[i - 1] = [op |-> "await", tile |-> t, word |-> a.word,
                            value |-> Cardinality(writers)]
        /\ a.op # "await" => HasReset(s, a.tile, a.word)
        /\ \A j \in Accesses(s, t) : Alike(a, p[j]) => i = j

\* know[t][i]: accesses <<u, j>> that have been made in a round, as t can tell
\* when it has made its first i of the round. Those who write to the word it
\* awaits without having seen it through the await are early.
Early(s, know, t, i) ==
  LET w == s.prog[t][i].word
  IN  {d \in Writers(s, t, w) : <<t, i>> \notin know[d][WriteAt(s, d, t, w) - 1]}

\* What an await tells: if it takes all the early ones to come through it,
\* what each of them knew when it had written.
Heard(s, know, t, i) ==
  LET a     == s.prog[t][i]
      early == Early(s, know, t, i)
  IN  IF a.op = "await" /\ Cardinality(early) <= a.value
      THEN UNION {know[d][WriteAt(s, d, t, a.word)] : d \in early}
      ELSE {}

\* A tile resets a word when it knows all of its writers to have written,
\* writes to one when it knows the owner to be in the same round or, at the end
\* of the last one, to have reset it, and leaves when all have entered.
Ordered(s, know) ==
  \A t \in s.tiles :
    /\ know[t][0] = {}
    /\ \A u \in s.tiles : s.root[u] = s.root[t] => <<u, 1>> \in know[t][Len(s.prog[t])]
    /\ \A i \in Accesses(s, t) :
         LET a == s.prog[t][i] IN
         /\ \A z \in know[t][i] : z[1] \in s.tiles /\ z[2] \in Accesses(s, z[1])
         /\ know[t][i] \subseteq know[t][i - 1] \cup {<<t, i>>} \cup Heard(s, know, t, i)
         /\ Resets(a, t, a.word) =>
              \A d \in Writers(s, t, a.word) :
                <<d, WriteAt(s, d, t, a.word)>> \in know[t][i - 1]
         /\ Writes(a, a.tile, a.word) =>
              \/ <<a.tile, 1>> \in know[t][i - 1]
              \/ <<a.tile, ResetAt(s, a.tile, a.word)>> \in know[t][Len(s.prog[t])]

Orderly(s) == Handshakes(s) /\ \E know : Ordered(s, know)

\* A test around one tile, or several: a group is named by the tile that the
\* others send their requests to.
AroundOne(tiles, prog, rounds) ==
  [tiles |-> tiles, prog |-> prog,
   root |-> [t \in tiles |-> IF prog[t][1].op = "add" THEN prog[t][1].tile ELSE t],
   rounds |-> rounds]

\* The barriers around one tile: the others of its group add to its word and
\* await their answer, it awaits them all, resets its word and answers each.
Others(s, r) == {o \in s.tiles : s.root[o] = r /\ o # r}

OnFirstWord(op, tile, value) == [op |-> op, tile |-> tile, word |-> 0, value |-> value]

Asks(s, t) ==
  LET r == s.root[t]
  IN  /\ s.root[r] = r
      /\ s.prog[t] = <<OnFirstWord("add", r, 1), OnFirstWord("await", t, 1),
                       OnFirstWord("put", t, 0)>>

Answers(s, r) ==
  LET p == s.prog[r]
  IN  /\ p[1] = OnFirstWord("await", r, Cardinality(Others(s, r)))
      /\ p[2] = OnFirstWord("put", r, 0)
      /\ \A i \in 3..Len(p) :
           p[i].tile \in Others(s, r) /\ p[i] = OnFirstWord("add", p[i].tile, 1)
      /\ \A o \in Others(s, r) : \E i \in 3..Len(p) : p[i].tile = o
      /\ \A i, j \in 3..Len(p) : p[i].tile = p[j].tile => i = j

Central(s) == \A t \in s.tiles : IF s.root[t] = t THEN Answers(s, t) ELSE Asks(s, t)
=============================================================================
