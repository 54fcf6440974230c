---------------------------- MODULE NSyncProofs ----------------------------
(***************************************************************************)
(* Theorems about NSync: types for every test; and for every test whose    *)
(* programs are orderly, whatever its tiles, groups, words and rounds,     *)
(* that it is a barrier and that no store overwrites a request, an answer  *)
(* or a flag. The barriers around one tile and XY are orderly on every     *)
(* mesh.                                                                   *)
(***************************************************************************)
EXTENDS NSync, NSyncOrder, NSyncTests, FiniteSetTheorems, SequenceTheorems, TLAPS

\* How often a tile has made its i-th access.
Done(t, i) == round[t] + IF pc[t] > i THEN 1 ELSE 0

\* What the tiles know at each access, by an ordering of the test that runs.
Knowledge == CHOOSE k : Ordered(setup, k)

\* What a tile knows is so: in each round in which it has made i accesses,
\* the accesses it then knows of have been made as well.
KnowInv ==
  \A t \in Tiles : \A i \in Accesses(setup, t) : \A z \in Knowledge[t][i] :
    Done(z[1], z[2]) >= Done(t, i)

\* The rounds in which a word's owner has reset it, and a writer has written.
Cleared(t, w)    == Done(t, ResetAt(setup, t, w))
Written(d, t, w) == Done(d, WriteAt(setup, d, t, w))

Pending(t, w) == {d \in Writers(setup, t, w) : Written(d, t, w) > Cleared(t, w)}

\* A word counts its writers of the round that its owner has not reset yet.
CountInv ==
  \A t \in Tiles, w \in Words : HasReset(setup, t, w) =>
    /\ \A d \in Writers(setup, t, w) : Written(d, t, w) \in {Cleared(t, w), Cleared(t, w) + 1}
    /\ mem[t][w] = Cardinality(Pending(t, w))

IInv == TypeOK /\ KnowInv /\ CountInv

-----------------------------------------------------------------------------
(* Types, for every test.                                                  *)

LEMMA AccessTyped ==
  ASSUME TypeOK, NEW t \in Tiles
  PROVE  /\ setup.root \in [Tiles -> Tiles] /\ IsFiniteSet(Tiles) /\ Rounds \in Nat
         /\ Len(Prog(t)) \in Nat /\ Len(Prog(t)) >= 2
         /\ pc[t] \in Nat \ {0} /\ pc[t] <= Len(Prog(t)) /\ round[t] \in Nat
         /\ Current(t).tile \in Tiles /\ Current(t).word \in Words /\ Current(t).value \in Nat
<1> DEFINE Programs == [op : {"add", "await", "put"}, tile : Tiles, word : Words, value : Nat]
<1>1. /\ setup.root \in [Tiles -> Tiles] /\ IsFiniteSet(Tiles) /\ Rounds \in Nat
      /\ Prog(t) \in Seq(Programs) /\ Len(Prog(t)) >= 2
  BY NSyncAssumption DEF WellFormed, TypeOK, Tiles, Prog, Rounds
<1>2. Len(Prog(t)) \in Nat /\ Prog(t) \in [1..Len(Prog(t)) -> Programs]
  BY <1>1, LenProperties
<1>3. pc[t] \in Nat \ {0} /\ pc[t] <= Len(Prog(t)) /\ round[t] \in Nat
  BY DEF TypeOK
<1>4. Current(t) \in Programs
  BY <1>2, <1>3 DEF Current
<1> QED
  BY <1>1, <1>2, <1>3, <1>4

\* A step of one tile, variable by variable.
LEMMA Moves ==
  ASSUME TypeOK, NEW t \in Tiles, Advance(t)
  PROVE  /\ setup' = setup /\ Tiles' = Tiles
         /\ pc' \in [Tiles -> Nat \ {0}] /\ round' \in [Tiles -> Nat]
         /\ \A u \in Tiles \ {t} : pc'[u] = pc[u] /\ round'[u] = round[u]
         /\ pc'[t] = IF LastAccess(t) THEN 1 ELSE pc[t] + 1
         /\ round'[t] = IF LastAccess(t) THEN round[t] + 1 ELSE round[t]
BY DEF Advance, TypeOK, Tiles

LEMMA TypeStep ==
  ASSUME TypeOK, NEW t \in Tiles, Poll(t) \/ Store(t) \/ Add(t)
  PROVE  TypeOK'
<1>1. Advance(t) /\ Running(t)
  BY DEF Poll, Store, Add
<1>2. /\ setup' = setup /\ Tiles' = Tiles
      /\ pc' \in [Tiles -> Nat \ {0}] /\ round' \in [Tiles -> Nat]
  BY <1>1, Moves
<1>3. \A u \in Tiles : round'[u] <= Rounds'
  <2>1. Rounds' = Rounds
    BY <1>2 DEF Rounds
  <2>2. round[t] \in Nat /\ Rounds \in Nat /\ round[t] + 1 <= Rounds
    BY <1>1, AccessTyped DEF Running
  <2> QED
    BY <1>1, <2>1, <2>2, Moves DEF TypeOK
<1>4. \A u \in Tiles : pc'[u] <= Len(Prog(u)')
  <2>1. \A u \in Tiles : Prog(u)' = Prog(u)
    BY <1>2 DEF Prog
  <2>2. pc'[t] <= Len(Prog(t))
    BY <1>1, AccessTyped, Moves DEF LastAccess
  <2> QED
    BY <1>1, <2>1, <2>2, Moves DEF TypeOK
<1>5. mem' \in [Tiles -> [Words -> Nat]]
  <2>1. mem \in [Tiles -> [Words -> Nat]]
    BY DEF TypeOK
  <2> DEFINE a == Current(t)
  <2>2. a.tile \in Tiles /\ a.word \in Words /\ a.value \in Nat
    BY AccessTyped
  <2>3. mem[a.tile][a.word] + a.value \in Nat
    BY <2>1, <2>2
  <2> HIDE DEF a
  <2>4. CASE Poll(t)
    BY <1>2, <2>1, <2>4 DEF Poll
  <2>5. CASE Store(t)
    <3>1. mem' = [mem EXCEPT ![a.tile][a.word] = a.value]
      BY <2>5 DEF Store, a
    <3> QED
      BY <1>2, <2>1, <2>2, <3>1
  <2>6. CASE Add(t)
    <3>1. mem' = [mem EXCEPT ![a.tile][a.word] = mem[a.tile][a.word] + a.value]
      BY <2>6 DEF Add, a
    <3> QED
      BY <1>2, <2>1, <2>2, <2>3, <3>1
  <2> QED
    BY <2>4, <2>5, <2>6
<1> QED
  BY <1>2, <1>3, <1>4, <1>5 DEF TypeOK

LEMMA InitTypes == Init => TypeOK
<1> SUFFICES ASSUME Init
             PROVE  TypeOK
  OBVIOUS
<1>1. \A t \in Tiles : Len(Prog(t)) \in Nat /\ Len(Prog(t)) >= 2 /\ Rounds \in Nat
  <2> SUFFICES ASSUME NEW t \in Tiles
               PROVE  Len(Prog(t)) \in Nat /\ Len(Prog(t)) >= 2 /\ Rounds \in Nat
    OBVIOUS
  <2>1. /\ Rounds \in Nat /\ Len(Prog(t)) >= 2
        /\ Prog(t) \in Seq([op : {"add", "await", "put"}, tile : Tiles,
                            word : Words, value : Nat])
    BY NSyncAssumption DEF WellFormed, Init, Tiles, Prog, Rounds
  <2> QED
    BY <2>1
<1> QED
  BY <1>1 DEF Init, TypeOK

\* Types, for every test: no tile runs on past its last access or its last
\* round.
THEOREM TypeCorrect == Safe => []TypeOK
<1>1. Init => TypeOK
  BY InitTypes
<1>2. TypeOK /\ [Next]_vars => TypeOK'
  <2> SUFFICES ASSUME TypeOK, [Next]_vars
               PROVE  TypeOK'
    OBVIOUS
  <2>1. CASE Next
    BY <2>1, TypeStep DEF Next
  <2>2. CASE UNCHANGED vars
    BY <2>2 DEF vars, TypeOK, Tiles, Prog, Rounds
  <2> QED
    BY <2>1, <2>2
<1> QED
  BY <1>1, <1>2, PTL DEF Safe

-----------------------------------------------------------------------------
(* Facts about the programs.                                               *)

Good == TypeOK /\ Orderly(setup)

LEMMA Places ==
  ASSUME TypeOK, NEW t \in Tiles
  PROVE  /\ Accesses(setup, t) = 1..Len(Prog(t)) /\ Len(Prog(t)) \in Nat
         /\ \A i \in Accesses(setup, t) :
              /\ setup.prog[t][i].tile \in Tiles /\ setup.prog[t][i].word \in Words
              /\ setup.prog[t][i].value \in Nat
              /\ setup.prog[t][i].op \in {"add", "await", "put"}
              /\ setup.prog[t][i] = [op |-> setup.prog[t][i].op, tile |-> setup.prog[t][i].tile,
                                     word |-> setup.prog[t][i].word,
                                     value |-> setup.prog[t][i].value]
         /\ pc[t] \in Accesses(setup, t) /\ 1 \in Accesses(setup, t)
         /\ Current(t) = setup.prog[t][pc[t]]
<1> DEFINE All == [op : {"add", "await", "put"}, tile : Tiles, word : Words, value : Nat]
<1>1. Prog(t) \in Seq(All) /\ Prog(t) = setup.prog[t]
  BY NSyncAssumption DEF WellFormed, TypeOK, Tiles, Prog
<1>2. Len(Prog(t)) \in Nat /\ Prog(t) \in [1..Len(Prog(t)) -> All]
  BY <1>1, LenProperties
<1>3. Accesses(setup, t) = 1..Len(Prog(t))
  BY <1>1 DEF Accesses
<1>4. pc[t] \in Nat \ {0} /\ pc[t] <= Len(Prog(t)) /\ Len(Prog(t)) >= 2
  BY AccessTyped
<1>5. pc[t] \in Accesses(setup, t) /\ 1 \in Accesses(setup, t)
  BY <1>2, <1>3, <1>4
<1>6. \A i \in Accesses(setup, t) : setup.prog[t][i] \in All
  BY <1>1, <1>2, <1>3
<1> QED
  BY <1>1, <1>2, <1>3, <1>5, <1>6 DEF Current

\* A writer writes to a word once in a round.
LEMMA TheWrite ==
  ASSUME Good, NEW t \in Tiles, NEW w \in Words, NEW d \in Writers(setup, t, w)
  PROVE  /\ d \in Tiles /\ WriteAt(setup, d, t, w) \in Accesses(setup, d)
         /\ Writes(setup.prog[d][WriteAt(setup, d, t, w)], t, w)
         /\ \A i \in Accesses(setup, d) :
              Writes(setup.prog[d][i], t, w) => i = WriteAt(setup, d, t, w)
<1>1. d \in Tiles /\ \E i \in Accesses(setup, d) : Writes(setup.prog[d][i], t, w)
  BY DEF Writers, Tiles
<1> DEFINE k == WriteAt(setup, d, t, w)
<1>2. k \in Accesses(setup, d) /\ Writes(setup.prog[d][k], t, w)
  BY <1>1 DEF WriteAt
<1>3. ASSUME NEW i \in Accesses(setup, d), Writes(setup.prog[d][i], t, w)
      PROVE  i = k
  <2>1. Alike(setup.prog[d][i], setup.prog[d][k])
    BY <1>2, <1>3 DEF Writes, Alike
  <2> QED
    BY <1>1, <1>2, <2>1 DEF Good, Orderly, Handshakes, Tiles
<1> QED
  BY <1>1, <1>2, <1>3

LEMMA TheReset ==
  ASSUME Good, NEW t \in Tiles, NEW w \in Words, HasReset(setup, t, w)
  PROVE  /\ ResetAt(setup, t, w) \in Accesses(setup, t)
         /\ Resets(setup.prog[t][ResetAt(setup, t, w)], t, w)
         /\ \A i \in Accesses(setup, t) :
              Resets(setup.prog[t][i], t, w) => i = ResetAt(setup, t, w)
<1> DEFINE k == ResetAt(setup, t, w)
<1>1. k \in Accesses(setup, t) /\ Resets(setup.prog[t][k], t, w)
  BY DEF HasReset, ResetAt
<1>2. ASSUME NEW i \in Accesses(setup, t), Resets(setup.prog[t][i], t, w)
      PROVE  i = k
  <2>1. Alike(setup.prog[t][i], setup.prog[t][k])
    BY <1>1, <1>2 DEF Resets, Alike
  <2> QED
    BY <1>1, <1>2, <2>1 DEF Good, Orderly, Handshakes, Tiles
<1> QED
  BY <1>1, <1>2

\* The rules of a handshake for the access that is due.
LEMMA Rules ==
  ASSUME Good, NEW t \in Tiles, NEW a, a = Current(t)
  PROVE  /\ a.tile \in Tiles /\ a.word \in Words /\ a.value \in Nat
         /\ a.op \in {"add", "await", "put"}
         /\ a.op = "await" =>
              a.tile = t /\ \E j \in pc[t]..Len(setup.prog[t]) : Resets(setup.prog[t][j], t, a.word)
         /\ a.op = "add" => a.value = 1
         /\ a.op = "put" /\ a.value # 0 =>
              a.value = 1 /\ Writers(setup, a.tile, a.word) = {t}
         /\ a.op = "put" /\ a.value = 0 =>
              a.tile = t /\ pc[t] > 1
                /\ Previous(t).value = Cardinality(Writers(setup, a.tile, a.word))
         /\ a.op # "await" => HasReset(setup, a.tile, a.word)
<1>1. a = setup.prog[t][pc[t]] /\ pc[t] \in Accesses(setup, t) /\ Handshakes(setup)
  BY Places DEF Good, Orderly
<1>2. a.tile \in Tiles /\ a.word \in Words /\ a.value \in Nat /\ a.op \in {"add", "await", "put"}
  BY <1>1, Places DEF Good
<1>3. /\ a.op = "await" =>
           a.tile = t /\ \E j \in pc[t]..Len(setup.prog[t]) : Resets(setup.prog[t][j], t, a.word)
      /\ a.op = "add" => a.value = 1
      /\ a.op = "put" /\ a.value # 0 =>
           a.value = 1 /\ Writers(setup, a.tile, a.word) = {t}
      /\ a.op # "await" => HasReset(setup, a.tile, a.word)
  <2>1. \A i \in Accesses(setup, t) :
          LET p == setup.prog[t]
              b == p[i]
          IN  /\ b.op = "await" => b.tile = t /\ \E j \in i..Len(p) : Resets(p[j], t, b.word)
              /\ b.op = "add" => b.value = 1
              /\ b.op = "put" /\ b.value # 0 =>
                   b.value = 1 /\ Writers(setup, b.tile, b.word) = {t}
              /\ b.op # "await" => HasReset(setup, b.tile, b.word)
    BY <1>1 DEF Handshakes, Tiles
  <2> QED
    BY <1>1, <2>1
<1>4. a.op = "put" /\ a.value = 0 =>
        /\ a.tile = t /\ pc[t] > 1
        /\ setup.prog[t][pc[t] - 1] =
             [op |-> "await", tile |-> t, word |-> a.word,
              value |-> Cardinality(Writers(setup, a.tile, a.word))]
  BY <1>1 DEF Handshakes, Tiles
<1> QED
  BY <1>2, <1>3, <1>4 DEF Previous, Prog

\* The ordering of the test that runs.
LEMMA Known ==
  ASSUME Good
  PROVE  Ordered(setup, Knowledge)
BY DEF Good, Orderly, Knowledge

-----------------------------------------------------------------------------
(* A step adds one to what its tile has done of that access.               *)

LEMMA DoneSteps ==
  ASSUME TypeOK, NEW t \in Tiles, Advance(t), NEW u \in Tiles, NEW i \in Accesses(setup, u)
  PROVE  Done(u, i)' = IF u = t /\ i = pc[t] THEN Done(u, i) + 1 ELSE Done(u, i)
<1>1. CASE u # t
  BY <1>1, Moves DEF Done
<1>2. CASE u = t
  <2>1. /\ pc[t] \in Nat \ {0} /\ pc[t] <= Len(Prog(t)) /\ round[t] \in Nat /\ Len(Prog(t)) \in Nat
        /\ i \in 1..Len(Prog(t))
    BY <1>2, AccessTyped, Places
  <2>2. /\ pc'[t] = IF pc[t] = Len(Prog(t)) THEN 1 ELSE pc[t] + 1
        /\ round'[t] = IF pc[t] = Len(Prog(t)) THEN round[t] + 1 ELSE round[t]
    BY Moves DEF LastAccess
  <2> QED
    BY <1>2, <2>1, <2>2 DEF Done
<1> QED
  BY <1>1, <1>2

\* The access that is due, the one before it, and the last.
LEMMA Due ==
  ASSUME TypeOK, NEW t \in Tiles
  PROVE  /\ \A i : Done(t, i) \in Nat
         /\ Done(t, pc[t]) = round[t]
         /\ pc[t] > 1 => Done(t, pc[t] - 1) = round[t] + 1
         /\ Done(t, Len(Prog(t))) = round[t]
         /\ \A i, j \in Nat : i <= j => Done(t, j) <= Done(t, i)
<1>1. pc[t] \in Nat \ {0} /\ pc[t] <= Len(Prog(t)) /\ round[t] \in Nat /\ Len(Prog(t)) \in Nat
  BY AccessTyped
<1> QED
  BY <1>1 DEF Done

-----------------------------------------------------------------------------
(* What a tile may rely on when an access is due.                          *)

Steps(t) == Poll(t) \/ Store(t) \/ Add(t)

\* What it knows before the access is so in this round.
LEMMA Relied ==
  ASSUME Good, KnowInv, NEW t \in Tiles, NEW z \in Knowledge[t][pc[t] - 1]
  PROVE  z[1] \in Tiles /\ z[2] \in Accesses(setup, z[1]) /\ Done(z[1], z[2]) >= round[t] + 1
<1>1. Ordered(setup, Knowledge) /\ pc[t] \in Nat \ {0} /\ pc[t] \in Accesses(setup, t)
      /\ Accesses(setup, t) = 1..Len(Prog(t)) /\ Len(Prog(t)) \in Nat
  BY Known, AccessTyped, Places DEF Good
<1>2. pc[t] # 1
  BY <1>1 DEF Ordered, Tiles
<1>3. pc[t] - 1 \in Accesses(setup, t) /\ pc[t] > 1
  BY <1>1, <1>2
<1>4. Done(t, pc[t] - 1) = round[t] + 1
  BY <1>3, Due DEF Good
<1> QED
  BY <1>1, <1>3, <1>4 DEF KnowInv, Ordered, Tiles

\* What an await tells is so: the writers it has awaited are those that do not
\* wait for it, as the others have not seen it through.
LEMMA Told ==
  ASSUME Good, KnowInv, CountInv, NEW t \in Tiles, Steps(t),
         NEW z \in Heard(setup, Knowledge, t, pc[t])
  PROVE  Done(z[1], z[2]) >= round[t] + 1
<1> DEFINE a == Current(t)
           w == a.word
           early == Early(setup, Knowledge, t, pc[t])
           W == Writers(setup, t, w)
<1>1. /\ a = setup.prog[t][pc[t]] /\ pc[t] \in Accesses(setup, t) /\ pc[t] \in Nat \ {0}
      /\ a.value \in Nat /\ w \in Words /\ IsFiniteSet(Tiles) /\ round[t] \in Nat
  BY Places, AccessTyped DEF Good
<1>2. PICK d \in early : z \in Knowledge[d][WriteAt(setup, d, t, w)]
  BY <1>1 DEF Heard
<1>3. a.op = "await" /\ Cardinality(early) <= a.value
  BY <1>1 DEF Heard
<1>4. mem[a.tile][w] >= a.value
  BY <1>3 DEF Steps, Poll, Store, Add
<1>5. a.tile = t /\ HasReset(setup, t, w) /\ Cleared(t, w) = round[t]
  <2>1. /\ a.tile = t
        /\ \E j \in pc[t] .. Len(setup.prog[t]) : Resets(setup.prog[t][j], t, w)
    BY <1>3, Rules
  <2>2. PICK j \in pc[t] .. Len(setup.prog[t]) : Resets(setup.prog[t][j], t, w)
    BY <2>1
  <2>3. j # pc[t] /\ j \in Accesses(setup, t)
    BY <1>1, <1>3, <2>2 DEF Accesses, Resets
  <2>4. HasReset(setup, t, w)
    BY <2>2, <2>3 DEF HasReset
  <2>5. ResetAt(setup, t, w) = j
    BY <1>1, <2>2, <2>3, <2>4, TheReset
  <2>6. ~(pc[t] > j)
    BY <1>1, <2>2
  <2> QED
    BY <1>1, <2>1, <2>4, <2>5, <2>6 DEF Cleared, Done
<1>6. Pending(t, w) \subseteq early
  <2> SUFFICES ASSUME NEW e \in Pending(t, w), e \notin early
               PROVE  FALSE
    OBVIOUS
  <2> DEFINE k == WriteAt(setup, e, t, w)
  <2>1. e \in W /\ Written(e, t, w) > round[t]
    BY <1>5 DEF Pending
  <2>2. e \in Tiles /\ k \in Accesses(setup, e)
    BY <1>1, <2>1, TheWrite
  <2>3. <<t, pc[t]>> \in Knowledge[e][k - 1]
    BY <1>1, <2>1 DEF Early
  <2>4. Knowledge[e][0] = {}
    BY <2>2, Known DEF Ordered, Tiles
  <2>5. k - 1 \in Accesses(setup, e) /\ k \in Nat /\ k - 1 <= k /\ k - 1 \in Nat
    <3>1. Accesses(setup, e) = 1..Len(Prog(e)) /\ Len(Prog(e)) \in Nat
      BY <2>2, Places DEF Good
    <3>2. k # 1
      BY <2>3, <2>4
    <3> HIDE DEF k
    <3> QED
      BY <2>2, <3>1, <3>2
  <2>6. Done(t, pc[t]) >= Done(e, k - 1)
    BY <2>2, <2>3, <2>5 DEF KnowInv
  <2>7. Done(e, k) <= Done(e, k - 1) /\ Done(e, k) \in Nat /\ Done(e, k - 1) \in Nat
    BY <2>2, <2>5, Due DEF Good
  <2>8. Done(t, pc[t]) = round[t]
    BY Due DEF Good
  <2> QED
    BY <1>1, <2>1, <2>6, <2>7, <2>8 DEF Written
<1>7. d \in Pending(t, w)
  <2>1. W \subseteq Tiles /\ early \subseteq W
    BY <1>1 DEF Writers, Tiles, Early
  <2>2. IsFiniteSet(early)
    BY <1>1, <2>1, FS_Subset
  <2>3. mem[t][w] = Cardinality(Pending(t, w))
    BY <1>1, <1>5 DEF CountInv
  <2>4. Cardinality(Pending(t, w)) >= Cardinality(early)
    <3>1. Cardinality(early) \in Nat /\ Cardinality(Pending(t, w)) \in Nat
      BY <1>6, <2>2, FS_Subset, FS_CardinalityType
    <3> QED
      BY <1>1, <1>3, <1>4, <1>5, <2>3, <3>1
  <2>5. Pending(t, w) = early
    <3> HIDE DEF early
    <3>1. /\ IsFiniteSet(Pending(t, w)) /\ Cardinality(Pending(t, w)) <= Cardinality(early)
          /\ Cardinality(Pending(t, w)) = Cardinality(early) => Pending(t, w) = early
      BY <1>6, <2>2, FS_Subset
    <3>2. Cardinality(early) \in Nat /\ Cardinality(Pending(t, w)) \in Nat
      BY <2>2, <3>1, FS_CardinalityType
    <3> QED
      BY <2>4, <3>1, <3>2
  <2> QED
    BY <1>2, <2>5
<1>8. Written(d, t, w) >= round[t] + 1 /\ d \in W
  <2>1. Written(d, t, w) > round[t] /\ d \in W
    BY <1>5, <1>7 DEF Pending
  <2>2. Written(d, t, w) \in Nat
    BY <1>1, <2>1, TheWrite, Due DEF Good, Written
  <2> QED
    BY <1>1, <2>1, <2>2
<1>9. /\ Done(z[1], z[2]) >= Written(d, t, w)
      /\ Done(z[1], z[2]) \in Nat /\ Written(d, t, w) \in Nat
  <2>1. d \in Tiles /\ WriteAt(setup, d, t, w) \in Accesses(setup, d)
    BY <1>1, <1>8, TheWrite
  <2>2. z[1] \in Tiles
    BY <1>2, <2>1, Known DEF Ordered, Tiles
  <2> QED
    BY <1>2, <2>1, <2>2, Due DEF KnowInv, Written, Good
<1> QED
  BY <1>1, <1>8, <1>9

-----------------------------------------------------------------------------
(* The invariant.                                                          *)

LEMMA KnowStep ==
  ASSUME Good, KnowInv, CountInv, NEW t \in Tiles, Steps(t)
  PROVE  KnowInv'
<1>1. Advance(t)
  BY DEF Steps, Poll, Store, Add
<1>2. setup' = setup /\ Tiles' = Tiles /\ Knowledge' = Knowledge
  BY <1>1, Moves DEF Good, Knowledge
<1>3. SUFFICES ASSUME NEW u \in Tiles, NEW i \in Accesses(setup, u), NEW z \in Knowledge[u][i]
               PROVE  Done(z[1], z[2])' >= Done(u, i)'
  BY <1>2 DEF KnowInv
<1>4. /\ z[1] \in Tiles /\ z[2] \in Accesses(setup, z[1])
      /\ Knowledge[u][i] \subseteq
           Knowledge[u][i - 1] \cup {<<u, i>>} \cup Heard(setup, Knowledge, u, i)
  BY Known DEF Ordered, Tiles
<1>5. Done(z[1], z[2]) \in Nat /\ Done(u, i) \in Nat /\ Done(z[1], z[2]) >= Done(u, i)
  BY <1>4, Due DEF Good, KnowInv
<1>6. Done(z[1], z[2])' >= Done(z[1], z[2])
  BY <1>1, <1>4, <1>5, DoneSteps DEF Good
<1>7. CASE ~(u = t /\ i = pc[t])
  <2>1. Done(u, i)' = Done(u, i)
    BY <1>1, <1>7, DoneSteps DEF Good
  <2> HIDE DEF Done
  <2>2. Done(z[1], z[2])' \in Nat
    BY <1>1, <1>4, <1>5, DoneSteps DEF Good
  <2> QED
    BY <1>5, <1>6, <2>1, <2>2
<1>8. CASE u = t /\ i = pc[t]
  <2>1. Done(u, i)' = round[t] + 1 /\ round[t] \in Nat
    BY <1>1, <1>8, DoneSteps, Due, AccessTyped DEF Good
  <2>2. CASE z \in Knowledge[u][i - 1]
    <3>1. Done(z[1], z[2]) >= round[t] + 1
      BY <1>8, <2>2, Relied
    <3> QED
      BY <1>1, <1>4, <1>5, <2>1, <3>1, DoneSteps DEF Good
  <2>3. CASE z = <<u, i>>
    <3>1. Done(z[1], z[2])' = Done(u, i)'
      BY <2>3
    <3> QED
      BY <2>1, <3>1
  <2>4. CASE z \in Heard(setup, Knowledge, u, i)
    <3>1. Done(z[1], z[2]) >= round[t] + 1
      BY <1>8, <2>4, Told
    <3> QED
      BY <1>1, <1>4, <1>5, <2>1, <3>1, DoneSteps DEF Good
  <2> QED
    BY <1>4, <2>2, <2>3, <2>4
<1> QED
  BY <1>7, <1>8

\* Whoever is to write to a word has written to it as often as it was reset.
LEMMA BeforeWrite ==
  ASSUME Good, KnowInv, CountInv, NEW t \in Tiles,
         NEW u \in Tiles, NEW w \in Words, Writes(Current(t), u, w)
  PROVE  /\ HasReset(setup, u, w) /\ t \in Writers(setup, u, w)
         /\ WriteAt(setup, t, u, w) = pc[t]
         /\ Written(t, u, w) = Cleared(u, w) /\ Cleared(u, w) \in Nat
<1> DEFINE a == Current(t)
<1>1. /\ a = setup.prog[t][pc[t]] /\ pc[t] \in Accesses(setup, t)
      /\ a.tile = u /\ a.word = w /\ a.op # "await"
  BY Places DEF Good, Writes
<1>2. HasReset(setup, u, w)
  BY <1>1, Rules
<1>3. t \in Writers(setup, u, w)
  BY <1>1 DEF Writers, Tiles
<1>4. WriteAt(setup, t, u, w) = pc[t]
  BY <1>1, <1>3, TheWrite
<1>5. Written(t, u, w) = round[t] /\ round[t] \in Nat
  BY <1>4, Due, AccessTyped DEF Written, Good
<1>6. Cleared(u, w) >= round[t] /\ Cleared(u, w) \in Nat
  <2> DEFINE k == ResetAt(setup, u, w)
  <2>0. k \in Accesses(setup, u) /\ Done(u, k) \in Nat /\ round[u] \in Nat /\ Done(u, k) >= round[u]
        /\ Done(u, 1) \in Nat /\ Done(u, 1) <= round[u] + 1
    <3>1. k \in Accesses(setup, u) /\ round[u] \in Nat
      BY <1>2, TheReset, AccessTyped DEF Good
    <3> QED
      BY <3>1 DEF Done
  <2>1. <<u, 1>> \in Knowledge[t][pc[t] - 1] \/ <<u, k>> \in Knowledge[t][Len(setup.prog[t])]
    BY <1>1, Known DEF Ordered, Tiles
  <2>2. CASE <<u, 1>> \in Knowledge[t][pc[t] - 1]
    <3>1. Done(u, 1) >= round[t] + 1
      BY <2>2, Relied
    <3> QED
      BY <1>5, <2>0, <3>1 DEF Cleared
  <2>3. CASE <<u, k>> \in Knowledge[t][Len(setup.prog[t])]
    <3>1. Len(setup.prog[t]) \in Accesses(setup, t)
      <4>1. Len(Prog(t)) \in 1..Len(Prog(t)) /\ Accesses(setup, t) = 1..Len(Prog(t))
        BY AccessTyped, Places DEF Good
      <4> QED
        BY <4>1 DEF Prog
    <3>2. Done(u, k) >= Done(t, Len(setup.prog[t]))
      BY <2>3, <3>1 DEF KnowInv
    <3>3. Done(t, Len(setup.prog[t])) = round[t]
      BY Due DEF Good, Prog
    <3> QED
      BY <2>0, <3>2, <3>3 DEF Cleared
  <2> QED
    BY <2>1, <2>2, <2>3
<1>7. Written(t, u, w) \in {Cleared(u, w), Cleared(u, w) + 1}
  BY <1>2, <1>3 DEF CountInv
<1> QED
  BY <1>2, <1>3, <1>4, <1>5, <1>6, <1>7

\* Whoever is to reset a word has all its writers' additions in it.
LEMMA BeforeReset ==
  ASSUME Good, KnowInv, CountInv, NEW t \in Tiles, NEW w \in Words, Resets(Current(t), t, w)
  PROVE  /\ HasReset(setup, t, w) /\ ResetAt(setup, t, w) = pc[t]
         /\ Pending(t, w) = Writers(setup, t, w)
         /\ \A d \in Writers(setup, t, w) : Written(d, t, w) = Cleared(t, w) + 1
<1>1. /\ Current(t) = setup.prog[t][pc[t]] /\ pc[t] \in Accesses(setup, t)
  BY Places DEF Good
<1>2. HasReset(setup, t, w)
  BY <1>1 DEF HasReset
<1>3. ResetAt(setup, t, w) = pc[t]
  BY <1>1, <1>2, TheReset
<1>4. Cleared(t, w) = round[t] /\ round[t] \in Nat
  BY <1>3, Due, AccessTyped DEF Cleared, Good
<1>5. ASSUME NEW d \in Writers(setup, t, w)
      PROVE  Written(d, t, w) = Cleared(t, w) + 1
  <2>1. <<d, WriteAt(setup, d, t, w)>> \in Knowledge[t][pc[t] - 1]
    <3>1. Current(t).word = w
      BY DEF Resets
    <3> QED
      BY <1>1, <3>1, Known DEF Ordered, Tiles
  <2>2. Written(d, t, w) >= round[t] + 1
    BY <2>1, Relied DEF Written
  <2>3. Written(d, t, w) \in {Cleared(t, w), Cleared(t, w) + 1}
    BY <1>2 DEF CountInv
  <2> QED
    BY <1>4, <2>2, <2>3
<1>6. Pending(t, w) = Writers(setup, t, w)
  BY <1>4, <1>5 DEF Pending
<1> QED
  BY <1>2, <1>3, <1>5, <1>6

LEMMA CountStep ==
  ASSUME Good, KnowInv, CountInv, NEW t \in Tiles, Steps(t)
  PROVE  CountInv'
<1> DEFINE a == Current(t)
<1>1. Advance(t)
  BY DEF Steps, Poll, Store, Add
<1>2. setup' = setup /\ Tiles' = Tiles
  BY <1>1, Moves DEF Good
<1>3. SUFFICES ASSUME NEW u \in Tiles, NEW w \in Words, HasReset(setup, u, w)
               PROVE  /\ \A d \in Writers(setup, u, w) :
                           Written(d, u, w)' \in {Cleared(u, w)', Cleared(u, w)' + 1}
                      /\ mem'[u][w] = Cardinality(Pending(u, w)')
  BY <1>2 DEF CountInv
<1> DEFINE W == Writers(setup, u, w)
<1>4. /\ \A d \in W : Written(d, u, w) \in {Cleared(u, w), Cleared(u, w) + 1}
      /\ mem[u][w] = Cardinality(Pending(u, w))
  BY <1>3 DEF CountInv
<1>5. Pending(u, w)' = {d \in W : Written(d, u, w)' > Cleared(u, w)'}
  BY <1>2 DEF Pending
<1>6. /\ a.tile \in Tiles /\ a.word \in Words /\ a.value \in Nat
      /\ mem \in [Tiles -> [Words -> Nat]] /\ a = setup.prog[t][pc[t]]
      /\ pc[t] \in Accesses(setup, t)
  BY Rules, Places DEF Good, TypeOK
<1> DEFINE Reset     == ResetAt(setup, u, w)
           Write(d)  == WriteAt(setup, d, u, w)
           IfDue(x)  == IF x THEN 1 ELSE 0
<1>7. /\ Cleared(u, w)' = Cleared(u, w) + IfDue(u = t /\ Reset = pc[t])
      /\ Cleared(u, w) \in Nat /\ Resets(setup.prog[u][Reset], u, w)
  <2>1. Reset \in Accesses(setup, u) /\ Resets(setup.prog[u][Reset], u, w)
    BY <1>3, TheReset
  <2>2. Cleared(u, w) \in Nat
    BY Due DEF Good, Cleared
  <2> QED
    BY <1>1, <1>2, <2>1, <2>2, DoneSteps DEF Cleared, Good
<1>8. \A d \in W :
        /\ Written(d, u, w)' = Written(d, u, w) + IfDue(d = t /\ Write(d) = pc[t])
        /\ Written(d, u, w) \in Nat /\ Writes(setup.prog[d][Write(d)], u, w)
  <2> SUFFICES ASSUME NEW d \in W
               PROVE  /\ Written(d, u, w)' = Written(d, u, w) + IfDue(d = t /\ Write(d) = pc[t])
                      /\ Written(d, u, w) \in Nat /\ Writes(setup.prog[d][Write(d)], u, w)
    OBVIOUS
  <2>1. /\ d \in Tiles /\ Write(d) \in Accesses(setup, d)
        /\ Writes(setup.prog[d][Write(d)], u, w)
    BY TheWrite
  <2>2. Written(d, u, w) \in Nat
    BY <2>1, Due DEF Good, Written
  <2> QED
    BY <1>1, <1>2, <2>1, <2>2, DoneSteps DEF Written, Good
<1>9. CASE Writes(a, u, w)
  <2>1. /\ t \in W /\ WriteAt(setup, t, u, w) = pc[t]
        /\ Written(t, u, w) = Cleared(u, w) /\ Cleared(u, w) \in Nat
    BY <1>9, BeforeWrite
  <2>2. Cleared(u, w)' = Cleared(u, w)
    BY <1>6, <1>7, <1>9 DEF Resets, Writes
  <2>3. t \notin Pending(u, w) /\ Pending(u, w)' = Pending(u, w) \cup {t}
    BY <1>5, <1>8, <2>1, <2>2 DEF Pending
  <2>4. IsFiniteSet(Pending(u, w)) /\ Pending(u, w) \subseteq W
    <3>1. Pending(u, w) \subseteq Tiles /\ Pending(u, w) \subseteq W
      BY DEF Pending, Writers, Tiles
    <3> QED
      BY <3>1, AccessTyped, FS_Subset DEF Good
  <2>5. Cardinality(Pending(u, w)') = mem[u][w] + 1
    BY <1>4, <2>3, <2>4, FS_AddElement
  <2>6. mem'[u][w] = mem[u][w] + 1
    <3>1. a.tile = u /\ a.word = w /\ a.op # "await" /\ a.value # 0
      BY <1>9 DEF Writes
    <3>2. CASE a.op = "add"
      <4>1. a.value = 1
        BY <3>2, Rules
      <4>2. mem' = [mem EXCEPT ![u][w] = mem[u][w] + 1]
        BY <3>1, <3>2, <4>1 DEF Steps, Poll, Store, Add
      <4> QED
        BY <1>6, <4>2
    <3>3. CASE a.op = "put"
      <4>1. a.value = 1 /\ W = {t}
        BY <3>1, <3>3, Rules
      <4>2. Pending(u, w) = {}
        BY <2>3, <2>4, <4>1
      <4>3. mem[u][w] = 0
        BY <1>4, <4>2, FS_EmptySet
      <4>4. mem' = [mem EXCEPT ![u][w] = 1]
        BY <3>1, <3>3, <4>1 DEF Steps, Poll, Store, Add
      <4> QED
        BY <1>6, <4>3, <4>4
    <3> QED
      BY <3>1, <3>2, <3>3, Rules
  <2>7. \A d \in W : Written(d, u, w)' \in {Cleared(u, w)', Cleared(u, w)' + 1}
    BY <1>4, <1>8, <2>1, <2>2
  <2> QED
    BY <2>5, <2>6, <2>7
<1>10. CASE Resets(a, u, w)
  <2>1. u = t
    BY <1>10, Rules DEF Resets
  <2>2. /\ ResetAt(setup, u, w) = pc[t]
        /\ \A d \in W : Written(d, u, w) = Cleared(u, w) + 1
    BY <1>10, <2>1, BeforeReset
  <2>3. Cleared(u, w)' = Cleared(u, w) + 1
    BY <1>7, <2>1, <2>2
  <2>4. \A d \in W : Written(d, u, w)' = Cleared(u, w) + 1
    <3>1. \A d \in W : ~(d = t /\ WriteAt(setup, d, u, w) = pc[t])
      BY <1>6, <1>8, <1>10 DEF Writes, Resets
    <3> QED
      BY <1>8, <2>2, <3>1
  <2>5. Pending(u, w)' = {}
    BY <1>5, <1>7, <2>3, <2>4
  <2>6. mem'[u][w] = 0
    <3>1. mem' = [mem EXCEPT ![u][w] = 0]
      BY <1>10 DEF Steps, Poll, Store, Add, Resets
    <3> QED
      BY <1>6, <3>1
  <2> QED
    BY <1>7, <2>3, <2>4, <2>5, <2>6, FS_EmptySet
<1>11. CASE ~Writes(a, u, w) /\ ~Resets(a, u, w)
  <2>1. Cleared(u, w)' = Cleared(u, w)
    BY <1>6, <1>7, <1>11
  <2>2. \A d \in W : Written(d, u, w)' = Written(d, u, w)
    BY <1>6, <1>8, <1>11
  <2>3. Pending(u, w)' = Pending(u, w)
    BY <1>5, <2>1, <2>2 DEF Pending
  <2>4. mem'[u][w] = mem[u][w]
    <3>1. a.op = "await" \/ a.tile # u \/ a.word # w
      BY <1>11, Rules DEF Writes, Resets
    <3>2. CASE a.op = "await"
      BY <3>2 DEF Steps, Poll, Store, Add
    <3>3. CASE a.op # "await" /\ (a.tile # u \/ a.word # w)
      <4> DEFINE Sets(v) == mem' = [mem EXCEPT ![a.tile][a.word] = v]
      <4>1. Sets(a.value) \/ Sets(mem[a.tile][a.word] + a.value)
        BY <3>3 DEF Steps, Poll, Store, Add
      <4>2. \A v : Sets(v) => mem'[u][w] = mem[u][w]
        <5> HIDE DEF a
        <5>1. CASE a.tile # u
          BY <1>6, <5>1
        <5>2. CASE a.tile = u /\ a.word # w
          BY <1>6, <5>2
        <5> QED
          BY <3>3, <5>1, <5>2
      <4> HIDE DEF a, Sets
      <4> QED
        BY <4>1, <4>2
    <3> QED
      BY <3>1, <3>2, <3>3
  <2> QED
    BY <1>4, <2>1, <2>2, <2>3, <2>4
<1> QED
  BY <1>9, <1>10, <1>11

LEMMA InitInv ==
  ASSUME Init, TypeOK, Orderly(setup)
  PROVE  KnowInv /\ CountInv
<1>1. \A u \in Tiles : \A i \in Accesses(setup, u) : Done(u, i) = 0
  <2> SUFFICES ASSUME NEW u \in Tiles, NEW i \in Accesses(setup, u)
               PROVE  Done(u, i) = 0
    OBVIOUS
  <2>1. i \in Nat \ {0}
    BY Places
  <2>2. round[u] = 0 /\ pc[u] = 1
    BY DEF Init
  <2> QED
    BY <2>1, <2>2 DEF Done
<1>2. KnowInv
  <2> SUFFICES ASSUME NEW t \in Tiles, NEW i \in Accesses(setup, t), NEW z \in Knowledge[t][i]
               PROVE  Done(z[1], z[2]) >= Done(t, i)
    BY DEF KnowInv
  <2>1. z[1] \in Tiles /\ z[2] \in Accesses(setup, z[1])
    BY Known DEF Ordered, Good, Tiles
  <2>2. Done(z[1], z[2]) = 0 /\ Done(t, i) = 0
    BY <1>1, <2>1
  <2> QED
    BY <2>2
<1>3. ASSUME NEW t \in Tiles, NEW w \in Words, HasReset(setup, t, w)
      PROVE  /\ \A d \in Writers(setup, t, w) :
                  Written(d, t, w) \in {Cleared(t, w), Cleared(t, w) + 1}
             /\ mem[t][w] = Cardinality(Pending(t, w))
  <2>1. Cleared(t, w) = 0
    BY <1>1, <1>3, TheReset DEF Cleared, Good
  <2>2. \A d \in Writers(setup, t, w) : Written(d, t, w) = 0
    BY <1>1, TheWrite DEF Written, Good
  <2>3. Pending(t, w) = {}
    BY <2>1, <2>2 DEF Pending
  <2>4. mem[t][w] = 0
    BY DEF Init
  <2> QED
    BY <2>1, <2>2, <2>3, <2>4, FS_EmptySet
<1> QED
  BY <1>2, <1>3 DEF CountInv

\* For every orderly test: a word holds the writes of its writers since its
\* owner last reset it, each writer at most once, and what a tile can tell from
\* its awaits has happened.
THEOREM InvariantHolds ==
  ASSUME \A s \in Setups : Orderly(s)
  PROVE  Safe => []IInv
<1>1. Init => IInv
  BY InitTypes, InitInv DEF Init, IInv
<1>2. IInv /\ [Next]_vars => IInv'
  <2> SUFFICES ASSUME IInv, [Next]_vars
               PROVE  IInv'
    OBVIOUS
  <2>1. Good
    BY DEF IInv, Good, TypeOK
  <2>2. ASSUME NEW t \in Tiles, Steps(t)
        PROVE  IInv'
    BY <2>1, <2>2, TypeStep, KnowStep, CountStep DEF IInv, Good, Steps
  <2>3. CASE UNCHANGED vars
    <3>1. /\ TypeOK' /\ Tiles' = Tiles /\ Knowledge' = Knowledge
          /\ \A t, i : Done(t, i)' = Done(t, i)
      BY <2>3 DEF vars, IInv, TypeOK, Tiles, Prog, Rounds, Knowledge, Done
    <3>2. KnowInv'
      BY <2>3, <3>1 DEF IInv, KnowInv, vars
    <3>3. CountInv'
      <4>1. setup' = setup /\ mem' = mem
        BY <2>3 DEF vars
      <4>2. \A d, u, w : Written(d, u, w)' = Written(d, u, w) /\ Cleared(u, w)' = Cleared(u, w)
        BY <3>1, <4>1 DEF Written, Cleared
      <4>3. \A u, w : Pending(u, w)' = Pending(u, w)
        BY <4>1, <4>2 DEF Pending
      <4> QED
        BY <3>1, <4>1, <4>2, <4>3 DEF IInv, CountInv
    <3> QED
      BY <3>1, <3>2, <3>3 DEF IInv
  <2> QED
    BY <2>2, <2>3 DEF Next, Steps
<1> QED
  BY <1>1, <1>2, PTL DEF Safe

\* In every orderly test the plain stores discard nothing: a word that is
\* reset holds what was awaited, and one that is set holds nothing.
THEOREM NothingIsOverwritten ==
  ASSUME \A s \in Setups : Orderly(s)
  PROVE  Safe => NothingOverwritten
<1>1. IInv /\ [Next]_vars =>
        [\A t \in Tiles : Store(t) =>
           LET a == Current(t)
           IN  mem[a.tile][a.word] = IF a.value = 0 THEN Previous(t).value ELSE 0]_vars
  <2> SUFFICES ASSUME IInv, NEW t \in Tiles, Store(t), NEW a, a = Current(t)
               PROVE  mem[a.tile][a.word] = IF a.value = 0 THEN Previous(t).value ELSE 0
    OBVIOUS
  <2>1. Good /\ KnowInv /\ CountInv /\ a.op = "put"
    BY DEF IInv, Good, TypeOK, Store
  <2>2. CASE a.value = 0
    <3>1. /\ a.tile = t /\ a.word \in Words
          /\ Previous(t).value = Cardinality(Writers(setup, t, a.word))
      BY <2>1, <2>2, Rules
    <3>2. Resets(Current(t), t, a.word)
      BY <2>1, <2>2, <3>1 DEF Resets
    <3>3. HasReset(setup, t, a.word) /\ Pending(t, a.word) = Writers(setup, t, a.word)
      BY <2>1, <3>1, <3>2, BeforeReset
    <3> QED
      BY <2>1, <2>2, <3>1, <3>3 DEF CountInv
  <2>3. CASE a.value # 0
    <3>1. a.tile \in Tiles /\ a.word \in Words /\ Writers(setup, a.tile, a.word) = {t}
      BY <2>1, <2>3, Rules
    <3>2. Writes(Current(t), a.tile, a.word)
      BY <2>1, <2>3 DEF Writes
    <3>3. /\ HasReset(setup, a.tile, a.word)
          /\ Written(t, a.tile, a.word) = Cleared(a.tile, a.word)
          /\ Cleared(a.tile, a.word) \in Nat
      BY <2>1, <3>1, <3>2, BeforeWrite
    <3>4. Pending(a.tile, a.word) = {}
      BY <3>1, <3>3 DEF Pending
    <3>5. mem[a.tile][a.word] = Cardinality(Pending(a.tile, a.word))
      BY <2>1, <3>1, <3>3 DEF CountInv
    <3>6. mem[a.tile][a.word] = 0
      BY <3>4, <3>5, FS_EmptySet
    <3> QED
      BY <2>3, <3>6
  <2> QED
    BY <2>2, <2>3
<1> QED
  BY <1>1, InvariantHolds, PTL DEF NothingOverwritten, Safe

-----------------------------------------------------------------------------
(* The refinement.                                                         *)

\* What a step of t is for the promise.
Enters(t) == Entered(t) = round[t] /\ Entered(t)' = round[t] + 1 /\ round'[t] = round[t]
Left(t)   == Entered(t) = round[t] + 1 /\ Entered(t)' = round[t] + 1 /\ round'[t] = round[t] + 1
Inside(t) == Entered(t)' = Entered(t) /\ round'[t] = round[t]

\* The other tiles stand still.
Still(t) ==
  /\ setup' = setup
  /\ \A u \in Tiles \ {t} : pc'[u] = pc[u] /\ round'[u] = round[u]

LEMMA PromiseSteps ==
  ASSUME Good, NEW t \in Tiles, Still(t), round' \in [Tiles -> Nat], round[t] < Rounds
  PROVE  /\ Enters(t) => Promise!Enter(t)
         /\ Left(t) /\ (\A o \in Tiles : setup.root[o] = setup.root[t] => Entered(o) >= round[t] + 1)
              => Promise!Leave(t)
         /\ Inside(t) => UNCHANGED Promise!vars
<1> DEFINE entered == [u \in Tiles |-> Entered(u)]
           group == [r \in 1..Rounds |-> setup.root]
<1>1. /\ round \in [Tiles -> Nat] /\ setup' = setup /\ Tiles' = Tiles /\ group' = group
      /\ Rounds \in Nat /\ round[t] \in Nat
      /\ \A u \in Tiles \ {t} : Entered(u)' = Entered(u) /\ round'[u] = round[u]
  BY AccessTyped DEF Good, TypeOK, Still, Tiles, Entered, Rounds
<1>2. /\ entered' = [u \in Tiles |-> Entered(u)'] /\ t \in DOMAIN entered
      /\ entered[t] = Entered(t)
  BY <1>1
<1>3. ASSUME Enters(t)
      PROVE  Promise!Enter(t)
  <2>1. entered' = [entered EXCEPT ![t] = entered[t] + 1]
    BY <1>1, <1>2, <1>3 DEF Enters
  <2>2. round' = round
    BY <1>1, <1>3 DEF Enters
  <2> QED
    BY <1>1, <1>2, <1>3, <2>1, <2>2 DEF Promise!Enter, Enters
<1>4. ASSUME Left(t), \A o \in Tiles : setup.root[o] = setup.root[t] => Entered(o) >= round[t] + 1
      PROVE  Promise!Leave(t)
  <2>1. entered' = entered
    BY <1>1, <1>2, <1>4 DEF Left
  <2>2. round' = [round EXCEPT ![t] = round[t] + 1]
    BY <1>1, <1>4 DEF Left
  <2>3. Promise!Complete(t)
    <3>1. Entered(t) = round[t] + 1 /\ Entered(t) \in 1..Rounds
      BY <1>1, <1>4 DEF Left
    <3> QED
      BY <1>2, <1>4, <3>1 DEF Promise!Complete, Promise!Members, Promise!Together
  <2> QED
    BY <1>1, <1>2, <1>4, <2>1, <2>2, <2>3 DEF Promise!Leave, Left
<1>5. ASSUME Inside(t)
      PROVE  UNCHANGED Promise!vars
  <2>1. entered' = entered /\ round' = round
    BY <1>1, <1>2, <1>5 DEF Inside
  <2> QED
    BY <1>1, <2>1 DEF Promise!vars
<1> QED
  BY <1>3, <1>4, <1>5

LEMMA NotOne == \A n \in Nat : n >= 2 => n # 1
OBVIOUS

LEMMA StepRefines ==
  ASSUME IInv, Orderly(setup), NEW t \in Tiles, Steps(t)
  PROVE  [Promise!Next]_(Promise!vars)
<1>1. Good /\ TypeOK /\ KnowInv /\ CountInv
  BY DEF IInv, Good
<1>2. Advance(t) /\ round[t] < Rounds
  BY DEF Steps, Poll, Store, Add, Running
<1>3. /\ Still(t) /\ round' \in [Tiles -> Nat] /\ setup' = setup /\ Tiles' = Tiles
      /\ pc'[t] = (IF pc[t] = Len(Prog(t)) THEN 1 ELSE pc[t] + 1)
      /\ round'[t] = IF pc[t] = Len(Prog(t)) THEN round[t] + 1 ELSE round[t]
  BY <1>1, <1>2, Moves DEF Still, LastAccess
<1>4. /\ pc[t] \in Nat \ {0} /\ pc[t] <= Len(Prog(t)) /\ round[t] \in Nat
      /\ Len(Prog(t)) \in Nat /\ Len(Prog(t)) >= 2
  BY <1>1, AccessTyped
<1>5. Promise!Enter(t) \/ Promise!Leave(t) => Promise!Next
  BY DEF Promise!Next, Promise!Members
<1>6. CASE pc[t] = 1
  <2>1. pc[t] # Len(Prog(t))
    BY <1>4, <1>6, NotOne
  <2>2. pc'[t] = 2 /\ round'[t] = round[t]
    BY <1>3, <1>6, <2>1
  <2>3. Enters(t)
    BY <1>4, <1>6, <2>2 DEF Enters, Entered
  <2> QED
    BY <1>1, <1>2, <1>3, <1>5, <2>3, PromiseSteps
<1>7. CASE pc[t] # 1 /\ pc[t] # Len(Prog(t))
  <2>1. Inside(t)
    BY <1>3, <1>4, <1>7 DEF Inside, Entered
  <2> QED
    BY <1>1, <1>2, <1>3, <2>1, PromiseSteps
<1>8. CASE pc[t] = Len(Prog(t))
  <2>1. Left(t)
    BY <1>3, <1>4, <1>8 DEF Left, Entered
  <2>2. ASSUME NEW o \in Tiles, setup.root[o] = setup.root[t]
        PROVE  Entered(o) >= round[t] + 1
    <3>1. CASE o = t
      BY <1>4, <1>8, <3>1 DEF Entered
    <3>2. CASE o # t
      <4>1. Len(setup.prog[t]) \in Accesses(setup, t) /\ Prog(t) = setup.prog[t]
        BY <1>1, <1>4, Places DEF Prog
      <4>2. <<o, 1>> \in Knowledge[t][Len(setup.prog[t])]
        BY <1>1, <2>2, Known DEF Ordered, Tiles
      <4>3. KnowInv' /\ Knowledge' = Knowledge
        BY <1>1, <1>3, KnowStep DEF Knowledge
      <4>4. Done(o, 1)' >= Done(t, Len(setup.prog[t]))'
        BY <1>3, <4>1, <4>2, <4>3 DEF KnowInv
      <4>5. Done(o, 1)' = Done(o, 1)
        BY <3>2, <1>3 DEF Still, Done
      <4>6. Done(t, Len(setup.prog[t]))' = round[t] + 1
        <5>1. pc'[t] = 1 /\ round'[t] = round[t] + 1
          BY <1>3, <1>8
        <5>2. Done(t, Len(setup.prog[t]))' = round'[t] + IF pc'[t] > Len(Prog(t)) THEN 1 ELSE 0
          BY <1>3, <4>1 DEF Done
        <5> QED
          BY <1>4, <5>1, <5>2
      <4> QED
        BY <4>4, <4>5, <4>6 DEF Entered, Done
    <3> QED
      BY <3>1, <3>2
  <2> QED
    BY <1>1, <1>2, <1>3, <1>5, <2>1, <2>2, PromiseSteps
<1> QED
  BY <1>6, <1>7, <1>8

\* Every orderly test is a barrier: nobody leaves a round that a tile of his
\* group has not entered, for any number of tiles, groups, words and rounds.
\* The first access is entering, the last one leaving.
THEOREM IsABarrier ==
  ASSUME \A s \in Setups : Orderly(s)
  PROVE  Safe => ImplementsBarrier
<1>1. Init => Promise!Init
  BY DEF Init, Promise!Init, Promise!Members, Entered
<1>2. IInv /\ [Next]_vars => [Promise!Next]_(Promise!vars)
  <2> SUFFICES ASSUME IInv, [Next]_vars
               PROVE  [Promise!Next]_(Promise!vars)
    OBVIOUS
  <2>1. Orderly(setup)
    BY DEF IInv, TypeOK
  <2>2. CASE UNCHANGED vars
    BY <2>2 DEF vars, Promise!vars, Entered, Tiles, Rounds
  <2>3. ASSUME NEW t \in Tiles, Steps(t)
        PROVE  [Promise!Next]_(Promise!vars)
    BY <2>1, <2>3, StepRefines
  <2> QED
    BY <2>2, <2>3 DEF Next, Steps
<1> QED
  BY <1>1, <1>2, InvariantHolds, PTL DEF ImplementsBarrier, Promise!Safe, Safe

-----------------------------------------------------------------------------
(* The barriers around one tile are orderly.                               *)

WellCentred(s) == WellFormed(s) /\ Central(s)

\* The program of a tile that asks, and of the one in the middle.
LEMMA SenderProgram ==
  ASSUME NEW s, WellCentred(s), NEW t \in s.tiles, s.root[t] # t
  PROVE  /\ s.prog[t][1] = [op |-> "add", tile |-> s.root[t], word |-> 0, value |-> 1]
         /\ s.prog[t][2] = [op |-> "await", tile |-> t, word |-> 0, value |-> 1]
         /\ s.prog[t][3] = [op |-> "put", tile |-> t, word |-> 0, value |-> 0]
<1>1. s.prog[t] = <<[op |-> "add", tile |-> s.root[t], word |-> 0, value |-> 1],
                    [op |-> "await", tile |-> t, word |-> 0, value |-> 1],
                    [op |-> "put", tile |-> t, word |-> 0, value |-> 0]>>
  BY DEF WellCentred, Central, Asks, OnFirstWord
<1> QED
  BY <1>1

LEMMA SenderLength ==
  ASSUME NEW s, WellCentred(s), NEW t \in s.tiles, s.root[t] # t
  PROVE  Accesses(s, t) = {1, 2, 3} /\ Len(s.prog[t]) = 3
<1>1. Len(s.prog[t]) = 3
  BY DEF WellCentred, Central, Asks
<1> QED
  BY <1>1 DEF Accesses

LEMMA SenderRoot ==
  ASSUME NEW s, WellCentred(s), NEW t \in s.tiles, s.root[t] # t
  PROVE  s.root[t] \in s.tiles /\ s.root[s.root[t]] = s.root[t] /\ t \in Others(s, s.root[t])
<1>1. s.root[t] \in s.tiles
  BY DEF WellCentred, WellFormed
<1>2. s.root[s.root[t]] = s.root[t]
  BY DEF WellCentred, Central, Asks
<1> QED
  BY <1>1, <1>2 DEF Others

LEMMA RootProgram ==
  ASSUME NEW s, WellCentred(s), NEW r \in s.tiles, s.root[r] = r
  PROVE  /\ IsFiniteSet(Others(s, r))
         /\ Len(s.prog[r]) \in Nat /\ Len(s.prog[r]) >= 2 /\ Accesses(s, r) = 1..Len(s.prog[r])
         /\ s.prog[r][1] = [op |-> "await", tile |-> r, word |-> 0,
                            value |-> Cardinality(Others(s, r))]
         /\ s.prog[r][2] = [op |-> "put", tile |-> r, word |-> 0, value |-> 0]
         /\ \A i \in 3..Len(s.prog[r]) :
              /\ s.prog[r][i].tile \in Others(s, r)
              /\ s.prog[r][i] = [op |-> "add", tile |-> s.prog[r][i].tile, word |-> 0, value |-> 1]
         /\ \A o \in Others(s, r) : \E i \in 3..Len(s.prog[r]) : s.prog[r][i].tile = o
         /\ \A i, j \in 3..Len(s.prog[r]) : s.prog[r][i].tile = s.prog[r][j].tile => i = j
<1>1. IsFiniteSet(Others(s, r))
  <2>1. IsFiniteSet(s.tiles) /\ Others(s, r) \subseteq s.tiles
    BY DEF WellCentred, WellFormed, Others
  <2> QED
    BY <2>1, FS_Subset
<1>2. Len(s.prog[r]) \in Nat /\ Len(s.prog[r]) >= 2 /\ Accesses(s, r) = 1..Len(s.prog[r])
  <2>1. Len(s.prog[r]) >= 2 /\ s.prog[r] \in Seq([op : {"add", "await", "put"}, tile : s.tiles,
                                                 word : Words, value : Nat])
    BY DEF WellCentred, WellFormed
  <2> QED
    BY <2>1 DEF Accesses
<1> QED
  BY <1>1, <1>2 DEF WellCentred, Central, Answers, OnFirstWord

IsAdd(a, t)   == a.op = "add" /\ a.tile = t /\ a.word = 0 /\ a.value = 1
IsAwait(a, t) == a.op = "await" /\ a.tile = t /\ a.word = 0
IsReset(a, t) == a.op = "put" /\ a.tile = t /\ a.word = 0 /\ a.value = 0

LEMMA SenderActs ==
  ASSUME NEW s, WellCentred(s), NEW t \in s.tiles, s.root[t] # t, NEW i \in Accesses(s, t)
  PROVE  \/ i = 1 /\ IsAdd(s.prog[t][i], s.root[t])
         \/ i = 2 /\ IsAwait(s.prog[t][i], t)
         \/ i = 3 /\ IsReset(s.prog[t][i], t)
<1>1. i \in {1, 2, 3}
  <2>1. Accesses(s, t) = {1, 2, 3}
    BY SenderLength
  <2> QED
    BY <2>1
<1>2. IsAdd(s.prog[t][1], s.root[t])
  <2>1. s.prog[t][1] = [op |-> "add", tile |-> s.root[t], word |-> 0, value |-> 1]
    BY SenderProgram
  <2> QED
    BY <2>1 DEF IsAdd
<1>3. IsAwait(s.prog[t][2], t)
  <2>1. s.prog[t][2] = [op |-> "await", tile |-> t, word |-> 0, value |-> 1]
    BY SenderProgram
  <2> QED
    BY <2>1 DEF IsAwait
<1>4. IsReset(s.prog[t][3], t)
  <2>1. s.prog[t][3] = [op |-> "put", tile |-> t, word |-> 0, value |-> 0]
    BY SenderProgram
  <2> QED
    BY <2>1 DEF IsReset
<1> QED
  BY <1>1, <1>2, <1>3, <1>4

LEMMA RootActs ==
  ASSUME NEW s, WellCentred(s), NEW r \in s.tiles, s.root[r] = r, NEW i \in Accesses(s, r)
  PROVE  /\ i \in Nat
         /\ \/ i = 1 /\ IsAwait(s.prog[r][i], r)
            \/ i = 2 /\ IsReset(s.prog[r][i], r)
            \/ /\ i \in 3..Len(s.prog[r]) /\ i >= 3 /\ s.prog[r][i].tile \in Others(s, r)
               /\ IsAdd(s.prog[r][i], s.prog[r][i].tile)
<1>1. Len(s.prog[r]) \in Nat /\ i \in 1..Len(s.prog[r])
  <2>1. Len(s.prog[r]) \in Nat /\ Accesses(s, r) = 1..Len(s.prog[r])
    BY RootProgram
  <2> QED
    BY <2>1
<1>2. i \in Nat /\ (i = 1 \/ i = 2 \/ (i \in 3..Len(s.prog[r]) /\ i >= 3))
  BY <1>1
<1>3. IsAwait(s.prog[r][1], r)
  <2>1. s.prog[r][1] = [op |-> "await", tile |-> r, word |-> 0,
                        value |-> Cardinality(Others(s, r))]
    BY RootProgram
  <2> QED
    BY <2>1 DEF IsAwait
<1>4. IsReset(s.prog[r][2], r)
  <2>1. s.prog[r][2] = [op |-> "put", tile |-> r, word |-> 0, value |-> 0]
    BY RootProgram
  <2> QED
    BY <2>1 DEF IsReset
<1>5. ASSUME i \in 3..Len(s.prog[r])
      PROVE  s.prog[r][i].tile \in Others(s, r) /\ IsAdd(s.prog[r][i], s.prog[r][i].tile)
  <2>1. /\ s.prog[r][i].tile \in Others(s, r)
        /\ s.prog[r][i] = [op |-> "add", tile |-> s.prog[r][i].tile, word |-> 0, value |-> 1]
    BY <1>5, RootProgram
  <2> QED
    BY <2>1 DEF IsAdd
<1> QED
  BY <1>2, <1>3, <1>4, <1>5

LEMMA SenderWrites ==
  ASSUME NEW s, WellCentred(s), NEW d \in s.tiles, s.root[d] # d, NEW i \in Accesses(s, d),
         NEW t, NEW w, Writes(s.prog[d][i], t, w)
  PROVE  i = 1 /\ t = s.root[d] /\ w = 0
BY SenderActs DEF Writes, IsAdd, IsAwait, IsReset

LEMMA RootWrites ==
  ASSUME NEW s, WellCentred(s), NEW d \in s.tiles, s.root[d] = d, NEW i \in Accesses(s, d),
         NEW t, NEW w, Writes(s.prog[d][i], t, w)
  PROVE  i \in Nat /\ i >= 3 /\ t \in Others(s, d) /\ s.prog[d][i].tile = t /\ w = 0
BY RootActs DEF Writes, IsAdd, IsAwait, IsReset

LEMMA OthersSend ==
  ASSUME NEW s, WellCentred(s), NEW r \in s.tiles, NEW o \in Others(s, r)
  PROVE  o \in s.tiles /\ s.root[o] = r /\ s.root[o] # o /\ s.root[r] = r
<1>1. o \in s.tiles /\ s.root[o] = r /\ s.root[o] # o
  BY DEF Others
<1>2. s.root[s.root[o]] = s.root[o]
  BY <1>1 DEF WellCentred, Central, Asks
<1> QED
  BY <1>1, <1>2

LEMMA RootWriters ==
  ASSUME NEW s, WellCentred(s), NEW r \in s.tiles, s.root[r] = r
  PROVE  /\ Writers(s, r, 0) = Others(s, r)
         /\ \A o \in Others(s, r) : WriteAt(s, o, r, 0) = 1
         /\ ResetAt(s, r, 0) = 2 /\ HasReset(s, r, 0)
<1>1. ASSUME NEW d \in s.tiles, NEW i \in Accesses(s, d)
      PROVE  Writes(s.prog[d][i], r, 0) => d \in Others(s, r) /\ i = 1
  <2>1. CASE s.root[d] = d
    <3>1. r \notin Others(s, d)
      BY OthersSend, <2>1
    <3> QED
      BY <2>1, <3>1, RootWrites
  <2>2. CASE s.root[d] # d
    <3>1. ASSUME Writes(s.prog[d][i], r, 0)
          PROVE  i = 1 /\ r = s.root[d]
      BY <2>2, <3>1, SenderWrites, ZenonT(30)
    <3> QED
      BY <2>2, <3>1 DEF Others
  <2> QED
    BY <2>1, <2>2
<1>2. ASSUME NEW o \in Others(s, r)
      PROVE  o \in s.tiles /\ 1 \in Accesses(s, o) /\ Writes(s.prog[o][1], r, 0)
  <2>1. o \in s.tiles /\ s.root[o] # o /\ s.root[o] = r
    BY OthersSend
  <2>2. 1 \in Accesses(s, o)
    <3>1. Accesses(s, o) = {1, 2, 3}
      BY <2>1, SenderLength
    <3> QED
      BY <3>1
  <2>3. s.prog[o][1] = [op |-> "add", tile |-> s.root[o], word |-> 0, value |-> 1]
    BY <2>1, SenderProgram
  <2> QED
    BY <2>1, <2>2, <2>3 DEF Writes
<1>3. Writers(s, r, 0) = Others(s, r)
  <2>1. Others(s, r) \subseteq Writers(s, r, 0)
    BY <1>2 DEF Writers
  <2>2. Writers(s, r, 0) \subseteq Others(s, r)
    BY <1>1 DEF Writers
  <2> QED
    BY <2>1, <2>2
<1>4. ASSUME NEW o \in Others(s, r)
      PROVE  WriteAt(s, o, r, 0) = 1
  <2>1. \E i \in Accesses(s, o) : Writes(s.prog[o][i], r, 0)
    BY <1>2
  <2>2. /\ WriteAt(s, o, r, 0) \in Accesses(s, o)
        /\ Writes(s.prog[o][WriteAt(s, o, r, 0)], r, 0)
    BY <2>1 DEF WriteAt
  <2> QED
    BY <1>1, <1>2, <2>2
<1>5. 2 \in Accesses(s, r) /\ Resets(s.prog[r][2], r, 0)
  <2>1. 2 \in Accesses(s, r)
    <3>1. Len(s.prog[r]) \in Nat /\ Len(s.prog[r]) >= 2 /\ Accesses(s, r) = 1..Len(s.prog[r])
      BY RootProgram
    <3> QED
      BY <3>1
  <2>2. s.prog[r][2] = [op |-> "put", tile |-> r, word |-> 0, value |-> 0]
    BY RootProgram
  <2> QED
    BY <2>1, <2>2 DEF Resets
<1>6. ResetAt(s, r, 0) \in Accesses(s, r) /\ Resets(s.prog[r][ResetAt(s, r, 0)], r, 0)
  BY <1>5 DEF ResetAt
<1>7. ResetAt(s, r, 0) = 2 /\ HasReset(s, r, 0)
  <2>1. \A i \in Accesses(s, r) : Resets(s.prog[r][i], r, 0) => i = 2
    BY RootActs DEF Resets, IsAdd, IsAwait, IsReset
  <2> QED
    BY <1>5, <1>6, <2>1 DEF HasReset
<1> QED
  BY <1>3, <1>4, <1>7

LEMMA SenderWriters ==
  ASSUME NEW s, WellCentred(s), NEW r \in s.tiles, s.root[r] = r, NEW t \in Others(s, r)
  PROVE  /\ Writers(s, t, 0) = {r} /\ HasReset(s, t, 0)
         /\ WriteAt(s, r, t, 0) \in Accesses(s, r) /\ WriteAt(s, r, t, 0) >= 3
         /\ WriteAt(s, r, t, 0) \in Nat /\ s.prog[r][WriteAt(s, r, t, 0)].tile = t
<1> DEFINE k == WriteAt(s, r, t, 0)
<1>1. t \in s.tiles /\ s.root[t] # t
  BY OthersSend
<1>2. ASSUME NEW d \in s.tiles, NEW i \in Accesses(s, d), Writes(s.prog[d][i], t, 0)
      PROVE  d = r /\ i >= 3 /\ s.prog[d][i].tile = t
  <2>1. CASE s.root[d] = d
    <3>1. t \in Others(s, d) /\ i >= 3 /\ s.prog[d][i].tile = t
      BY <1>2, <2>1, RootActs DEF Writes, IsAdd, IsAwait, IsReset
    <3> QED
      BY <3>1 DEF Others
  <2>2. CASE s.root[d] # d
    <3>1. t = s.root[d]
      BY <1>2, <2>2, SenderWrites
    <3> QED
      BY <1>1, <2>2, <3>1, SenderRoot
  <2> QED
    BY <2>1, <2>2
<1>3. PICK i \in 3..Len(s.prog[r]) : s.prog[r][i].tile = t
  <2>1. \A o \in Others(s, r) : \E i \in 3..Len(s.prog[r]) : s.prog[r][i].tile = o
    BY DEF WellCentred, Central, Answers
  <2> QED
    BY <2>1
<1>4. i \in Accesses(s, r) /\ Writes(s.prog[r][i], t, 0)
  <2>1. i \in Accesses(s, r) /\ i >= 3
    <3>1. Accesses(s, r) = 1..Len(s.prog[r]) /\ Len(s.prog[r]) \in Nat
      BY <1>1, RootProgram
    <3> QED
      BY <1>3, <3>1
  <2> QED
    BY <1>1, <1>3, <2>1, RootActs DEF Writes, IsAdd
<1>5. Writers(s, t, 0) = {r}
  BY <1>1, <1>2, <1>4 DEF Writers
<1>6. k \in Accesses(s, r) /\ Writes(s.prog[r][k], t, 0)
  BY <1>4 DEF WriteAt
<1>7. k >= 3 /\ k \in Nat /\ s.prog[r][k].tile = t
  BY <1>1, <1>2, <1>6, RootActs
<1>8. HasReset(s, t, 0)
  <2>1. 3 \in Accesses(s, t)
    <3>1. Accesses(s, t) = {1, 2, 3}
      BY <1>1, SenderLength
    <3> QED
      BY <3>1
  <2>2. s.prog[t][3] = [op |-> "put", tile |-> t, word |-> 0, value |-> 0]
    BY <1>1, SenderProgram
  <2> QED
    BY <2>1, <2>2 DEF HasReset, Resets
<1> QED
  BY <1>5, <1>6, <1>7, <1>8

\* What the tiles of a barrier around one know: that one, that all have asked
\* and what it has done since; the others, what it knew when it answered them.
Asked(s, r) == {<<u, 1>> : u \in {o \in s.tiles : s.root[o] = r}}
RootKnows(s, r, i) == IF i = 0 THEN {} ELSE Asked(s, r) \cup {<<r, j>> : j \in 2..i}
SenderKnows(s, t, i) ==
  IF i = 0 THEN {}
  ELSE IF i = 1 THEN {<<t, 1>>}
  ELSE RootKnows(s, s.root[t], WriteAt(s, s.root[t], t, 0))
CentralKnow(s) ==
  [t \in s.tiles |-> [i \in Nat |->
     IF s.root[t] = t THEN RootKnows(s, t, i) ELSE SenderKnows(s, t, i)]]

LEMMA CentralHandshakes ==
  ASSUME NEW s, WellCentred(s)
  PROVE  Handshakes(s)
<1> SUFFICES ASSUME NEW t \in s.tiles, NEW i \in Accesses(s, t)
             PROVE  LET p == s.prog[t]
                        a == p[i]
                        writers == Writers(s, a.tile, a.word)
                    IN  /\ a.op = "await" =>
                             a.tile = t /\ \E j \in i..Len(p) : Resets(p[j], t, a.word)
                        /\ a.op = "add" => a.value = 1
                        /\ a.op = "put" /\ a.value # 0 => a.value = 1 /\ writers = {t}
                        /\ a.op = "put" /\ a.value = 0 =>
                             /\ a.tile = t /\ i > 1
                             /\ p[i - 1] = [op |-> "await", tile |-> t, word |-> a.word,
                                            value |-> Cardinality(writers)]
                        /\ a.op # "await" => HasReset(s, a.tile, a.word)
                        /\ \A j \in Accesses(s, t) : Alike(a, p[j]) => i = j
  BY Zenon DEF Handshakes
<1> SUFFICES ASSUME NEW a, a = s.prog[t][i]
             PROVE  /\ a.op = "await" =>
                         a.tile = t /\ \E j \in i..Len(s.prog[t]) : Resets(s.prog[t][j], t, a.word)
                    /\ a.op = "add" => a.value = 1
                    /\ a.op = "put" /\ a.value # 0 =>
                         a.value = 1 /\ Writers(s, a.tile, a.word) = {t}
                    /\ a.op = "put" /\ a.value = 0 =>
                         /\ a.tile = t /\ i > 1
                         /\ s.prog[t][i - 1] = [op |-> "await", tile |-> t, word |-> a.word,
                                        value |-> Cardinality(Writers(s, a.tile, a.word))]
                    /\ a.op # "await" => HasReset(s, a.tile, a.word)
                    /\ \A j \in Accesses(s, t) : Alike(a, s.prog[t][j]) => i = j
  BY Zenon
<1>1. CASE s.root[t] # t
  <2> DEFINE r == s.root[t]
  <2>1. /\ i \in {1, 2, 3} /\ Accesses(s, t) = {1, 2, 3} /\ Len(s.prog[t]) = 3
        /\ r \in s.tiles /\ s.root[r] = r
    <3>1. Accesses(s, t) = {1, 2, 3} /\ Len(s.prog[t]) = 3
      BY <1>1, SenderLength
    <3>2. r \in s.tiles /\ s.root[r] = r
      BY <1>1, SenderRoot
    <3> QED
      BY <3>1, <3>2
  <2>2. /\ s.prog[t][1] = [op |-> "add", tile |-> r, word |-> 0, value |-> 1]
        /\ s.prog[t][2] = [op |-> "await", tile |-> t, word |-> 0, value |-> 1]
        /\ s.prog[t][3] = [op |-> "put", tile |-> t, word |-> 0, value |-> 0]
    BY <1>1, SenderProgram
  <2>3. HasReset(s, r, 0)
    BY <2>1, RootWriters
  <2>4. HasReset(s, t, 0) /\ Cardinality(Writers(s, t, 0)) = 1
    <3>1. HasReset(s, t, 0) /\ Writers(s, t, 0) = {r}
      <4>1. t \in Others(s, r)
        BY <1>1, SenderRoot
      <4> HIDE DEF r
      <4> QED
        BY <2>1, <4>1, SenderWriters
    <3> QED
      BY <3>1, FS_Singleton
  <2>5. CASE i = 1
    <3>1. a.op = "add" /\ a.tile = r /\ a.word = 0 /\ a.value = 1
      BY <2>2, <2>5
    <3>2. ASSUME NEW j \in Accesses(s, t), Alike(a, s.prog[t][j])
          PROVE  j = 1
      <4>1. s.prog[t][j].tile = r /\ s.prog[t][j].op # "await"
        BY <3>1, <3>2 DEF Alike
      <4>2. j # 3
        BY <1>1, <2>2, <4>1
      <4>3. j # 2
        BY <2>2, <4>1
      <4> QED
        BY <2>1, <4>2, <4>3
    <3> QED
      BY <2>3, <2>5, <3>1, <3>2
  <2>6. CASE i = 2
    <3>1. a.op = "await" /\ a.tile = t /\ a.word = 0
      BY <2>2, <2>6
    <3>2. 3 \in i..Len(s.prog[t]) /\ Resets(s.prog[t][3], t, a.word)
      BY <2>1, <2>2, <2>6, <3>1 DEF Resets
    <3>3. \A j \in Accesses(s, t) : ~Alike(a, s.prog[t][j])
      BY <3>1 DEF Alike
    <3> QED
      BY <3>1, <3>2, <3>3
  <2>7. CASE i = 3
    <3>1. a.op = "put" /\ a.tile = t /\ a.word = 0 /\ a.value = 0
      BY <2>2, <2>7
    <3>2. ASSUME NEW j \in Accesses(s, t), Alike(a, s.prog[t][j])
          PROVE  j = 3
      <4>1. s.prog[t][j].tile = t /\ s.prog[t][j].op # "await"
        BY <3>1, <3>2 DEF Alike
      <4>2. j # 1
        BY <1>1, <2>2, <4>1
      <4>3. j # 2
        BY <2>2, <4>1
      <4> QED
        BY <2>1, <4>2, <4>3
    <3> QED
      BY <2>2, <2>4, <2>7, <3>1, <3>2
  <2> QED
    BY <2>1, <2>5, <2>6, <2>7
<1>2. CASE s.root[t] = t
  <2>1. Len(s.prog[t]) \in Nat /\ Len(s.prog[t]) >= 2 /\ Accesses(s, t) = 1..Len(s.prog[t])
    BY <1>2, RootProgram
  <2>2. /\ s.prog[t][1] = [op |-> "await", tile |-> t, word |-> 0,
                           value |-> Cardinality(Others(s, t))]
        /\ s.prog[t][2] = [op |-> "put", tile |-> t, word |-> 0, value |-> 0]
        /\ HasReset(s, t, 0) /\ Writers(s, t, 0) = Others(s, t)
    BY <1>2, RootProgram, RootWriters
  <2>3. \A j \in 3..Len(s.prog[t]) :
          /\ s.prog[t][j].tile \in Others(s, t) /\ s.prog[t][j].op = "add"
          /\ s.prog[t][j].word = 0 /\ s.prog[t][j].value = 1
    <3> SUFFICES ASSUME NEW j \in 3..Len(s.prog[t]), NEW b, b = s.prog[t][j]
                 PROVE  b.tile \in Others(s, t) /\ b.op = "add" /\ b.word = 0 /\ b.value = 1
      OBVIOUS
    <3>0. \A m \in 3..Len(s.prog[t]) :
            /\ s.prog[t][m].tile \in Others(s, t)
            /\ s.prog[t][m] = [op |-> "add", tile |-> s.prog[t][m].tile, word |-> 0, value |-> 1]
      BY <1>2, RootProgram
    <3>1. b.tile \in Others(s, t) /\ b = [op |-> "add", tile |-> b.tile, word |-> 0, value |-> 1]
      BY <3>0
    <3> QED
      BY <3>1
  <2>4. t \notin Others(s, t)
    BY DEF Others
  <2>5. CASE i = 1
    <3>1. a.op = "await" /\ a.tile = t /\ a.word = 0
      BY <2>2, <2>5
    <3>2. 2 \in i..Len(s.prog[t]) /\ Resets(s.prog[t][2], t, a.word)
      BY <2>1, <2>2, <2>5, <3>1 DEF Resets
    <3>3. \A j \in Accesses(s, t) : ~Alike(a, s.prog[t][j])
      BY <3>1 DEF Alike
    <3> QED
      BY <3>1, <3>2, <3>3
  <2>6. CASE i = 2
    <3>1. a.op = "put" /\ a.tile = t /\ a.word = 0 /\ a.value = 0
      BY <2>2, <2>6
    <3>2. ASSUME NEW j \in Accesses(s, t), Alike(a, s.prog[t][j])
          PROVE  j = 2
      <4>1. j # 1
        BY <2>2, <3>2 DEF Alike
      <4>2. j \notin 3..Len(s.prog[t])
        <5>1. s.prog[t][j].value = 0
          BY <3>1, <3>2 DEF Alike
        <5> QED
          BY <2>3, <5>1
      <4> QED
        BY <2>1, <4>1, <4>2
    <3> QED
      BY <2>2, <2>6, <3>1, <3>2
  <2>7. CASE i \in 3..Len(s.prog[t])
    <3>1. a.tile \in Others(s, t) /\ a.op = "add" /\ a.word = 0 /\ a.value = 1
      BY <2>3, <2>7
    <3>2. HasReset(s, a.tile, 0)
      BY <1>2, <3>1, SenderWriters
    <3>3. ASSUME NEW j \in Accesses(s, t), Alike(a, s.prog[t][j])
          PROVE  i = j
      <4>1. j # 1 /\ j # 2
        BY <2>2, <2>4, <3>1, <3>3 DEF Alike
      <4>2. j \in 3..Len(s.prog[t])
        BY <2>1, <4>1
      <4>3. s.prog[t][i].tile = s.prog[t][j].tile
        BY <3>3 DEF Alike
      <4> QED
        BY <1>2, <2>7, <4>2, <4>3, RootProgram
    <3> QED
      BY <3>1, <3>2, <3>3
  <2>8. i = 1 \/ i = 2 \/ i \in 3..Len(s.prog[t])
    BY <2>1
  <2> QED
    BY <2>5, <2>6, <2>7, <2>8
<1> QED
  BY <1>1, <1>2

LEMMA RootKnowledge ==
  ASSUME NEW s, WellCentred(s), NEW r \in s.tiles, s.root[r] = r
  PROVE  /\ \A i \in Nat : CentralKnow(s)[r][i] = RootKnows(s, r, i)
         /\ \A u \in s.tiles : s.root[u] = r => <<u, 1>> \in Asked(s, r)
         /\ \A i \in Accesses(s, r) : \A z \in RootKnows(s, r, i) :
              \/ \E u \in s.tiles : s.root[u] = r /\ z = <<u, 1>>
              \/ \E j \in Accesses(s, r) : z = <<r, j>>
<1>1. ASSUME NEW i \in Accesses(s, r), NEW j \in 2..i
      PROVE  j \in Accesses(s, r)
  <2>1. Len(s.prog[r]) \in Nat /\ Accesses(s, r) = 1..Len(s.prog[r])
    BY RootProgram
  <2> QED
    BY <2>1
<1> QED
  BY <1>1 DEF CentralKnow, RootKnows, Asked

LEMMA SenderKnowledge ==
  ASSUME NEW s, WellCentred(s), NEW r \in s.tiles, s.root[r] = r, NEW t \in Others(s, r)
  PROVE  /\ CentralKnow(s)[t][0] = {}
         /\ CentralKnow(s)[t][1] = {<<t, 1>>}
         /\ CentralKnow(s)[t][2] = RootKnows(s, r, WriteAt(s, r, t, 0))
         /\ CentralKnow(s)[t][3] = RootKnows(s, r, WriteAt(s, r, t, 0))
<1>1. t \in s.tiles /\ s.root[t] = r /\ s.root[t] # t
  BY OthersSend
<1> QED
  BY <1>1 DEF CentralKnow, SenderKnows

\* The tile in the middle.
LEMMA RootOrdered ==
  ASSUME NEW s, WellCentred(s), NEW r \in s.tiles, s.root[r] = r, NEW i \in Accesses(s, r),
         NEW know, know = CentralKnow(s)
  PROVE  LET a == s.prog[r][i] IN
         /\ \A z \in know[r][i] : z[1] \in s.tiles /\ z[2] \in Accesses(s, z[1])
         /\ know[r][i] \subseteq know[r][i - 1] \cup {<<r, i>>} \cup Heard(s, know, r, i)
         /\ Resets(a, r, a.word) =>
              \A d \in Writers(s, r, a.word) :
                <<d, WriteAt(s, d, r, a.word)>> \in know[r][i - 1]
         /\ Writes(a, a.tile, a.word) => <<a.tile, 1>> \in know[r][i - 1]
<1> DEFINE a == s.prog[r][i]
<1>1. /\ \A k \in Nat : know[r][k] = RootKnows(s, r, k)
      /\ i \in Nat /\ i >= 1 /\ i - 1 \in Nat
  <2>1. i \in 1..Len(s.prog[r]) /\ Len(s.prog[r]) \in Nat
    <3>1. Len(s.prog[r]) \in Nat /\ Accesses(s, r) = 1..Len(s.prog[r])
      BY RootProgram
    <3> QED
      BY <3>1
  <2>2. i \in Nat /\ i >= 1 /\ i - 1 \in Nat
    BY <2>1
  <2> QED
    BY <2>2, RootKnowledge
<1>2. ASSUME NEW z \in know[r][i]
      PROVE  z[1] \in s.tiles /\ z[2] \in Accesses(s, z[1])
  <2>1. \/ \E u \in s.tiles : s.root[u] = r /\ z = <<u, 1>>
        \/ \E j \in Accesses(s, r) : z = <<r, j>>
    BY <1>1, <1>2, RootKnowledge
  <2>2. \A u \in s.tiles : 1 \in Accesses(s, u)
    <3> SUFFICES ASSUME NEW u \in s.tiles
                 PROVE  1 \in Accesses(s, u)
      OBVIOUS
    <3>1. Len(s.prog[u]) \in Nat /\ Len(s.prog[u]) >= 2
      <4>1. Len(s.prog[u]) >= 2 /\ s.prog[u] \in Seq([op : {"add", "await", "put"}, tile : s.tiles,
                                                     word : Words, value : Nat])
        BY DEF WellCentred, WellFormed
      <4> QED
        BY <4>1
    <3> QED
      BY <3>1 DEF Accesses
  <2> QED
    BY <2>1, <2>2
<1>3. know[r][i] \subseteq know[r][i - 1] \cup {<<r, i>>} \cup Heard(s, know, r, i)
  <2>1. CASE i = 1
    <3>1. s.prog[r][1] = [op |-> "await", tile |-> r, word |-> 0,
                          value |-> Cardinality(Others(s, r))]
      BY RootProgram
    <3>2. /\ Writers(s, r, 0) = Others(s, r)
          /\ \A o \in Others(s, r) : WriteAt(s, o, r, 0) = 1
      BY RootWriters
    <3>3. \A o \in Others(s, r) : know[o][0] = {} /\ know[o][1] = {<<o, 1>>}
      BY SenderKnowledge
    <3>4. Early(s, know, r, i) = Others(s, r)
      <4>1. s.prog[r][i].word = 0
        BY <2>1, <3>1
      <4>2. Early(s, know, r, i) =
              {o \in Others(s, r) : <<r, i>> \notin know[o][WriteAt(s, o, r, 0) - 1]}
        BY <3>2, <4>1 DEF Early
      <4>3. \A o \in Others(s, r) : know[o][WriteAt(s, o, r, 0) - 1] = {}
        BY <3>2, <3>3
      <4> QED
        BY <4>2, <4>3
    <3>5. Cardinality(Others(s, r)) <= Cardinality(Others(s, r))
      <4>1. Cardinality(Others(s, r)) \in Nat
        BY RootProgram, FS_CardinalityType
      <4> QED
        BY <4>1
    <3>6. Heard(s, know, r, i) = UNION {know[o][WriteAt(s, o, r, 0)] : o \in Others(s, r)}
      BY <2>1, <3>1, <3>4, <3>5 DEF Heard
    <3>7. \A o \in Others(s, r) : <<o, 1>> \in Heard(s, know, r, i)
      BY <3>2, <3>3, <3>6
    <3>8. know[r][i] = Asked(s, r)
      <4>1. 2..1 = {}
        OBVIOUS
      <4>2. RootKnows(s, r, 1) = Asked(s, r) \cup {<<r, j>> : j \in 2..1}
        BY DEF RootKnows
      <4>3. RootKnows(s, r, 1) = Asked(s, r)
        BY <4>1, <4>2
      <4> QED
        BY <1>1, <2>1, <4>3
    <3> QED
      BY <2>1, <3>7, <3>8 DEF Asked, Others
  <2>2. CASE i # 1
    <3>1. i - 1 # 0 /\ 2..i = (2..(i - 1)) \cup {i}
      BY <1>1, <2>2
    <3>2. /\ know[r][i] = Asked(s, r) \cup {<<r, j>> : j \in 2..i}
          /\ know[r][i - 1] = Asked(s, r) \cup {<<r, j>> : j \in 2..(i - 1)}
      <4>1. know[r][i] = RootKnows(s, r, i) /\ know[r][i - 1] = RootKnows(s, r, i - 1) /\ i # 0
        BY <1>1
      <4> QED
        BY <3>1, <4>1 DEF RootKnows
    <3> QED
      BY <3>1, <3>2
  <2> QED
    BY <2>1, <2>2
<1>4. ASSUME Resets(a, r, a.word), NEW d \in Writers(s, r, a.word)
      PROVE  <<d, WriteAt(s, d, r, a.word)>> \in know[r][i - 1]
  <2>1. i = 2 /\ a.word = 0
    BY <1>4, RootActs DEF Resets, IsAdd, IsAwait, IsReset
  <2>2. d \in Others(s, r) /\ WriteAt(s, d, r, 0) = 1
    BY <1>4, <2>1, RootWriters
  <2>3. <<d, 1>> \in Asked(s, r)
    BY <2>2, OthersSend DEF Asked
  <2>4. i - 1 = 1
    BY <2>1
  <2> QED
    BY <1>1, <2>1, <2>2, <2>3, <2>4 DEF RootKnows
<1>5. ASSUME Writes(a, a.tile, a.word)
      PROVE  <<a.tile, 1>> \in know[r][i - 1]
  <2>1. a.tile \in Others(s, r) /\ i >= 3
    BY <1>5, RootActs DEF Writes, IsAdd, IsAwait, IsReset
  <2>2. <<a.tile, 1>> \in Asked(s, r)
    BY <2>1, OthersSend DEF Asked
  <2>3. i - 1 # 0
    BY <1>1, <2>1
  <2> QED
    BY <1>1, <2>2, <2>3 DEF RootKnows
<1> QED
  BY <1>2, <1>3, <1>4, <1>5

\* The tiles around it.
LEMMA SenderOrdered ==
  ASSUME NEW s, WellCentred(s), NEW r \in s.tiles, s.root[r] = r, NEW t \in Others(s, r),
         NEW i \in Accesses(s, t), NEW know, know = CentralKnow(s)
  PROVE  LET a == s.prog[t][i] IN
         /\ \A z \in know[t][i] : z[1] \in s.tiles /\ z[2] \in Accesses(s, z[1])
         /\ know[t][i] \subseteq know[t][i - 1] \cup {<<t, i>>} \cup Heard(s, know, t, i)
         /\ Resets(a, t, a.word) =>
              \A d \in Writers(s, t, a.word) :
                <<d, WriteAt(s, d, t, a.word)>> \in know[t][i - 1]
         /\ Writes(a, a.tile, a.word) =>
              <<a.tile, ResetAt(s, a.tile, a.word)>> \in know[t][Len(s.prog[t])]
<1> DEFINE a == s.prog[t][i]
           k == WriteAt(s, r, t, 0)
<1>1. t \in s.tiles /\ s.root[t] = r /\ s.root[t] # t
  BY OthersSend
<1>2. i \in {1, 2, 3} /\ Len(s.prog[t]) = 3 /\ Accesses(s, t) = {1, 2, 3}
  <2>1. Len(s.prog[t]) = 3 /\ Accesses(s, t) = {1, 2, 3}
    BY <1>1, SenderLength
  <2> QED
    BY <2>1
<1>3. /\ know[t][0] = {} /\ know[t][1] = {<<t, 1>>}
      /\ know[t][2] = RootKnows(s, r, k) /\ know[t][3] = RootKnows(s, r, k)
  BY SenderKnowledge
<1>4. /\ Writers(s, t, 0) = {r}
      /\ k \in Accesses(s, r) /\ k >= 3 /\ k \in Nat
  BY SenderWriters
<1>5. know[r][k] = RootKnows(s, r, k) /\ know[r][k - 1] = RootKnows(s, r, k - 1)
  BY <1>4, RootKnowledge
<1>6. ASSUME NEW z \in know[t][i]
      PROVE  z[1] \in s.tiles /\ z[2] \in Accesses(s, z[1])
  <2>1. CASE i = 1
    BY <1>1, <1>2, <1>3, <1>6, <2>1
  <2>2. CASE i # 1
    <3>1. z \in know[r][k]
      BY <1>2, <1>3, <1>5, <1>6, <2>2
    <3> QED
      BY <1>4, <3>1, RootOrdered
  <2> QED
    BY <2>1, <2>2
<1>7. know[t][i] \subseteq know[t][i - 1] \cup {<<t, i>>} \cup Heard(s, know, t, i)
  <2>1. CASE i = 1
    BY <1>3, <2>1
  <2>2. CASE i = 3
    <3>1. i - 1 = 2
      BY <2>2
    <3> QED
      BY <1>3, <2>2, <3>1
  <2>3. CASE i = 2
    <3>1. s.prog[t][2] = [op |-> "await", tile |-> t, word |-> 0, value |-> 1]
      BY <1>1, SenderProgram
    <3>2. <<t, 2>> \notin know[r][k - 1]
      <4>1. k - 1 # 0 /\ t # r
        BY <1>1, <1>4
      <4> HIDE DEF k
      <4> QED
        BY <1>5, <4>1 DEF RootKnows, Asked
    <3>3. Early(s, know, t, i) = {r}
      <4>1. s.prog[t][i].word = 0
        BY <2>3, <3>1
      <4>2. Early(s, know, t, i) =
              {d \in Writers(s, t, 0) : <<t, i>> \notin know[d][WriteAt(s, d, t, 0) - 1]}
        BY <4>1 DEF Early
      <4> QED
        BY <1>4, <2>3, <3>2, <4>2
    <3>4. Cardinality({r}) <= 1
      <4>1. Cardinality({r}) = 1
        BY FS_Singleton
      <4> QED
        BY <4>1
    <3>5. Heard(s, know, t, i) = UNION {know[d][WriteAt(s, d, t, 0)] : d \in {r}}
      BY <2>3, <3>1, <3>3, <3>4 DEF Heard
    <3> QED
      BY <1>3, <1>5, <2>3, <3>5
  <2> QED
    BY <1>2, <2>1, <2>2, <2>3
<1>8. ASSUME Resets(a, t, a.word), NEW d \in Writers(s, t, a.word)
      PROVE  <<d, WriteAt(s, d, t, a.word)>> \in know[t][i - 1]
  <2>1. i = 3 /\ a.word = 0
    BY <1>1, <1>8, SenderActs DEF Resets, IsAdd, IsAwait, IsReset
  <2>2. d = r /\ i - 1 = 2
    BY <1>4, <1>8, <2>1
  <2>3. <<r, k>> \in RootKnows(s, r, k)
    <3>1. k # 0 /\ k \in 2..k
      BY <1>4
    <3> QED
      BY <3>1 DEF RootKnows
  <2> QED
    BY <1>3, <2>1, <2>2, <2>3
<1>9. ASSUME Writes(a, a.tile, a.word)
      PROVE  <<a.tile, ResetAt(s, a.tile, a.word)>> \in know[t][Len(s.prog[t])]
  <2>1. a.tile = r /\ a.word = 0
    BY <1>1, <1>9, SenderActs DEF Writes, IsAdd, IsAwait, IsReset
  <2>2. ResetAt(s, r, 0) = 2
    BY RootWriters
  <2>3. <<r, 2>> \in RootKnows(s, r, k)
    <3>1. k # 0 /\ 2 \in 2..k
      BY <1>4
    <3> QED
      BY <3>1 DEF RootKnows
  <2> QED
    BY <1>2, <1>3, <2>1, <2>2, <2>3
<1> QED
  BY <1>6, <1>7, <1>8, <1>9

\* Barriers around one tile are orderly whatever the number of tiles and
\* groups, so that all of the above holds of them (nsync_naive_test.c and the
\* row, column, neighbour and ring tests) on a mesh of any size.
THEOREM CentralIsOrderly ==
  ASSUME NEW s, WellCentred(s)
  PROVE  Orderly(s)
<1> DEFINE know == CentralKnow(s)
<1>1. Ordered(s, know)
  <2> SUFFICES ASSUME NEW t \in s.tiles
               PROVE  /\ know[t][0] = {}
                      /\ \A u \in s.tiles :
                           s.root[u] = s.root[t] => <<u, 1>> \in know[t][Len(s.prog[t])]
                      /\ \A i \in Accesses(s, t) :
                           LET a == s.prog[t][i] IN
                           /\ \A z \in know[t][i] : z[1] \in s.tiles /\ z[2] \in Accesses(s, z[1])
                           /\ know[t][i] \subseteq
                                know[t][i - 1] \cup {<<t, i>>} \cup Heard(s, know, t, i)
                           /\ Resets(a, t, a.word) =>
                                \A d \in Writers(s, t, a.word) :
                                  <<d, WriteAt(s, d, t, a.word)>> \in know[t][i - 1]
                           /\ Writes(a, a.tile, a.word) =>
                                \/ <<a.tile, 1>> \in know[t][i - 1]
                                \/ <<a.tile, ResetAt(s, a.tile, a.word)>> \in know[t][Len(s.prog[t])]
    BY DEF Ordered
  <2>1. CASE s.root[t] = t
    <3>1. Len(s.prog[t]) \in Nat /\ Len(s.prog[t]) # 0
      <4>1. Len(s.prog[t]) \in Nat /\ Len(s.prog[t]) >= 2
        BY <2>1, RootProgram
      <4> QED
        BY <4>1
    <3>2. \A k \in Nat : know[t][k] = RootKnows(s, t, k)
      BY <2>1, RootKnowledge
    <3>3. know[t][0] = {}
      BY <3>2 DEF RootKnows
    <3>4. \A u \in s.tiles : s.root[u] = s.root[t] => <<u, 1>> \in know[t][Len(s.prog[t])]
      BY <2>1, <3>1, <3>2 DEF RootKnows, Asked
    <3> HIDE DEF know
    <3> QED
      BY <2>1, <3>3, <3>4, RootOrdered DEF know
  <2>2. CASE s.root[t] # t
    <3> DEFINE r == s.root[t]
    <3>1. r \in s.tiles /\ s.root[r] = r /\ t \in Others(s, r) /\ Len(s.prog[t]) = 3
      BY <2>2, SenderRoot, SenderLength
    <3> HIDE DEF r
    <3>2. /\ know[t][0] = {}
          /\ know[t][3] = RootKnows(s, r, WriteAt(s, r, t, 0))
      BY <3>1, SenderKnowledge
    <3>3. \A u \in s.tiles : s.root[u] = s.root[t] => <<u, 1>> \in know[t][Len(s.prog[t])]
      <4>1. WriteAt(s, r, t, 0) \in Nat /\ WriteAt(s, r, t, 0) >= 3
        BY <3>1, SenderWriters
      <4>2. WriteAt(s, r, t, 0) # 0
        BY <4>1
      <4> QED
        BY <3>1, <3>2, <4>2 DEF RootKnows, Asked, r
    <3> QED
      BY <3>1, <3>2, <3>3, SenderOrdered
  <2> QED
    BY <2>1, <2>2
<1>2. Handshakes(s)
  BY CentralHandshakes
<1> HIDE DEF know
<1> QED
  BY <1>1, <1>2 DEF Orderly

-----------------------------------------------------------------------------
(* The tests around one tile, as they are written, on a mesh of any size.  *)

\* A sequence that names each member of a set once.
Lists(src, S) ==
  /\ \A i \in DOMAIN src : src[i] \in S
  /\ \A o \in S : \E i \in DOMAIN src : src[i] = o
  /\ \A i, j \in DOMAIN src : src[i] = src[j] => i = j

\* Every tile either asks its root or is one, and answers those that ask it.
Star(tiles, prog, root) ==
  /\ root \in [tiles -> tiles]
  /\ \A t \in tiles :
       /\ root[root[t]] = root[t]
       /\ root[t] # t => prog[t] = Request(t, root[t])
       /\ root[t] = t =>
            \E src \in Seq(tiles) :
              /\ prog[t] = Collect(t, Len(src), src)
              /\ Lists(src, {o \in tiles : root[o] = t /\ o # t})

\* As many are named as there are.
LEMMA ListedAreCounted ==
  ASSUME NEW S, NEW T, NEW src \in Seq(T), Lists(src, S)
  PROVE  IsFiniteSet(S) /\ Cardinality(S) = Len(src)
<1>1. Len(src) \in Nat /\ DOMAIN src = 1..Len(src) /\ src \in [1..Len(src) -> T]
  BY LenProperties
<1>2. src \in [1..Len(src) -> S]
  BY <1>1 DEF Lists
<1>3. src \in Bijection(1..Len(src), S)
  BY <1>1, <1>2 DEF Lists, Bijection, Injection, Surjection, IsInjective
<1>4. ExistsBijection(1..Len(src), S)
  BY <1>3 DEF ExistsBijection
<1>5. IsFiniteSet(1..Len(src)) /\ Cardinality(1..Len(src)) = Len(src)
  <2>1. /\ IsFiniteSet(1..Len(src))
        /\ Cardinality(1..Len(src)) = IF 1 > Len(src) THEN 0 ELSE Len(src) - 1 + 1
    BY <1>1, FS_Interval
  <2> QED
    BY <1>1, <2>1
<1> QED
  BY <1>4, <1>5, FS_Bijection

LEMMA RequestProgram ==
  ASSUME NEW tiles, NEW t \in tiles, NEW r \in tiles, 0 \in Words
  PROVE  /\ Request(t, r) = <<[op |-> "add", tile |-> r, word |-> 0, value |-> 1],
                              [op |-> "await", tile |-> t, word |-> 0, value |-> 1],
                              [op |-> "put", tile |-> t, word |-> 0, value |-> 0]>>
         /\ Request(t, r) \in Seq([op : {"add", "await", "put"}, tile : tiles,
                                   word : Words, value : Nat])
         /\ Len(Request(t, r)) = 3
BY DEF Request, AddOne, Await, Put, Access

\* A function from 1..m is a sequence of length m.
LEMMA FunctionIsSequence ==
  ASSUME NEW S, NEW m \in Nat, NEW f \in [1..m -> S]
  PROVE  f \in Seq(S) /\ Len(f) = m /\ DOMAIN f = 1..m
<1>1. f \in Seq(S)
  BY SeqDef
<1>2. Len(f) \in Nat /\ DOMAIN f = 1..Len(f) /\ DOMAIN f = 1..m
  BY <1>1, LenProperties
<1> QED
  BY <1>1, <1>2

LEMMA Joined ==
  ASSUME NEW S, NEW a \in Seq(S), NEW b \in Seq(S),
         NEW k \in Nat, Len(a) = k, NEW m \in Nat, Len(b) = m
  PROVE  /\ a \o b \in Seq(S) /\ Len(a \o b) = k + m
         /\ \A i \in 1..k : (a \o b)[i] = a[i]
         /\ \A i \in (k + 1)..(k + m) : i - k \in 1..m /\ (a \o b)[i] = b[i - k]
<1>1. a \o b \in Seq(S) /\ Len(a \o b) = Len(a) + Len(b)
  BY ConcatProperties
<1>2. ASSUME NEW i \in 1..(Len(a) + Len(b))
      PROVE  (a \o b)[i] = IF i <= Len(a) THEN a[i] ELSE b[i - Len(a)]
  BY ConcatProperties
<1>3. \A i \in 1..k : (a \o b)[i] = a[i]
  BY <1>2
<1>4. \A i \in (k + 1)..(k + m) : i - k \in 1..m /\ (a \o b)[i] = b[i - k]
  BY <1>2
<1> QED
  BY <1>1, <1>3, <1>4

\* A program that goes on to answer the tiles of a sequence.
Answerable(T, Acts)   == \A o \in T : AddOne(o) \in Acts
GoesOn(p, first, src) == p = first \o Answer(src)

LEMMA ThenAnswers ==
  ASSUME NEW T, NEW Acts, Answerable(T, Acts), NEW src \in Seq(T), NEW first \in Seq(Acts),
         NEW p, GoesOn(p, first, src)
  PROVE  /\ p \in Seq(Acts) /\ Len(p) = Len(first) + Len(src)
         /\ \A i \in 1..Len(first) : p[i] = first[i]
         /\ \A i \in 1..Len(src) : p[Len(first) + i] = AddOne(src[i])
<1> DEFINE answers == Answer(src)
           k       == Len(first)
           m       == Len(src)
<1>1. k \in Nat /\ Len(first) = k /\ m \in Nat /\ Len(src) = m
  BY LenProperties
<1> HIDE DEF k, m
<1>2. DOMAIN src = 1..m /\ \A i \in 1..m : src[i] \in T
  BY <1>1, LenProperties
<1>3. answers = [i \in 1..m |-> AddOne(src[i])]
  BY <1>2 DEF Answer
<1>4. answers \in [1..m -> Acts] /\ \A i \in 1..m : answers[i] = AddOne(src[i])
  BY <1>2, <1>3 DEF Answerable
<1> HIDE DEF answers
<1>5. answers \in Seq(Acts) /\ Len(answers) = m
  BY <1>1, <1>2, <1>4, FunctionIsSequence
<1>6. /\ first \o answers \in Seq(Acts) /\ Len(first \o answers) = k + m
      /\ \A i \in 1..k : (first \o answers)[i] = first[i]
      /\ \A i \in (k + 1)..(k + m) : i - k \in 1..m /\ (first \o answers)[i] = answers[i - k]
  BY <1>1, <1>5, Joined, SMTT(30)
<1>7. \A i \in 1..m : (first \o answers)[k + i] = AddOne(src[i])
  <2> SUFFICES ASSUME NEW i \in 1..m
               PROVE  (first \o answers)[k + i] = AddOne(src[i])
    OBVIOUS
  <2>1. k + i \in (k + 1)..(k + m) /\ (k + i) - k = i
    BY <1>1
  <2> QED
    BY <1>4, <1>6, <2>1
<1>8. p = first \o answers
  BY DEF answers, GoesOn
<1> QED
  BY <1>1, <1>6, <1>7, <1>8

LEMMA CollectProgram ==
  ASSUME NEW tiles, NEW t \in tiles, 0 \in Words, NEW src \in Seq(tiles), NEW k \in Nat
  PROVE  /\ Collect(t, k, src) \in Seq([op : {"add", "await", "put"}, tile : tiles,
                                        word : Words, value : Nat])
         /\ Len(Collect(t, k, src)) = Len(src) + 2
         /\ Collect(t, k, src)[1] = [op |-> "await", tile |-> t, word |-> 0, value |-> k]
         /\ Collect(t, k, src)[2] = [op |-> "put", tile |-> t, word |-> 0, value |-> 0]
         /\ \A i \in 3..Len(Collect(t, k, src)) :
              /\ i - 2 \in 1..Len(src)
              /\ Collect(t, k, src)[i] = [op |-> "add", tile |-> src[i - 2], word |-> 0, value |-> 1]
         /\ \A i \in 1..Len(src) : i + 2 \in 3..Len(Collect(t, k, src))
<1> DEFINE Acts  == [op : {"add", "await", "put"}, tile : tiles, word : Words, value : Nat]
           first == <<Await(t, 0, k), Put(t, 0, 0)>>
           p     == first \o Answer(src)
           m     == Len(src)
<1>1. Collect(t, k, src) = p
  BY DEF Collect, Answer
<1>2. /\ first \in Seq(Acts) /\ Len(first) = 2
      /\ first[1] = Await(t, 0, k) /\ first[2] = Put(t, 0, 0)
  BY DEF Await, Put, Access
<1>3. Answerable(tiles, Acts)
  BY DEF Answerable, AddOne, Access
<1>4. Len(src) = m /\ m \in Nat
  BY LenProperties
<1> HIDE DEF first, Acts, m
<1>5. GoesOn(p, first, src)
  BY DEF GoesOn
<1> HIDE DEF p
<1>6. /\ p \in Seq(Acts) /\ Len(p) = 2 + m
      /\ \A i \in 1..2 : p[i] = first[i]
      /\ \A i \in 1..m : p[2 + i] = AddOne(src[i])
  <2>1. /\ p \in Seq(Acts) /\ Len(p) = Len(first) + Len(src)
        /\ \A i \in 1..Len(first) : p[i] = first[i]
        /\ \A i \in 1..Len(src) : p[Len(first) + i] = AddOne(src[i])
    <3>1. first \in Seq(Acts)
      BY <1>2
    <3> QED
      BY <1>3, <1>5, <3>1, ThenAnswers
  <2>2. Len(first) = 2 /\ Len(src) = m
    BY <1>2, <1>4
  <2> QED
    BY <2>1, <2>2
<1>7. p[1] = Await(t, 0, k) /\ p[2] = Put(t, 0, 0)
  BY <1>2, <1>6
<1>8. \A i \in 1..m : i + 2 \in 3..Len(p)
  BY <1>4, <1>6
<1>9. ASSUME NEW i \in 3..Len(p)
      PROVE  /\ i - 2 \in 1..m
             /\ p[i] = [op |-> "add", tile |-> src[i - 2], word |-> 0, value |-> 1]
  <2>1. i - 2 \in 1..m /\ 2 + (i - 2) = i
    BY <1>4, <1>6
  <2>2. p[i] = AddOne(src[i - 2])
    BY <1>6, <2>1
  <2> QED
    BY <2>1, <2>2 DEF AddOne, Access
<1> QED
  BY <1>1, <1>4, <1>6, <1>7, <1>8, <1>9 DEF Acts, m, Await, Put, Access

LEMMA StarIsCentral ==
  ASSUME NEW tiles, IsFiniteSet(tiles), 0 \in Words, NEW rounds \in Nat, NEW prog, NEW root,
         Star(tiles, prog, root)
  PROVE  WellFormed(AroundOne(tiles, prog, rounds)) /\ Central(AroundOne(tiles, prog, rounds))
<1> DEFINE s == AroundOne(tiles, prog, rounds)
           Acts == [op : {"add", "await", "put"}, tile : tiles, word : Words, value : Nat]
<1>1. /\ root \in [tiles -> tiles]
      /\ \A t \in tiles : root[t] \in tiles /\ root[root[t]] = root[t]
  BY DEF Star
<1>2. ASSUME NEW t \in tiles, root[t] # t
      PROVE  /\ prog[t] = <<[op |-> "add", tile |-> root[t], word |-> 0, value |-> 1],
                            [op |-> "await", tile |-> t, word |-> 0, value |-> 1],
                            [op |-> "put", tile |-> t, word |-> 0, value |-> 0]>>
             /\ prog[t] \in Seq(Acts) /\ Len(prog[t]) >= 2
             /\ prog[t][1].op = "add" /\ prog[t][1].tile = root[t]
  <2>1. prog[t] = Request(t, root[t])
    BY <1>2 DEF Star
  <2>2. /\ prog[t] = <<[op |-> "add", tile |-> root[t], word |-> 0, value |-> 1],
                       [op |-> "await", tile |-> t, word |-> 0, value |-> 1],
                       [op |-> "put", tile |-> t, word |-> 0, value |-> 0]>>
        /\ prog[t] \in Seq(Acts) /\ Len(prog[t]) = 3
    BY <1>1, <2>1, RequestProgram
  <2>3. prog[t][1] = [op |-> "add", tile |-> root[t], word |-> 0, value |-> 1]
    BY <2>2
  <2> QED
    BY <2>2, <2>3
<1>3. ASSUME NEW t \in tiles, root[t] = t
      PROVE  LET p == prog[t]
                 O == {o \in tiles : root[o] = t /\ o # t}
             IN  /\ p \in Seq(Acts) /\ Len(p) >= 2
                 /\ p[1] = [op |-> "await", tile |-> t, word |-> 0, value |-> Cardinality(O)]
                 /\ p[2] = [op |-> "put", tile |-> t, word |-> 0, value |-> 0]
                 /\ \A i \in 3..Len(p) :
                      /\ p[i].tile \in O
                      /\ p[i] = [op |-> "add", tile |-> p[i].tile, word |-> 0, value |-> 1]
                 /\ \A o \in O : \E i \in 3..Len(p) : p[i].tile = o
                 /\ \A i, j \in 3..Len(p) : p[i].tile = p[j].tile => i = j
  <2> DEFINE O == {o \in tiles : root[o] = t /\ o # t}
  <2>1. PICK src \in Seq(tiles) : prog[t] = Collect(t, Len(src), src) /\ Lists(src, O)
    BY <1>3 DEF Star
  <2> HIDE DEF O
  <2>2. Len(src) \in Nat /\ DOMAIN src = 1..Len(src) /\ Len(src) = Cardinality(O)
    BY <2>1, LenProperties, ListedAreCounted
  <2>3. /\ prog[t] \in Seq(Acts) /\ Len(prog[t]) = Len(src) + 2
        /\ prog[t][1] = [op |-> "await", tile |-> t, word |-> 0, value |-> Len(src)]
        /\ prog[t][2] = [op |-> "put", tile |-> t, word |-> 0, value |-> 0]
        /\ \A i \in 3..Len(prog[t]) :
             /\ i - 2 \in 1..Len(src)
             /\ prog[t][i] = [op |-> "add", tile |-> src[i - 2], word |-> 0, value |-> 1]
        /\ \A i \in 1..Len(src) : i + 2 \in 3..Len(prog[t])
    <3>1. /\ Collect(t, Len(src), src) \in Seq(Acts)
          /\ Len(Collect(t, Len(src), src)) = Len(src) + 2
          /\ Collect(t, Len(src), src)[1] =
               [op |-> "await", tile |-> t, word |-> 0, value |-> Len(src)]
          /\ Collect(t, Len(src), src)[2] = [op |-> "put", tile |-> t, word |-> 0, value |-> 0]
          /\ \A i \in 3..Len(Collect(t, Len(src), src)) :
               /\ i - 2 \in 1..Len(src)
               /\ Collect(t, Len(src), src)[i] =
                    [op |-> "add", tile |-> src[i - 2], word |-> 0, value |-> 1]
          /\ \A i \in 1..Len(src) : i + 2 \in 3..Len(Collect(t, Len(src), src))
      BY <2>2, CollectProgram
    <3> QED
      BY <2>1, <3>1
  <2>4. ASSUME NEW i \in 3..Len(prog[t])
        PROVE  /\ i - 2 \in DOMAIN src /\ prog[t][i].tile = src[i - 2]
               /\ prog[t][i] = [op |-> "add", tile |-> prog[t][i].tile, word |-> 0, value |-> 1]
               /\ prog[t][i].tile \in O
    <3>1. /\ i - 2 \in DOMAIN src
          /\ prog[t][i] = [op |-> "add", tile |-> src[i - 2], word |-> 0, value |-> 1]
      BY <2>2, <2>3
    <3>2. prog[t][i].tile = src[i - 2]
      BY <3>1
    <3>3. src[i - 2] \in O
      BY <2>1, <3>1 DEF Lists
    <3> QED
      BY <3>1, <3>2, <3>3
  <2>5. ASSUME NEW o \in O
        PROVE  \E i \in 3..Len(prog[t]) : prog[t][i].tile = o
    <3>1. PICK j \in 1..Len(src) : src[j] = o
      BY <2>1, <2>2 DEF Lists
    <3>2. j + 2 \in 3..Len(prog[t]) /\ (j + 2) - 2 = j
      BY <2>2, <2>3
    <3>3. prog[t][j + 2].tile = src[(j + 2) - 2]
      BY <2>4, <3>2
    <3> QED
      BY <3>1, <3>2, <3>3
  <2>6. ASSUME NEW i \in 3..Len(prog[t]), NEW j \in 3..Len(prog[t]),
               prog[t][i].tile = prog[t][j].tile
        PROVE  i = j
    <3>1. src[i - 2] = src[j - 2] /\ i - 2 \in DOMAIN src /\ j - 2 \in DOMAIN src
      BY <2>4, <2>6
    <3>2. i - 2 = j - 2
      BY <2>1, <3>1 DEF Lists
    <3> QED
      BY <3>2
  <2>7. Len(prog[t]) >= 2
    BY <2>2, <2>3
  <2> QED
    BY <2>2, <2>3, <2>4, <2>5, <2>6, <2>7 DEF O
<1>4. /\ s.tiles = tiles /\ s.prog = prog /\ s.rounds = rounds
      /\ s.root = [t \in tiles |-> IF prog[t][1].op = "add" THEN prog[t][1].tile ELSE t]
  BY DEF AroundOne
<1>5. s.root = root
  <2>1. ASSUME NEW t \in tiles
        PROVE  (IF prog[t][1].op = "add" THEN prog[t][1].tile ELSE t) = root[t]
    <3>1. CASE root[t] # t
      BY <1>2, <3>1
    <3>2. CASE root[t] = t
      <4>1. prog[t][1] = [op |-> "await", tile |-> t, word |-> 0,
                          value |-> Cardinality({o \in tiles : root[o] = t /\ o # t})]
        BY <1>3, <3>2
      <4>2. prog[t][1].op = "await"
        BY <4>1
      <4> QED
        BY <3>2, <4>2
    <3> QED
      BY <3>1, <3>2
  <2>2. root = [t \in tiles |-> root[t]]
    BY <1>1
  <2> HIDE DEF s
  <2> QED
    BY <1>4, <2>1, <2>2
<1> HIDE DEF s
<1>6. WellFormed(s)
  <2>1. \A t \in tiles : prog[t] \in Seq(Acts) /\ Len(prog[t]) >= 2
    BY <1>2, <1>3
  <2> QED
    BY <1>1, <1>4, <1>5, <2>1 DEF WellFormed
<1>7. ASSUME NEW t \in s.tiles, s.root[t] # t
      PROVE  Asks(s, t)
  BY <1>1, <1>2, <1>4, <1>5, <1>7 DEF Asks, OnFirstWord
<1>8. ASSUME NEW t \in s.tiles, s.root[t] = t
      PROVE  Answers(s, t)
  <2>1. Others(s, t) = {o \in tiles : root[o] = t /\ o # t}
    BY <1>4, <1>5 DEF Others
  <2>2. t \in tiles /\ root[t] = t /\ s.prog[t] = prog[t]
    BY <1>4, <1>5, <1>8
  <2> DEFINE O == {o \in tiles : root[o] = t /\ o # t}
             p == prog[t]
  <2>3. /\ p[1] = [op |-> "await", tile |-> t, word |-> 0, value |-> Cardinality(O)]
        /\ p[2] = [op |-> "put", tile |-> t, word |-> 0, value |-> 0]
        /\ \A i \in 3..Len(p) :
             /\ p[i].tile \in O
             /\ p[i] = [op |-> "add", tile |-> p[i].tile, word |-> 0, value |-> 1]
        /\ \A o \in O : \E i \in 3..Len(p) : p[i].tile = o
        /\ \A i, j \in 3..Len(p) : p[i].tile = p[j].tile => i = j
    BY <1>3, <2>2, ZenonT(30)
  <2>4. Others(s, t) = O /\ s.prog[t] = p
    BY <2>1, <2>2
  <2> HIDE DEF O, p
  <2> QED
    BY <2>3, <2>4 DEF Answers, OnFirstWord
<1>9. Central(s)
  BY <1>7, <1>8 DEF Central
<1> QED
  BY <1>6, <1>9 DEF s

-----------------------------------------------------------------------------
(* The tests themselves, on a mesh of n by n tiles.                        *)

LEMMA Coordinates ==
  ASSUME NEW n \in Nat \ {0}, NEW t \in AllOf(n)
  PROVE  /\ GET_Y_ID(n, t) \in 0..(n - 1) /\ GET_X_ID(n, t) \in 0..(n - 1)
         /\ t = GET_ID(n, GET_Y_ID(n, t), GET_X_ID(n, t))
<1>1. t \in Nat /\ t < n * n
  BY DEF AllOf
<1>2. GET_Y_ID(n, t) \in 0..(n - 1)
  BY <1>1 DEF GET_Y_ID
<1>3. GET_X_ID(n, t) \in 0..(n - 1)
  BY <1>1 DEF GET_X_ID
<1>4. GET_X_ID(n, t) = t - n * GET_Y_ID(n, t)
  BY <1>1 DEF GET_X_ID, GET_Y_ID
<1>5. t = GET_Y_ID(n, t) * n + GET_X_ID(n, t)
  BY <1>1, <1>2, <1>4
<1> QED
  BY <1>2, <1>3, <1>5 DEF GET_ID

LEMMA TileAt ==
  ASSUME NEW n \in Nat \ {0}, NEW y \in 0..(n - 1), NEW x \in 0..(n - 1)
  PROVE  /\ GET_ID(n, y, x) \in AllOf(n) /\ GET_ID(n, y, x) = y * n + x
         /\ GET_Y_ID(n, GET_ID(n, y, x)) = y /\ GET_X_ID(n, GET_ID(n, y, x)) = x
<1>1. y * n + x \in 0..(n * n - 1)
  <2>1. y * n <= (n - 1) * n
    OBVIOUS
  <2>2. (n - 1) * n = n * n - n /\ y * n \in Nat
    OBVIOUS
  <2> QED
    BY <2>1, <2>2
<1>2. (y * n + x) \div n = y /\ (y * n + x) % n = x
  OBVIOUS
<1> QED
  BY <1>1, <1>2 DEF GET_ID, GET_Y_ID, GET_X_ID, AllOf

LEMMA CentreInRange ==
  ASSUME NEW n \in Nat \ {0}
  PROVE  /\ Centre(n) \in 0..(n - 1) /\ SyncNode(n) \in AllOf(n)
         /\ IsFiniteSet(AllOf(n)) /\ n * n - 1 \in Nat
<1>1. Centre(n) \in 0..(n - 1)
  BY DEF Centre
<1>2. SyncNode(n) \in AllOf(n)
  BY <1>1, TileAt DEF SyncNode
<1>3. n * n - 1 \in Nat
  <2>1. n * n \in Nat /\ n * n # 0
    OBVIOUS
  <2> QED
    BY <2>1
<1>4. IsFiniteSet(0..(n * n - 1))
  BY <1>3, FS_Interval
<1> QED
  BY <1>1, <1>2, <1>3, <1>4 DEF AllOf

\* The loops below and above the sender pass over everyone but him.
LEMMA AllButOne ==
  ASSUME NEW m \in Nat, NEW k \in 0..m
  PROVE  /\ \A i \in 1..m : AllBut(k, i) \in (0..m) \ {k}
         /\ \A o \in (0..m) \ {k} : \E i \in 1..m : AllBut(k, i) = o
         /\ \A i, j \in 1..m : AllBut(k, i) = AllBut(k, j) => i = j
<1>1. ASSUME NEW o \in (0..m) \ {k}
      PROVE  \E i \in 1..m : AllBut(k, i) = o
  <2>1. CASE o < k
    <3>1. o + 1 \in 1..m /\ AllBut(k, o + 1) = o
      BY <2>1 DEF AllBut
    <3> QED
      BY <3>1
  <2>2. CASE o > k
    <3>1. o \in 1..m /\ AllBut(k, o) = o
      BY <2>2 DEF AllBut
    <3> QED
      BY <3>1
  <2> QED
    BY <2>1, <2>2
<1>2. \A i \in 1..m : AllBut(k, i) \in (0..m) \ {k}
  BY DEF AllBut
<1>3. \A i, j \in 1..m : AllBut(k, i) = AllBut(k, j) => i = j
  BY DEF AllBut
<1> QED
  BY <1>1, <1>2, <1>3

\* Everyone asks one tile, or the tile of his row, or of his column.
LEMMA NaiveIsAStar ==
  ASSUME NEW n \in Nat \ {0}
  PROVE  Star(AllOf(n), [t \in AllOf(n) |-> Naive(n, t)], [t \in AllOf(n) |-> SyncNode(n)])
<1> DEFINE c    == SyncNode(n)
           m    == n * n - 1
           root == [t \in AllOf(n) |-> c]
           src  == [i \in 1..m |-> AllBut(c, i)]
<1>1. c \in AllOf(n) /\ m \in Nat /\ AllOf(n) = 0..m
  BY CentreInRange DEF AllOf
<1> HIDE DEF m, c
<1>2. src \in [1..m -> AllOf(n)] /\ \A i \in 1..m : src[i] = AllBut(c, i)
  BY <1>1, AllButOne
<1> HIDE DEF src
<1>3. src \in Seq(AllOf(n)) /\ Len(src) = m /\ DOMAIN src = 1..m
  BY <1>1, <1>2, FunctionIsSequence
<1>4. Lists(src, {o \in AllOf(n) : root[o] = c /\ o # c})
  <2>1. {o \in AllOf(n) : root[o] = c /\ o # c} = (0..m) \ {c}
    BY <1>1
  <2>2. /\ \A i \in 1..m : AllBut(c, i) \in (0..m) \ {c}
        /\ \A o \in (0..m) \ {c} : \E i \in 1..m : AllBut(c, i) = o
        /\ \A i, j \in 1..m : AllBut(c, i) = AllBut(c, j) => i = j
    <3>1. c \in 0..m
      BY <1>1
    <3> QED
      BY <1>1, <3>1, AllButOne
  <2>3. Lists(src, (0..m) \ {c})
    BY <1>2, <1>3, <2>2 DEF Lists
  <2> QED
    BY <2>1, <2>3
<1>5. Naive(n, c) = Collect(c, Len(src), src)
  BY <1>3 DEF Naive, c, m, src
<1>6. \A t \in AllOf(n) : t # c => Naive(n, t) = Request(t, c)
  BY DEF Naive, c
<1> QED
  BY <1>1, <1>3, <1>4, <1>5, <1>6 DEF Star, c

\* The loops over the rest of a row.
LEMMA RowListed ==
  ASSUME NEW n \in Nat \ {0}, NEW t \in AllOf(n), GET_X_ID(n, t) = Centre(n)
  PROVE  /\ RowOthers(n, t) \in Seq(AllOf(n)) /\ Len(RowOthers(n, t)) = n - 1
         /\ Lists(RowOthers(n, t), {o \in AllOf(n) : GET_Y_ID(n, o) = GET_Y_ID(n, t) /\ o # t})
<1> DEFINE c    == Centre(n)
           Y(u) == GET_Y_ID(n, u)
           X(u) == GET_X_ID(n, u)
           src  == RowOthers(n, t)
           y    == Y(t)
<1>1. c \in 0..(n - 1) /\ n - 1 \in Nat
  BY CentreInRange
<1>2. \A u \in AllOf(n) : Y(u) \in 0..(n - 1) /\ X(u) \in 0..(n - 1) /\ u = GET_ID(n, Y(u), X(u))
  BY Coordinates
<1>3. /\ \A i \in 1..(n - 1) : AllBut(c, i) \in (0..(n - 1)) \ {c}
      /\ \A o \in (0..(n - 1)) \ {c} : \E i \in 1..(n - 1) : AllBut(c, i) = o
      /\ \A i, j \in 1..(n - 1) : AllBut(c, i) = AllBut(c, j) => i = j
  BY <1>1, AllButOne
<1>4. y \in 0..(n - 1) /\ X(t) = c /\ t = GET_ID(n, y, c)
  BY <1>2
<1> HIDE DEF y
<1>5. \A i \in 1..(n - 1) : /\ GET_ID(n, y, AllBut(c, i)) \in AllOf(n)
                            /\ Y(GET_ID(n, y, AllBut(c, i))) = y
                            /\ X(GET_ID(n, y, AllBut(c, i))) = AllBut(c, i)
  BY <1>1, <1>3, <1>4, TileAt
<1>6. /\ src \in [1..(n - 1) -> AllOf(n)]
      /\ \A i \in 1..(n - 1) : src[i] = GET_ID(n, y, AllBut(c, i))
  BY <1>5 DEF RowOthers, y
<1> HIDE DEF src
<1>7. src \in Seq(AllOf(n)) /\ Len(src) = n - 1 /\ DOMAIN src = 1..(n - 1)
  BY <1>1, <1>6, FunctionIsSequence
<1>8. ASSUME NEW i \in 1..(n - 1)
      PROVE  src[i] \in AllOf(n) /\ Y(src[i]) = y /\ src[i] # t
  BY <1>3, <1>4, <1>5, <1>6
<1>9. ASSUME NEW o \in AllOf(n), Y(o) = y, o # t
      PROVE  \E i \in 1..(n - 1) : src[i] = o
  <2>1. X(o) # c /\ X(o) \in 0..(n - 1)
    BY <1>2, <1>4, <1>9
  <2>2. PICK i \in 1..(n - 1) : AllBut(c, i) = X(o)
    BY <1>3, <2>1
  <2> QED
    BY <1>2, <1>6, <1>9, <2>2
<1>10. ASSUME NEW i \in 1..(n - 1), NEW j \in 1..(n - 1), src[i] = src[j]
       PROVE  i = j
  <2>1. AllBut(c, i) = AllBut(c, j)
    BY <1>5, <1>6, <1>10
  <2> QED
    BY <1>3, <2>1
<1>11. Lists(src, {o \in AllOf(n) : Y(o) = y /\ o # t})
  BY <1>7, <1>8, <1>9, <1>10 DEF Lists
<1> QED
  BY <1>7, <1>11 DEF src, y

LEMMA RowIsAStar ==
  ASSUME NEW n \in Nat \ {0}
  PROVE  Star(AllOf(n), [t \in AllOf(n) |-> Row(n, t)],
              [t \in AllOf(n) |-> GET_ID(n, GET_Y_ID(n, t), Centre(n))])
<1> DEFINE c    == Centre(n)
           Y(t) == GET_Y_ID(n, t)
           X(t) == GET_X_ID(n, t)
           root == [t \in AllOf(n) |-> GET_ID(n, Y(t), c)]
<1>1. c \in 0..(n - 1) /\ n - 1 \in Nat
  BY CentreInRange
<1>2. \A t \in AllOf(n) :
        /\ Y(t) \in 0..(n - 1) /\ X(t) \in 0..(n - 1) /\ t = GET_ID(n, Y(t), X(t))
        /\ root[t] \in AllOf(n) /\ Y(root[t]) = Y(t) /\ X(root[t]) = c
  BY <1>1, Coordinates, TileAt
<1>3. \A t \in AllOf(n) : root[t] = t <=> X(t) = c
  BY <1>2
<1>4. ASSUME NEW t \in AllOf(n), root[t] = t
      PROVE  /\ RowOthers(n, t) \in Seq(AllOf(n))
             /\ Row(n, t) = Collect(t, Len(RowOthers(n, t)), RowOthers(n, t))
             /\ Lists(RowOthers(n, t), {o \in AllOf(n) : root[o] = t /\ o # t})
  <2>1. X(t) = c
    BY <1>3, <1>4
  <2>2. /\ RowOthers(n, t) \in Seq(AllOf(n)) /\ Len(RowOthers(n, t)) = n - 1
        /\ Lists(RowOthers(n, t), {o \in AllOf(n) : Y(o) = Y(t) /\ o # t})
    BY <2>1, RowListed
  <2>3. Row(n, t) = Collect(t, n - 1, RowOthers(n, t))
    BY <2>1 DEF Row
  <2>4. \A o \in AllOf(n) : root[o] = t <=> Y(o) = Y(t)
    BY <1>2, <1>4
  <2>5. {o \in AllOf(n) : root[o] = t /\ o # t} = {o \in AllOf(n) : Y(o) = Y(t) /\ o # t}
    BY <2>4
  <2> QED
    BY <2>2, <2>3, <2>5
<1>5. ASSUME NEW t \in AllOf(n), root[t] # t
      PROVE  Row(n, t) = Request(t, root[t])
  BY <1>3, <1>5 DEF Row
<1>6. \A t \in AllOf(n) : root[root[t]] = root[t]
  BY <1>2, <1>3
<1> HIDE DEF root
<1>7. root \in [AllOf(n) -> AllOf(n)]
  BY <1>2 DEF root
<1> QED
  BY <1>4, <1>5, <1>6, <1>7 DEF Star, root

\* The loops over the rest of a column.
LEMMA ColListed ==
  ASSUME NEW n \in Nat \ {0}, NEW t \in AllOf(n), GET_Y_ID(n, t) = Centre(n)
  PROVE  /\ ColOthers(n, t) \in Seq(AllOf(n)) /\ Len(ColOthers(n, t)) = n - 1
         /\ Lists(ColOthers(n, t), {o \in AllOf(n) : GET_X_ID(n, o) = GET_X_ID(n, t) /\ o # t})
<1> DEFINE c    == Centre(n)
           Y(u) == GET_Y_ID(n, u)
           X(u) == GET_X_ID(n, u)
           src  == ColOthers(n, t)
           x    == X(t)
<1>1. c \in 0..(n - 1) /\ n - 1 \in Nat
  BY CentreInRange
<1>2. \A u \in AllOf(n) : Y(u) \in 0..(n - 1) /\ X(u) \in 0..(n - 1) /\ u = GET_ID(n, Y(u), X(u))
  BY Coordinates
<1>3. /\ \A i \in 1..(n - 1) : AllBut(c, i) \in (0..(n - 1)) \ {c}
      /\ \A o \in (0..(n - 1)) \ {c} : \E i \in 1..(n - 1) : AllBut(c, i) = o
      /\ \A i, j \in 1..(n - 1) : AllBut(c, i) = AllBut(c, j) => i = j
  BY <1>1, AllButOne
<1>4. x \in 0..(n - 1) /\ Y(t) = c /\ t = GET_ID(n, c, x)
  BY <1>2
<1> HIDE DEF x
<1>5. \A i \in 1..(n - 1) : /\ GET_ID(n, AllBut(c, i), x) \in AllOf(n)
                            /\ X(GET_ID(n, AllBut(c, i), x)) = x
                            /\ Y(GET_ID(n, AllBut(c, i), x)) = AllBut(c, i)
  BY <1>1, <1>3, <1>4, TileAt
<1>6. /\ src \in [1..(n - 1) -> AllOf(n)]
      /\ \A i \in 1..(n - 1) : src[i] = GET_ID(n, AllBut(c, i), x)
  BY <1>5 DEF ColOthers, x
<1> HIDE DEF src
<1>7. src \in Seq(AllOf(n)) /\ Len(src) = n - 1 /\ DOMAIN src = 1..(n - 1)
  BY <1>1, <1>6, FunctionIsSequence
<1>8. ASSUME NEW i \in 1..(n - 1)
      PROVE  src[i] \in AllOf(n) /\ X(src[i]) = x /\ src[i] # t
  BY <1>3, <1>4, <1>5, <1>6
<1>9. ASSUME NEW o \in AllOf(n), X(o) = x, o # t
      PROVE  \E i \in 1..(n - 1) : src[i] = o
  <2>1. Y(o) # c /\ Y(o) \in 0..(n - 1)
    BY <1>2, <1>4, <1>9
  <2>2. PICK i \in 1..(n - 1) : AllBut(c, i) = Y(o)
    BY <1>3, <2>1
  <2> QED
    BY <1>2, <1>6, <1>9, <2>2
<1>10. ASSUME NEW i \in 1..(n - 1), NEW j \in 1..(n - 1), src[i] = src[j]
       PROVE  i = j
  <2>1. AllBut(c, i) = AllBut(c, j)
    BY <1>5, <1>6, <1>10
  <2> QED
    BY <1>3, <2>1
<1>11. Lists(src, {o \in AllOf(n) : X(o) = x /\ o # t})
  BY <1>7, <1>8, <1>9, <1>10 DEF Lists
<1> QED
  BY <1>7, <1>11 DEF src, x

LEMMA ColIsAStar ==
  ASSUME NEW n \in Nat \ {0}
  PROVE  Star(AllOf(n), [t \in AllOf(n) |-> Col(n, t)],
              [t \in AllOf(n) |-> GET_ID(n, Centre(n), GET_X_ID(n, t))])
<1> DEFINE c    == Centre(n)
           Y(t) == GET_Y_ID(n, t)
           X(t) == GET_X_ID(n, t)
           root == [t \in AllOf(n) |-> GET_ID(n, c, X(t))]
<1>1. c \in 0..(n - 1) /\ n - 1 \in Nat
  BY CentreInRange
<1>2. \A t \in AllOf(n) :
        /\ Y(t) \in 0..(n - 1) /\ X(t) \in 0..(n - 1) /\ t = GET_ID(n, Y(t), X(t))
        /\ root[t] \in AllOf(n) /\ X(root[t]) = X(t) /\ Y(root[t]) = c
  BY <1>1, Coordinates, TileAt
<1>3. \A t \in AllOf(n) : root[t] = t <=> Y(t) = c
  BY <1>2
<1>4. ASSUME NEW t \in AllOf(n), root[t] = t
      PROVE  /\ ColOthers(n, t) \in Seq(AllOf(n))
             /\ Col(n, t) = Collect(t, Len(ColOthers(n, t)), ColOthers(n, t))
             /\ Lists(ColOthers(n, t), {o \in AllOf(n) : root[o] = t /\ o # t})
  <2>1. Y(t) = c
    BY <1>3, <1>4
  <2>2. /\ ColOthers(n, t) \in Seq(AllOf(n)) /\ Len(ColOthers(n, t)) = n - 1
        /\ Lists(ColOthers(n, t), {o \in AllOf(n) : X(o) = X(t) /\ o # t})
    BY <2>1, ColListed
  <2>3. Col(n, t) = Collect(t, n - 1, ColOthers(n, t))
    BY <2>1 DEF Col
  <2>4. \A o \in AllOf(n) : root[o] = t <=> X(o) = X(t)
    BY <1>2, <1>4
  <2>5. {o \in AllOf(n) : root[o] = t /\ o # t} = {o \in AllOf(n) : X(o) = X(t) /\ o # t}
    BY <2>4
  <2> QED
    BY <2>2, <2>3, <2>5
<1>5. ASSUME NEW t \in AllOf(n), root[t] # t
      PROVE  Col(n, t) = Request(t, root[t])
  BY <1>3, <1>5 DEF Col
<1>6. \A t \in AllOf(n) : root[root[t]] = root[t]
  BY <1>2, <1>3
<1> HIDE DEF root
<1>7. root \in [AllOf(n) -> AllOf(n)]
  BY <1>2 DEF root
<1> QED
  BY <1>4, <1>5, <1>6, <1>7 DEF Star, root

\* Tiles two by two, of which one asks the other.
Pairs(tiles, prog, mate, asking) ==
  \A t \in tiles :
    /\ mate[t] \in tiles /\ mate[mate[t]] = t
    /\ mate[t] \in asking <=> t \notin asking
    /\ t \in asking => prog[t] = Request(t, mate[t])
    /\ t \notin asking => prog[t] = Collect(t, 1, <<mate[t]>>)

LEMMA PairsAreStars ==
  ASSUME NEW tiles, NEW prog, NEW mate, NEW asking, Pairs(tiles, prog, mate, asking)
  PROVE  Star(tiles, prog, [t \in tiles |-> IF t \in asking THEN mate[t] ELSE t])
<1> DEFINE root == [t \in tiles |-> IF t \in asking THEN mate[t] ELSE t]
<1>1. \A t \in tiles :
        /\ mate[t] \in tiles /\ mate[mate[t]] = t /\ mate[t] # t
        /\ mate[t] \in asking <=> t \notin asking
        /\ root[t] = IF t \in asking THEN mate[t] ELSE t
  BY DEF Pairs
<1>2. root \in [tiles -> tiles]
  BY <1>1
<1> HIDE DEF root
<1>3. ASSUME NEW t \in tiles
      PROVE  /\ root[root[t]] = root[t]
             /\ root[t] # t => prog[t] = Request(t, root[t])
  BY <1>1 DEF Pairs
<1>4. ASSUME NEW t \in tiles, root[t] = t
      PROVE  \E src \in Seq(tiles) :
               /\ prog[t] = Collect(t, Len(src), src)
               /\ Lists(src, {o \in tiles : root[o] = t /\ o # t})
  <2> DEFINE src == <<mate[t]>>
  <2>1. src \in Seq(tiles) /\ Len(src) = 1 /\ DOMAIN src = {1} /\ src[1] = mate[t]
    BY <1>1
  <2>2. prog[t] = Collect(t, 1, src)
    BY <1>1, <1>4 DEF Pairs
  <2>3. {o \in tiles : root[o] = t /\ o # t} = {mate[t]}
    BY <1>1, <1>4
  <2> HIDE DEF src
  <2>4. Lists(src, {mate[t]})
    BY <2>1 DEF Lists
  <2> QED
    BY <2>1, <2>2, <2>3, <2>4
<1> QED
  BY <1>2, <1>3, <1>4 DEF Star, root

\* Neighbours on a line of an even number of tiles, by twos or around.
Beside(x)    == IF x % 2 = 1 THEN x - 1 ELSE x + 1
OnRing(n, x) ==
  IF x = 0 THEN n - 1 ELSE IF x = n - 1 THEN 0 ELSE IF x % 2 = 1 THEN x + 1 ELSE x - 1

LEMMA BesideIsMutual ==
  ASSUME NEW n \in Nat \ {0}, n % 2 = 0, NEW x \in 0..(n - 1)
  PROVE  /\ Beside(x) \in 0..(n - 1) /\ Beside(Beside(x)) = x
         /\ Beside(x) % 2 = 1 <=> x % 2 # 1
<1>1. CASE x % 2 = 1
  <2>1. x >= 1 /\ (x - 1) % 2 = 0
    BY <1>1
  <2> QED
    BY <1>1, <2>1 DEF Beside
<1>2. CASE x % 2 # 1
  <2>1. x # n - 1 /\ (x + 1) % 2 = 1
    BY <1>2
  <2> QED
    BY <1>2, <2>1 DEF Beside
<1> QED
  BY <1>1, <1>2

LEMMA RingIsMutual ==
  ASSUME NEW n \in Nat \ {0}, n % 2 = 0, NEW x \in 0..(n - 1)
  PROVE  /\ OnRing(n, x) \in 0..(n - 1) /\ OnRing(n, OnRing(n, x)) = x
         /\ OnRing(n, x) % 2 = 0 <=> x % 2 # 0
<1>1. n >= 2 /\ (n - 1) % 2 = 1
  OBVIOUS
<1>2. CASE x = 0 \/ x = n - 1
  BY <1>1, <1>2 DEF OnRing
<1>3. CASE x # 0 /\ x # n - 1 /\ x % 2 = 1
  <2>1. x + 1 \in 2..(n - 1) /\ (x + 1) % 2 = 0 /\ x + 1 # n - 1
    BY <1>1, <1>3
  <2> QED
    BY <1>3, <2>1 DEF OnRing
<1>4. CASE x # 0 /\ x # n - 1 /\ x % 2 # 1
  <2>1. x - 1 \in 1..(n - 2) /\ (x - 1) % 2 = 1 /\ x % 2 = 0
    BY <1>1, <1>4
  <2> QED
    BY <1>4, <2>1 DEF OnRing
<1> QED
  BY <1>2, <1>3, <1>4

LEMMA SingleIsPairs ==
  ASSUME NEW n \in Nat \ {0}, n % 2 = 0
  PROVE  Pairs(AllOf(n), [t \in AllOf(n) |-> Single(n, t)], [t \in AllOf(n) |-> Beside(t)],
               {t \in AllOf(n) : t % 2 = 1})
<1>1. (n * n) % 2 = 0
  <2>1. PICK h \in Nat : n = 2 * h
    <3>1. n \div 2 \in Nat /\ n = 2 * (n \div 2)
      OBVIOUS
    <3> QED
      BY <3>1
  <2>2. n * n = 2 * (h * n) /\ h * n \in Nat
    BY <2>1
  <2> QED
    BY <2>2
<1>2. n * n \in Nat \ {0} /\ AllOf(n) = 0..(n * n - 1)
  BY DEF AllOf
<1>3. \A t \in AllOf(n) : /\ Beside(t) \in AllOf(n) /\ Beside(Beside(t)) = t
                          /\ Beside(t) % 2 = 1 <=> t % 2 # 1
  BY <1>1, <1>2, BesideIsMutual
<1>4. \A t \in AllOf(n) : /\ t % 2 = 1 => Single(n, t) = Request(t, Beside(t))
                          /\ t % 2 # 1 => Single(n, t) = Collect(t, 1, <<Beside(t)>>)
  BY DEF Single, Beside
<1> QED
  BY <1>3, <1>4 DEF Pairs

\* Two tiles of a row that are mates by the one coordinate, and two of a column.
Mutual(n, f, odd) ==
  /\ f \in [0..(n - 1) -> 0..(n - 1)]
  /\ \A x \in 0..(n - 1) : f[f[x]] = x /\ (f[x] \in odd <=> x \notin odd)

InRow(n, f, mate) ==
  \A t \in AllOf(n) : mate[t] = GET_ID(n, GET_Y_ID(n, t), f[GET_X_ID(n, t)])
InColumn(n, f, mate) ==
  \A t \in AllOf(n) : mate[t] = GET_ID(n, f[GET_Y_ID(n, t)], GET_X_ID(n, t))

LEMMA RowMates ==
  ASSUME NEW n \in Nat \ {0}, NEW f, NEW odd, Mutual(n, f, odd), NEW mate, InRow(n, f, mate)
  PROVE  \A t \in AllOf(n) : /\ mate[t] \in AllOf(n) /\ mate[mate[t]] = t
                             /\ GET_X_ID(n, mate[t]) \in odd <=> GET_X_ID(n, t) \notin odd
<1> SUFFICES ASSUME NEW t \in AllOf(n)
             PROVE  /\ mate[t] \in AllOf(n) /\ mate[mate[t]] = t
                    /\ GET_X_ID(n, mate[t]) \in odd <=> GET_X_ID(n, t) \notin odd
  OBVIOUS
<1> DEFINE y == GET_Y_ID(n, t)
           x == GET_X_ID(n, t)
           m == mate[t]
<1>1. y \in 0..(n - 1) /\ x \in 0..(n - 1) /\ t = GET_ID(n, y, x)
  BY Coordinates
<1>2. m = GET_ID(n, y, f[x])
  BY DEF InRow
<1> HIDE DEF x, y, m
<1>3. f[x] \in 0..(n - 1) /\ f[y] \in 0..(n - 1)
  BY <1>1 DEF Mutual
<1>4. m \in AllOf(n) /\ GET_Y_ID(n, m) = y /\ GET_X_ID(n, m) = f[x]
  <2> DEFINE v == f[x]
  <2>1. v \in 0..(n - 1) /\ m = GET_ID(n, y, v)
    BY <1>2, <1>3
  <2> HIDE DEF v
  <2>2. m \in AllOf(n) /\ GET_Y_ID(n, m) = y /\ GET_X_ID(n, m) = v
    BY <1>1, <2>1, TileAt
  <2> QED
    BY <2>2 DEF v
<1>5. mate[m] = t
  BY <1>1, <1>4 DEF Mutual, InRow
<1> QED
  BY <1>1, <1>4, <1>5 DEF x, y, m, Mutual

LEMMA ColumnMates ==
  ASSUME NEW n \in Nat \ {0}, NEW f, NEW odd, Mutual(n, f, odd), NEW mate, InColumn(n, f, mate)
  PROVE  \A t \in AllOf(n) : /\ mate[t] \in AllOf(n) /\ mate[mate[t]] = t
                             /\ GET_Y_ID(n, mate[t]) \in odd <=> GET_Y_ID(n, t) \notin odd
<1> SUFFICES ASSUME NEW t \in AllOf(n)
             PROVE  /\ mate[t] \in AllOf(n) /\ mate[mate[t]] = t
                    /\ GET_Y_ID(n, mate[t]) \in odd <=> GET_Y_ID(n, t) \notin odd
  OBVIOUS
<1> DEFINE y == GET_Y_ID(n, t)
           x == GET_X_ID(n, t)
           m == mate[t]
<1>1. y \in 0..(n - 1) /\ x \in 0..(n - 1) /\ t = GET_ID(n, y, x)
  BY Coordinates
<1>2. m = GET_ID(n, f[y], x)
  BY DEF InColumn
<1> HIDE DEF x, y, m
<1>3. f[x] \in 0..(n - 1) /\ f[y] \in 0..(n - 1)
  BY <1>1 DEF Mutual
<1>4. m \in AllOf(n) /\ GET_Y_ID(n, m) = f[y] /\ GET_X_ID(n, m) = x
  <2> DEFINE v == f[y]
  <2>1. v \in 0..(n - 1) /\ m = GET_ID(n, v, x)
    BY <1>2, <1>3
  <2> HIDE DEF v
  <2>2. m \in AllOf(n) /\ GET_Y_ID(n, m) = v /\ GET_X_ID(n, m) = x
    BY <1>1, <2>1, TileAt
  <2> QED
    BY <2>2 DEF v
<1>5. mate[m] = t
  BY <1>1, <1>4 DEF Mutual, InColumn
<1> QED
  BY <1>1, <1>4, <1>5 DEF x, y, m, Mutual

\* The four tests of neighbours, by rows and by columns.
LEMMA HNeighborIsPairs ==
  ASSUME NEW n \in Nat \ {0}, n % 2 = 0
  PROVE  Pairs(AllOf(n), [t \in AllOf(n) |-> HNeighbor(n, t)],
               [t \in AllOf(n) |-> GET_ID(n, GET_Y_ID(n, t), Beside(GET_X_ID(n, t)))],
               {t \in AllOf(n) : GET_X_ID(n, t) % 2 = 1})
<1> DEFINE f      == [x \in 0..(n - 1) |-> Beside(x)]
           odd    == {x \in 0..(n - 1) : x % 2 = 1}
           mate   == [t \in AllOf(n) |-> GET_ID(n, GET_Y_ID(n, t), Beside(GET_X_ID(n, t)))]
           asking == {t \in AllOf(n) : GET_X_ID(n, t) % 2 = 1}
<1>1. Mutual(n, f, odd) /\ \A x \in 0..(n - 1) : f[x] = Beside(x)
  BY BesideIsMutual DEF Mutual
<1>2. \A t \in AllOf(n) : /\ GET_X_ID(n, t) \in 0..(n - 1) /\ GET_Y_ID(n, t) \in 0..(n - 1)
                          /\ t = GET_ID(n, GET_Y_ID(n, t), GET_X_ID(n, t))
  BY Coordinates
<1>3. InRow(n, f, mate) /\ \A t \in AllOf(n) : t \in asking <=> GET_X_ID(n, t) \in odd
  BY <1>1, <1>2 DEF InRow
<1> HIDE DEF f, odd, mate, asking
<1>4. \A t \in AllOf(n) : /\ mate[t] \in AllOf(n) /\ mate[mate[t]] = t
                          /\ GET_X_ID(n, mate[t]) \in odd <=> GET_X_ID(n, t) \notin odd
  BY <1>1, <1>3, RowMates
<1>5. \A t \in AllOf(n) : mate[t] \in asking <=> t \notin asking
  BY <1>3, <1>4
<1>6. ASSUME NEW t \in AllOf(n)
      PROVE  /\ t \in asking => HNeighbor(n, t) = Request(t, mate[t])
             /\ t \notin asking => HNeighbor(n, t) = Collect(t, 1, <<mate[t]>>)
  <2> DEFINE x == GET_X_ID(n, t)
             y == GET_Y_ID(n, t)
  <2>1. /\ x \in 0..(n - 1) /\ y \in 0..(n - 1) /\ t = GET_ID(n, y, x)
        /\ t \in asking <=> x % 2 = 1
    BY <1>2 DEF asking
  <2>2. mate[t] = GET_ID(n, y, Beside(x))
    BY DEF mate
  <2> HIDE DEF mate, asking
  <2>3. HNeighbor(n, t) = IF x % 2 = 1 THEN Request(t, t - 1) ELSE Collect(t, 1, <<t + 1>>)
    BY DEF HNeighbor
  <2> HIDE DEF x, y
  <2> QED
    <3>1. x % 2 = 1 => mate[t] = t - 1
      BY <2>1, <2>2 DEF Beside, GET_ID
    <3>2. x % 2 # 1 => mate[t] = t + 1
      BY <2>1, <2>2 DEF Beside, GET_ID
    <3> QED
      BY <2>1, <2>3, <3>1, <3>2
<1> QED
  BY <1>4, <1>5, <1>6 DEF Pairs, mate, asking

LEMMA VNeighborIsPairs ==
  ASSUME NEW n \in Nat \ {0}, n % 2 = 0
  PROVE  Pairs(AllOf(n), [t \in AllOf(n) |-> VNeighbor(n, t)],
               [t \in AllOf(n) |-> GET_ID(n, Beside(GET_Y_ID(n, t)), GET_X_ID(n, t))],
               {t \in AllOf(n) : GET_Y_ID(n, t) % 2 = 1})
<1> DEFINE f      == [x \in 0..(n - 1) |-> Beside(x)]
           odd    == {x \in 0..(n - 1) : x % 2 = 1}
           mate   == [t \in AllOf(n) |-> GET_ID(n, Beside(GET_Y_ID(n, t)), GET_X_ID(n, t))]
           asking == {t \in AllOf(n) : GET_Y_ID(n, t) % 2 = 1}
<1>1. Mutual(n, f, odd) /\ \A x \in 0..(n - 1) : f[x] = Beside(x)
  BY BesideIsMutual DEF Mutual
<1>2. \A t \in AllOf(n) : /\ GET_X_ID(n, t) \in 0..(n - 1) /\ GET_Y_ID(n, t) \in 0..(n - 1)
                          /\ t = GET_ID(n, GET_Y_ID(n, t), GET_X_ID(n, t))
  BY Coordinates
<1>3. InColumn(n, f, mate) /\ \A t \in AllOf(n) : t \in asking <=> GET_Y_ID(n, t) \in odd
  BY <1>1, <1>2 DEF InColumn
<1> HIDE DEF f, odd, mate, asking
<1>4. \A t \in AllOf(n) : /\ mate[t] \in AllOf(n) /\ mate[mate[t]] = t
                          /\ GET_Y_ID(n, mate[t]) \in odd <=> GET_Y_ID(n, t) \notin odd
  BY <1>1, <1>3, ColumnMates
<1>5. \A t \in AllOf(n) : mate[t] \in asking <=> t \notin asking
  BY <1>3, <1>4
<1>6. ASSUME NEW t \in AllOf(n)
      PROVE  /\ t \in asking => VNeighbor(n, t) = Request(t, mate[t])
             /\ t \notin asking => VNeighbor(n, t) = Collect(t, 1, <<mate[t]>>)
  <2> DEFINE x == GET_X_ID(n, t)
             y == GET_Y_ID(n, t)
  <2>1. /\ x \in 0..(n - 1) /\ y \in 0..(n - 1) /\ t = GET_ID(n, y, x)
        /\ t \in asking <=> y % 2 = 1
    BY <1>2 DEF asking
  <2>2. mate[t] = GET_ID(n, Beside(y), x)
    BY DEF mate
  <2> HIDE DEF mate, asking
  <2>3. VNeighbor(n, t) = IF y % 2 = 1 THEN Request(t, t - n) ELSE Collect(t, 1, <<t + n>>)
    BY DEF VNeighbor
  <2> HIDE DEF x, y
  <2> QED
    <3>1. y % 2 = 1 => mate[t] = t - n
      BY <2>1, <2>2 DEF Beside, GET_ID
    <3>2. y % 2 # 1 => mate[t] = t + n
      BY <2>1, <2>2 DEF Beside, GET_ID
    <3> QED
      BY <2>1, <2>3, <3>1, <3>2
<1> QED
  BY <1>4, <1>5, <1>6 DEF Pairs, mate, asking

LEMMA HRingIsPairs ==
  ASSUME NEW n \in Nat \ {0}, n % 2 = 0
  PROVE  Pairs(AllOf(n), [t \in AllOf(n) |-> HRing(n, t)],
               [t \in AllOf(n) |-> GET_ID(n, GET_Y_ID(n, t), OnRing(n, GET_X_ID(n, t)))],
               {t \in AllOf(n) : GET_X_ID(n, t) % 2 = 0})
<1> DEFINE f      == [x \in 0..(n - 1) |-> OnRing(n, x)]
           odd    == {x \in 0..(n - 1) : x % 2 = 0}
           mate   == [t \in AllOf(n) |-> GET_ID(n, GET_Y_ID(n, t), OnRing(n, GET_X_ID(n, t)))]
           asking == {t \in AllOf(n) : GET_X_ID(n, t) % 2 = 0}
<1>1. Mutual(n, f, odd) /\ \A x \in 0..(n - 1) : f[x] = OnRing(n, x)
  BY RingIsMutual DEF Mutual
<1>2. \A t \in AllOf(n) : /\ GET_X_ID(n, t) \in 0..(n - 1) /\ GET_Y_ID(n, t) \in 0..(n - 1)
                          /\ t = GET_ID(n, GET_Y_ID(n, t), GET_X_ID(n, t))
  BY Coordinates
<1>3. InRow(n, f, mate) /\ \A t \in AllOf(n) : t \in asking <=> GET_X_ID(n, t) \in odd
  BY <1>1, <1>2 DEF InRow
<1> HIDE DEF f, odd, mate, asking
<1>4. \A t \in AllOf(n) : /\ mate[t] \in AllOf(n) /\ mate[mate[t]] = t
                          /\ GET_X_ID(n, mate[t]) \in odd <=> GET_X_ID(n, t) \notin odd
  BY <1>1, <1>3, RowMates
<1>5. \A t \in AllOf(n) : mate[t] \in asking <=> t \notin asking
  BY <1>3, <1>4
<1>6. ASSUME NEW t \in AllOf(n)
      PROVE  /\ t \in asking => HRing(n, t) = Request(t, mate[t])
             /\ t \notin asking => HRing(n, t) = Collect(t, 1, <<mate[t]>>)
  <2> DEFINE x == GET_X_ID(n, t)
             y == GET_Y_ID(n, t)
  <2>1. /\ x \in 0..(n - 1) /\ y \in 0..(n - 1) /\ t = GET_ID(n, y, x)
        /\ t \in asking <=> x % 2 = 0
    BY <1>2 DEF asking
  <2>2. mate[t] = GET_ID(n, y, OnRing(n, x))
    BY DEF mate
  <2> HIDE DEF mate, asking
  <2>3. HRing(n, t) = CASE x = 0                             -> Request(t, t + n - 1)
                    [] x # 0 /\ x = n - 1                -> Collect(t, 1, <<t + 1 - n>>)
                    [] x \notin {0, n - 1} /\ x % 2 = 1  -> Collect(t, 1, <<t + 1>>)
                    [] x \notin {0, n - 1} /\ x % 2 = 0  -> Request(t, t - 1)
    BY DEF HRing
  <2> HIDE DEF x, y
  <2> QED
    <3>1. x = 0 => mate[t] = t + n - 1
      BY <2>1, <2>2 DEF OnRing, GET_ID
    <3>2. x # 0 /\ x = n - 1 => mate[t] = t + 1 - n
      BY <2>1, <2>2 DEF OnRing, GET_ID
    <3>3. x # 0 /\ x # n - 1 /\ x % 2 = 1 => mate[t] = t + 1
      BY <2>1, <2>2 DEF OnRing, GET_ID
    <3>4. x # 0 /\ x # n - 1 /\ x % 2 # 1 => mate[t] = t - 1
      BY <2>1, <2>2 DEF OnRing, GET_ID
    <3> QED
      BY <2>1, <2>3, <3>1, <3>2, <3>3, <3>4
<1> QED
  BY <1>4, <1>5, <1>6 DEF Pairs, mate, asking

LEMMA VRingIsPairs ==
  ASSUME NEW n \in Nat \ {0}, n % 2 = 0
  PROVE  Pairs(AllOf(n), [t \in AllOf(n) |-> VRing(n, t)],
               [t \in AllOf(n) |-> GET_ID(n, OnRing(n, GET_Y_ID(n, t)), GET_X_ID(n, t))],
               {t \in AllOf(n) : GET_Y_ID(n, t) % 2 = 0})
<1> DEFINE f      == [x \in 0..(n - 1) |-> OnRing(n, x)]
           odd    == {x \in 0..(n - 1) : x % 2 = 0}
           mate   == [t \in AllOf(n) |-> GET_ID(n, OnRing(n, GET_Y_ID(n, t)), GET_X_ID(n, t))]
           asking == {t \in AllOf(n) : GET_Y_ID(n, t) % 2 = 0}
<1>1. Mutual(n, f, odd) /\ \A x \in 0..(n - 1) : f[x] = OnRing(n, x)
  BY RingIsMutual DEF Mutual
<1>2. \A t \in AllOf(n) : /\ GET_X_ID(n, t) \in 0..(n - 1) /\ GET_Y_ID(n, t) \in 0..(n - 1)
                          /\ t = GET_ID(n, GET_Y_ID(n, t), GET_X_ID(n, t))
  BY Coordinates
<1>3. InColumn(n, f, mate) /\ \A t \in AllOf(n) : t \in asking <=> GET_Y_ID(n, t) \in odd
  BY <1>1, <1>2 DEF InColumn
<1> HIDE DEF f, odd, mate, asking
<1>4. \A t \in AllOf(n) : /\ mate[t] \in AllOf(n) /\ mate[mate[t]] = t
                          /\ GET_Y_ID(n, mate[t]) \in odd <=> GET_Y_ID(n, t) \notin odd
  BY <1>1, <1>3, ColumnMates
<1>5. \A t \in AllOf(n) : mate[t] \in asking <=> t \notin asking
  BY <1>3, <1>4
<1>6. ASSUME NEW t \in AllOf(n)
      PROVE  /\ t \in asking => VRing(n, t) = Request(t, mate[t])
             /\ t \notin asking => VRing(n, t) = Collect(t, 1, <<mate[t]>>)
  <2> DEFINE x == GET_X_ID(n, t)
             y == GET_Y_ID(n, t)
  <2>1. /\ x \in 0..(n - 1) /\ y \in 0..(n - 1) /\ t = GET_ID(n, y, x)
        /\ t \in asking <=> y % 2 = 0
    BY <1>2 DEF asking
  <2>2. mate[t] = GET_ID(n, OnRing(n, y), x)
    BY DEF mate
  <2> HIDE DEF mate, asking
  <2>3. VRing(n, t) = CASE y = 0                             -> Request(t, t + n * n - n)
                    [] y # 0 /\ y = n - 1                -> Collect(t, 1, <<t + n - n * n>>)
                    [] y \notin {0, n - 1} /\ y % 2 = 1  -> Collect(t, 1, <<t + n>>)
                    [] y \notin {0, n - 1} /\ y % 2 = 0  -> Request(t, t - n)
    BY DEF VRing
  <2> HIDE DEF x, y
  <2> QED
    <3>1. y = 0 => mate[t] = t + n * n - n
      BY <2>1, <2>2 DEF OnRing, GET_ID
    <3>2. y # 0 /\ y = n - 1 => mate[t] = t + n - n * n
      BY <2>1, <2>2 DEF OnRing, GET_ID
    <3>3. y # 0 /\ y # n - 1 /\ y % 2 = 1 => mate[t] = t + n
      BY <2>1, <2>2 DEF OnRing, GET_ID
    <3>4. y # 0 /\ y # n - 1 /\ y % 2 # 1 => mate[t] = t - n
      BY <2>1, <2>2 DEF OnRing, GET_ID
    <3> QED
      BY <2>1, <2>3, <3>1, <3>2, <3>3, <3>4
<1> QED
  BY <1>4, <1>5, <1>6 DEF Pairs, mate, asking

\* The tests around one tile, on the whole mesh.
OneTileTests(n) ==
  {[t \in AllOf(n) |-> Naive(n, t)], [t \in AllOf(n) |-> Row(n, t)], [t \in AllOf(n) |-> Col(n, t)]}
  \cup IF n % 2 # 0 THEN {}
       ELSE {[t \in AllOf(n) |-> Single(n, t)], [t \in AllOf(n) |-> HNeighbor(n, t)],
             [t \in AllOf(n) |-> VNeighbor(n, t)], [t \in AllOf(n) |-> HRing(n, t)],
             [t \in AllOf(n) |-> VRing(n, t)]}

\* Eight of the twelve tests are orderly, and so barriers by the theorems above,
\* on a mesh of any size; those of pairs and neighbours, in which each tile
\* needs its partner, if the side is even, as it is in every mesh of hw/mesh/noc.
THEOREM MeshTestsAreOrderly ==
  ASSUME NEW n \in Nat \ {0}, NEW prog \in OneTileTests(n), NEW rounds \in Nat, 0 \in Words
  PROVE  /\ WellFormed(AroundOne(AllOf(n), prog, rounds))
         /\ Orderly(AroundOne(AllOf(n), prog, rounds))
<1>1. \E root : Star(AllOf(n), prog, root)
  <2>1. CASE prog = [t \in AllOf(n) |-> Naive(n, t)]
    BY <2>1, NaiveIsAStar
  <2>2. CASE prog = [t \in AllOf(n) |-> Row(n, t)]
    BY <2>2, RowIsAStar
  <2>3. CASE prog = [t \in AllOf(n) |-> Col(n, t)]
    BY <2>3, ColIsAStar
  <2>4. CASE n % 2 = 0 /\ prog = [t \in AllOf(n) |-> Single(n, t)]
    BY <2>4, SingleIsPairs, PairsAreStars
  <2>5. CASE n % 2 = 0 /\ prog = [t \in AllOf(n) |-> HNeighbor(n, t)]
    BY <2>5, HNeighborIsPairs, PairsAreStars
  <2>6. CASE n % 2 = 0 /\ prog = [t \in AllOf(n) |-> VNeighbor(n, t)]
    BY <2>6, VNeighborIsPairs, PairsAreStars
  <2>7. CASE n % 2 = 0 /\ prog = [t \in AllOf(n) |-> HRing(n, t)]
    BY <2>7, HRingIsPairs, PairsAreStars
  <2>8. CASE n % 2 = 0 /\ prog = [t \in AllOf(n) |-> VRing(n, t)]
    BY <2>8, VRingIsPairs, PairsAreStars
  <2> QED
    BY <2>1, <2>2, <2>3, <2>4, <2>5, <2>6, <2>7, <2>8 DEF OneTileTests
<1>2. PICK root : Star(AllOf(n), prog, root)
  BY <1>1
<1>3. /\ WellFormed(AroundOne(AllOf(n), prog, rounds))
      /\ Central(AroundOne(AllOf(n), prog, rounds))
  BY <1>2, CentreInRange, StarIsCentral
<1> QED
  BY <1>3, CentralIsOrderly DEF WellCentred
-----------------------------------------------------------------------------
(* Barriers of two phases: the tiles ask nodes, the nodes ask one hub.      *)

Kids(s, up, t) == {o \in s.tiles : o # t /\ up[o] = t}

\* From its k-th access on a tile answers each tile of a set once.
AnswersFrom(s, t, k, S) ==
  LET p == s.prog[t]
  IN  /\ \A i \in k..Len(p) : p[i].tile \in S /\ p[i] = OnFirstWord("add", p[i].tile, 1)
      /\ \A o \in S : \E i \in k..Len(p) : p[i].tile = o
      /\ \A i, j \in k..Len(p) : p[i].tile = p[j].tile => i = j

LeafProgram(s, t, up) ==
  /\ Len(s.prog[t]) = 3
  /\ s.prog[t][1] = OnFirstWord("add", up[t], 1)
  /\ s.prog[t][2] = OnFirstWord("await", t, 1)
  /\ s.prog[t][3] = OnFirstWord("put", t, 0)

\* A node asks the hub when its own have asked, and awaits its answer in the
\* word in which it counts them.
NodeProgram(s, t, up) ==
  LET kids == Kids(s, up, t)
  IN  /\ Len(s.prog[t]) >= 4
      /\ s.prog[t][1] = OnFirstWord("await", t, Cardinality(kids))
      /\ s.prog[t][2] = OnFirstWord("add", up[t], 1)
      /\ s.prog[t][3] = OnFirstWord("await", t, Cardinality(kids) + 1)
      /\ s.prog[t][4] = OnFirstWord("put", t, 0)
      /\ AnswersFrom(s, t, 5, kids)

HubProgram(s, t, up) ==
  LET kids == Kids(s, up, t)
  IN  /\ Len(s.prog[t]) >= 3
      /\ s.prog[t][1] = OnFirstWord("await", t, s.prog[t][1].value)
      /\ s.prog[t][2] = OnFirstWord("await", t, Cardinality(kids))
      /\ s.prog[t][3] = OnFirstWord("put", t, 0)
      /\ AnswersFrom(s, t, 4, kids)

TwoPhase(s, up, nodes, hub) ==
  /\ WellFormed(s)
  /\ up \in [s.tiles -> s.tiles] /\ nodes \subseteq s.tiles
  /\ hub \in s.tiles /\ hub \notin nodes /\ up[hub] = hub
  /\ \A t \in nodes : up[t] = hub /\ NodeProgram(s, t, up)
  /\ \A t \in s.tiles : t \notin nodes /\ t # hub =>
       (up[t] \in nodes \/ up[t] = hub) /\ LeafProgram(s, t, up)
  /\ HubProgram(s, hub, up)

\* The accesses with which a tile asks, resets its word and begins to answer.
AskAt(nodes, t)           == IF t \in nodes THEN 2 ELSE 1
ClearAt(nodes, t)         == IF t \in nodes THEN 4 ELSE 3
FirstAnswer(nodes, t)     == IF t \in nodes THEN 5 ELSE 4
LEMMA Lengths ==
  ASSUME NEW s, NEW up, NEW nodes, NEW hub, TwoPhase(s, up, nodes, hub), NEW t \in s.tiles
  PROVE  /\ Len(s.prog[t]) \in Nat /\ Accesses(s, t) = 1..Len(s.prog[t])
         /\ ClearAt(nodes, t) <= Len(s.prog[t])
         /\ t \notin nodes /\ t # hub => Accesses(s, t) = {1, 2, 3} /\ Len(s.prog[t]) = 3
<1>1. Len(s.prog[t]) \in Nat
  <2>1. s.prog[t] \in Seq([op : {"add", "await", "put"}, tile : s.tiles, word : Words, value : Nat])
    BY DEF TwoPhase, WellFormed
  <2> QED
    BY <2>1
<1>2. Accesses(s, t) = 1..Len(s.prog[t])
  BY DEF Accesses
<1>3. CASE t \in nodes
  <2>1. Len(s.prog[t]) >= 4 /\ t # hub
    BY <1>3 DEF TwoPhase, NodeProgram
  <2> QED
    BY <1>1, <1>2, <1>3, <2>1 DEF ClearAt
<1>4. CASE t = hub
  <2>1. Len(s.prog[t]) >= 3 /\ t \notin nodes
    BY <1>4 DEF TwoPhase, HubProgram
  <2> QED
    BY <1>1, <1>2, <1>4, <2>1 DEF ClearAt
<1>5. CASE t \notin nodes /\ t # hub
  <2>1. Len(s.prog[t]) = 3
    BY <1>5 DEF TwoPhase, LeafProgram
  <2>2. 1..3 = {1, 2, 3}
    OBVIOUS
  <2> QED
    BY <1>1, <1>2, <1>5, <2>1, <2>2 DEF ClearAt
<1> QED
  BY <1>3, <1>4, <1>5

\* Who asks whom.
LEMMA Family ==
  ASSUME NEW s, NEW up, NEW nodes, NEW hub, TwoPhase(s, up, nodes, hub), NEW t \in s.tiles
  PROVE  /\ up[t] \in s.tiles /\ up[hub] = hub /\ hub \in s.tiles /\ hub \notin nodes
         /\ t \in nodes => t # hub /\ up[t] = hub
         /\ t # hub => /\ t \in Kids(s, up, up[t]) /\ up[t] # t /\ up[t] \notin Kids(s, up, t)
                       /\ up[t] \in nodes \/ up[t] = hub
         /\ \A o \in Kids(s, up, t) : o \in s.tiles /\ o # hub /\ o # t /\ up[o] = t
         /\ Kids(s, up, t) # {} => t \in nodes \/ t = hub
         /\ t \in nodes => \A o \in Kids(s, up, t) : o \notin nodes
         /\ IsFiniteSet(Kids(s, up, t))
<1>1. /\ up[t] \in s.tiles /\ up[hub] = hub /\ hub \in s.tiles /\ hub \notin nodes
      /\ \A o \in nodes : up[o] = hub /\ o \in s.tiles
      /\ \A o \in s.tiles : o \notin nodes /\ o # hub => up[o] \in nodes \/ up[o] = hub
  BY DEF TwoPhase
<1>2. IsFiniteSet(Kids(s, up, t))
  <2>1. IsFiniteSet(s.tiles) /\ Kids(s, up, t) \subseteq s.tiles
    BY DEF TwoPhase, WellFormed, Kids
  <2> QED
    BY <2>1, FS_Subset
<1>3. \A o \in Kids(s, up, t) : o \in s.tiles /\ o # t /\ up[o] = t
  BY DEF Kids
<1>4. \A o \in Kids(s, up, t) : o # hub /\ (t \in nodes \/ t = hub)
  BY <1>1, <1>3
<1>5. t \in nodes => \A o \in Kids(s, up, t) : o \notin nodes
  BY <1>1, <1>3
<1>6. t # hub => up[t] # t /\ (up[t] \in nodes \/ up[t] = hub)
  BY <1>1
<1>7. t # hub => t \in Kids(s, up, up[t]) /\ up[t] \notin Kids(s, up, t)
  BY <1>1, <1>6 DEF Kids
<1> QED
  BY <1>1, <1>2, <1>3, <1>4, <1>5, <1>6, <1>7

\* What each access does.
LEMMA PhaseActs ==
  ASSUME NEW s, NEW up, NEW nodes, NEW hub, TwoPhase(s, up, nodes, hub), NEW t \in s.tiles,
         NEW i \in Accesses(s, t)
  PROVE  /\ i \in Nat /\ i >= 1
         /\ \/ t # hub /\ i = AskAt(nodes, t) /\ IsAdd(s.prog[t][i], up[t])
            \/ i < ClearAt(nodes, t) /\ IsAwait(s.prog[t][i], t)
            \/ i = ClearAt(nodes, t) /\ IsReset(s.prog[t][i], t)
            \/ /\ i >= FirstAnswer(nodes, t) /\ s.prog[t][i].tile \in Kids(s, up, t)
               /\ IsAdd(s.prog[t][i], s.prog[t][i].tile)
<1>1. i \in 1..Len(s.prog[t]) /\ Len(s.prog[t]) \in Nat
  <2>1. Accesses(s, t) = 1..Len(s.prog[t]) /\ Len(s.prog[t]) \in Nat
    BY Lengths
  <2> QED
    BY <2>1
<1>2. ASSUME NEW k, AnswersFrom(s, t, k, Kids(s, up, t)), i \in k..Len(s.prog[t])
      PROVE  s.prog[t][i].tile \in Kids(s, up, t) /\ IsAdd(s.prog[t][i], s.prog[t][i].tile)
  <2>1. /\ s.prog[t][i].tile \in Kids(s, up, t)
        /\ s.prog[t][i] = [op |-> "add", tile |-> s.prog[t][i].tile, word |-> 0, value |-> 1]
    BY <1>2 DEF AnswersFrom, OnFirstWord
  <2> QED
    BY <2>1 DEF IsAdd
<1>3. CASE t \in nodes
  <2>1. NodeProgram(s, t, up) /\ t # hub
    BY <1>3 DEF TwoPhase
  <2>2. i = 1 \/ i = 2 \/ i = 3 \/ i = 4 \/ (i >= 5 /\ i \in 5..Len(s.prog[t]))
    BY <1>1
  <2>3. /\ IsAwait(s.prog[t][1], t) /\ IsAdd(s.prog[t][2], up[t])
        /\ IsAwait(s.prog[t][3], t) /\ IsReset(s.prog[t][4], t)
    BY <2>1 DEF NodeProgram, OnFirstWord, IsAwait, IsAdd, IsReset
  <2>4. AnswersFrom(s, t, 5, Kids(s, up, t))
    BY <2>1 DEF NodeProgram
  <2> QED
    BY <1>1, <1>2, <1>3, <2>1, <2>2, <2>3, <2>4 DEF AskAt, ClearAt, FirstAnswer
<1>4. CASE t = hub
  <2>1. HubProgram(s, t, up) /\ t \notin nodes
    BY <1>4 DEF TwoPhase
  <2>2. i = 1 \/ i = 2 \/ i = 3 \/ (i >= 4 /\ i \in 4..Len(s.prog[t]))
    BY <1>1
  <2>3. IsAwait(s.prog[t][1], t) /\ IsAwait(s.prog[t][2], t) /\ IsReset(s.prog[t][3], t)
    BY <2>1 DEF HubProgram, OnFirstWord, IsAwait, IsReset
  <2>4. AnswersFrom(s, t, 4, Kids(s, up, t))
    BY <2>1 DEF HubProgram
  <2> QED
    BY <1>1, <1>2, <1>4, <2>1, <2>2, <2>3, <2>4 DEF ClearAt, FirstAnswer
<1>5. CASE t \notin nodes /\ t # hub
  <2>1. LeafProgram(s, t, up)
    BY <1>5 DEF TwoPhase
  <2>2. i = 1 \/ i = 2 \/ i = 3
    BY <1>1, <2>1 DEF LeafProgram
  <2>3. IsAdd(s.prog[t][1], up[t]) /\ IsAwait(s.prog[t][2], t) /\ IsReset(s.prog[t][3], t)
    BY <2>1 DEF LeafProgram, OnFirstWord, IsAwait, IsAdd, IsReset
  <2> QED
    BY <1>1, <1>5, <2>2, <2>3 DEF AskAt, ClearAt
<1> QED
  BY <1>3, <1>4, <1>5

LEMMA PhaseWrites ==
  ASSUME NEW s, NEW up, NEW nodes, NEW hub, TwoPhase(s, up, nodes, hub), NEW d \in s.tiles,
         NEW i \in Accesses(s, d), NEW t, NEW w, Writes(s.prog[d][i], t, w)
  PROVE  /\ w = 0
         /\ \/ d # hub /\ t = up[d] /\ i = AskAt(nodes, d)
            \/ t \in Kids(s, up, d) /\ i >= FirstAnswer(nodes, d) /\ s.prog[d][i].tile = t
BY PhaseActs DEF Writes, IsAdd, IsAwait, IsReset

\* An answer of a tile to each that asks it.
LEMMA PhaseAnswers ==
  ASSUME NEW s, NEW up, NEW nodes, NEW hub, TwoPhase(s, up, nodes, hub), NEW r \in s.tiles,
         NEW t \in Kids(s, up, r)
  PROVE  /\ \E i \in Accesses(s, r) : Writes(s.prog[r][i], t, 0)
         /\ \A i, j \in Accesses(s, r) :
              i >= FirstAnswer(nodes, r) /\ j >= FirstAnswer(nodes, r)
              /\ s.prog[r][i].tile = s.prog[r][j].tile => i = j
<1> DEFINE k == FirstAnswer(nodes, r)
<1>1. Accesses(s, r) = 1..Len(s.prog[r]) /\ Len(s.prog[r]) \in Nat
  BY Lengths
<1>2. AnswersFrom(s, r, k, Kids(s, up, r)) /\ k \in Nat /\ k >= 4
  <2>1. CASE r \in nodes
    <3>1. NodeProgram(s, r, up) /\ k = 5
      BY <2>1 DEF TwoPhase, FirstAnswer
    <3> HIDE DEF k
    <3> QED
      BY <3>1 DEF NodeProgram
  <2>2. CASE r = hub
    <3>1. HubProgram(s, r, up) /\ k = 4
      BY <2>2 DEF TwoPhase, FirstAnswer
    <3> HIDE DEF k
    <3> QED
      BY <3>1 DEF HubProgram
  <2>3. Kids(s, up, r) # {}
    OBVIOUS
  <2>4. r \in nodes \/ r = hub
    BY <2>3, Family
  <2> QED
    BY <2>1, <2>2, <2>4
<1> HIDE DEF k
<1>3. PICK i \in k..Len(s.prog[r]) : s.prog[r][i].tile = t
  BY <1>2 DEF AnswersFrom
<1>4. i \in Accesses(s, r)
  BY <1>1, <1>2, <1>3
<1>5. s.prog[r][i] = [op |-> "add", tile |-> t, word |-> 0, value |-> 1]
  BY <1>2, <1>3 DEF AnswersFrom, OnFirstWord
<1>6. Writes(s.prog[r][i], t, 0)
  BY <1>5 DEF Writes
<1>7. ASSUME NEW m \in Accesses(s, r), NEW n \in Accesses(s, r), m >= k, n >= k,
             s.prog[r][m].tile = s.prog[r][n].tile
      PROVE  m = n
  <2>1. m \in k..Len(s.prog[r]) /\ n \in k..Len(s.prog[r])
    BY <1>1, <1>2, <1>7
  <2> QED
    BY <1>2, <1>7, <2>1 DEF AnswersFrom
<1> QED
  BY <1>4, <1>6, <1>7 DEF k

LEMMA PhaseAsks ==
  ASSUME NEW s, NEW up, NEW nodes, NEW hub, TwoPhase(s, up, nodes, hub), NEW t \in s.tiles, t # hub
  PROVE  AskAt(nodes, t) \in Accesses(s, t) /\ Writes(s.prog[t][AskAt(nodes, t)], up[t], 0)
<1>1. Accesses(s, t) = 1..Len(s.prog[t]) /\ Len(s.prog[t]) \in Nat
  BY Lengths
<1>2. CASE t \in nodes
  <2>1. NodeProgram(s, t, up) /\ AskAt(nodes, t) = 2
    BY <1>2 DEF TwoPhase, AskAt
  <2>2. s.prog[t][2] = [op |-> "add", tile |-> up[t], word |-> 0, value |-> 1] /\ Len(s.prog[t]) >= 4
    BY <2>1 DEF NodeProgram, OnFirstWord
  <2>3. Writes(s.prog[t][2], up[t], 0) /\ 2 \in Accesses(s, t)
    BY <1>1, <2>2 DEF Writes
  <2> QED
    BY <2>1, <2>3
<1>3. CASE t \notin nodes
  <2>1. LeafProgram(s, t, up) /\ AskAt(nodes, t) = 1
    BY <1>3 DEF TwoPhase, AskAt
  <2>2. s.prog[t][1] = [op |-> "add", tile |-> up[t], word |-> 0, value |-> 1] /\ Len(s.prog[t]) = 3
    BY <2>1 DEF LeafProgram, OnFirstWord
  <2>3. Writes(s.prog[t][1], up[t], 0) /\ 1 \in Accesses(s, t)
    BY <1>1, <2>2 DEF Writes
  <2> QED
    BY <2>1, <2>3
<1> QED
  BY <1>2, <1>3

LEMMA PhaseResets ==
  ASSUME NEW s, NEW up, NEW nodes, NEW hub, TwoPhase(s, up, nodes, hub), NEW t \in s.tiles
  PROVE  /\ ClearAt(nodes, t) \in Accesses(s, t) /\ Resets(s.prog[t][ClearAt(nodes, t)], t, 0)
         /\ ResetAt(s, t, 0) = ClearAt(nodes, t) /\ HasReset(s, t, 0)
         /\ \A i \in Accesses(s, t) : \A w : Resets(s.prog[t][i], t, w) => i = ClearAt(nodes, t) /\ w = 0
<1> DEFINE c == ClearAt(nodes, t)
<1>1. c \in Accesses(s, t)
  <2>1. Accesses(s, t) = 1..Len(s.prog[t]) /\ Len(s.prog[t]) \in Nat /\ c <= Len(s.prog[t])
    BY Lengths
  <2>2. c \in Nat /\ c >= 1
    BY DEF ClearAt
  <2> HIDE DEF c
  <2> QED
    BY <2>1, <2>2
<1>2. \A i \in Accesses(s, t) : \A w : Resets(s.prog[t][i], t, w) => i = c /\ w = 0
  BY PhaseActs DEF Resets, IsAdd, IsAwait, IsReset
<1>3. Resets(s.prog[t][c], t, 0)
  <2>1. AskAt(nodes, t) < c /\ FirstAnswer(nodes, t) > c /\ c \in Nat
    BY DEF AskAt, ClearAt, FirstAnswer
  <2>2. FirstAnswer(nodes, t) \in Nat /\ AskAt(nodes, t) \in Nat
    BY DEF FirstAnswer, AskAt
  <2> HIDE DEF c
  <2>3. /\ ~(c = AskAt(nodes, t)) /\ ~(c < c) /\ ~(c >= FirstAnswer(nodes, t))
    BY <2>1, <2>2
  <2>4. IsReset(s.prog[t][c], t)
    BY <1>1, <2>3, PhaseActs DEF c
  <2> QED
    BY <2>4 DEF IsReset, Resets
<1> HIDE DEF c
<1>4. ResetAt(s, t, 0) \in Accesses(s, t) /\ Resets(s.prog[t][ResetAt(s, t, 0)], t, 0)
  BY <1>1, <1>3 DEF ResetAt
<1>5. ResetAt(s, t, 0) = c /\ HasReset(s, t, 0)
  BY <1>1, <1>2, <1>3, <1>4 DEF HasReset
<1> QED
  BY <1>1, <1>2, <1>3, <1>5 DEF c

LEMMA PhaseWriters ==
  ASSUME NEW s, NEW up, NEW nodes, NEW hub, TwoPhase(s, up, nodes, hub), NEW t \in s.tiles
  PROVE  /\ Writers(s, t, 0) = Kids(s, up, t) \cup (IF t = hub THEN {} ELSE {up[t]})
         /\ \A d \in Kids(s, up, t) : WriteAt(s, d, t, 0) = AskAt(nodes, d)
         /\ t # hub => LET k == WriteAt(s, up[t], t, 0) IN
              /\ k \in Accesses(s, up[t]) /\ k \in Nat /\ k >= FirstAnswer(nodes, up[t])
              /\ s.prog[up[t]][k].tile = t
<1>1. ASSUME NEW d \in s.tiles, NEW i \in Accesses(s, d), Writes(s.prog[d][i], t, 0)
      PROVE  \/ d \in Kids(s, up, t) /\ i = AskAt(nodes, d)
             \/ t # hub /\ d = up[t] /\ i >= FirstAnswer(nodes, d) /\ s.prog[d][i].tile = t
  <2>1. \/ d # hub /\ t = up[d] /\ i = AskAt(nodes, d)
        \/ t \in Kids(s, up, d) /\ i >= FirstAnswer(nodes, d) /\ s.prog[d][i].tile = t
    BY <1>1, PhaseActs DEF Writes, IsAdd, IsAwait, IsReset
  <2>2. d # hub => d \in Kids(s, up, up[d])
    BY Family
  <2>3. t \in Kids(s, up, d) => t # hub /\ up[t] = d
    BY Family
  <2> QED
    BY <2>1, <2>2, <2>3
<1>2. ASSUME NEW d \in Kids(s, up, t)
      PROVE  /\ d \in s.tiles /\ \E i \in Accesses(s, d) : Writes(s.prog[d][i], t, 0)
             /\ WriteAt(s, d, t, 0) = AskAt(nodes, d)
  <2>1. d \in s.tiles /\ d # hub /\ d # t /\ up[d] = t
    BY Family
  <2>2. AskAt(nodes, d) \in Accesses(s, d) /\ Writes(s.prog[d][AskAt(nodes, d)], t, 0)
    BY <2>1, PhaseAsks
  <2>3. WriteAt(s, d, t, 0) \in Accesses(s, d) /\ Writes(s.prog[d][WriteAt(s, d, t, 0)], t, 0)
    BY <2>2 DEF WriteAt
  <2>4. t # hub => d # up[t]
    BY Family
  <2> QED
    BY <1>1, <2>1, <2>2, <2>3, <2>4
<1>3. ASSUME t # hub
      PROVE  LET k == WriteAt(s, up[t], t, 0) IN
             /\ up[t] \in s.tiles /\ k \in Accesses(s, up[t]) /\ k \in Nat
             /\ Writes(s.prog[up[t]][k], t, 0)
             /\ k >= FirstAnswer(nodes, up[t]) /\ s.prog[up[t]][k].tile = t
  <2> DEFINE r == up[t]
             k == WriteAt(s, r, t, 0)
  <2>1. r \in s.tiles /\ t \in Kids(s, up, r) /\ r \notin Kids(s, up, t)
    BY <1>3, Family
  <2> HIDE DEF r
  <2>2. \E i \in Accesses(s, r) : Writes(s.prog[r][i], t, 0)
    BY <2>1, PhaseAnswers
  <2>3. k \in Accesses(s, r) /\ Writes(s.prog[r][k], t, 0)
    BY <2>2 DEF WriteAt
  <2> HIDE DEF k
  <2>4. k \in Nat
    BY <2>1, <2>3, PhaseActs
  <2>5. k >= FirstAnswer(nodes, r) /\ s.prog[r][k].tile = t
    BY <1>1, <2>1, <2>3
  <2> QED
    BY <2>1, <2>3, <2>4, <2>5 DEF r, k
<1>4. Writers(s, t, 0) \subseteq Kids(s, up, t) \cup (IF t = hub THEN {} ELSE {up[t]})
  BY <1>1 DEF Writers
<1>5. Kids(s, up, t) \cup (IF t = hub THEN {} ELSE {up[t]}) \subseteq Writers(s, t, 0)
  <2>1. Kids(s, up, t) \subseteq Writers(s, t, 0)
    BY <1>2 DEF Writers
  <2>2. t # hub => up[t] \in Writers(s, t, 0)
    BY <1>3 DEF Writers
  <2> QED
    BY <2>1, <2>2
<1> QED
  BY <1>2, <1>3, <1>4, <1>5

\* How many write to the word of a tile.
LEMMA PhaseCounts ==
  ASSUME NEW s, NEW up, NEW nodes, NEW hub, TwoPhase(s, up, nodes, hub), NEW t \in s.tiles
  PROVE  Cardinality(Writers(s, t, 0)) =
           IF t = hub THEN Cardinality(Kids(s, up, t))
           ELSE IF t \in nodes THEN Cardinality(Kids(s, up, t)) + 1 ELSE 1
<1>1. Writers(s, t, 0) = Kids(s, up, t) \cup (IF t = hub THEN {} ELSE {up[t]})
  BY PhaseWriters
<1>2. IsFiniteSet(Kids(s, up, t)) /\ (t # hub => up[t] \notin Kids(s, up, t))
  BY Family
<1>3. CASE t = hub
  BY <1>1, <1>3
<1>4. CASE t # hub /\ t \in nodes
  <2>1. Cardinality(Kids(s, up, t) \cup {up[t]}) = Cardinality(Kids(s, up, t)) + 1
    BY <1>2, <1>4, FS_AddElement
  <2> QED
    BY <1>1, <1>4, <2>1
<1>5. CASE t # hub /\ t \notin nodes
  <2>1. Kids(s, up, t) = {}
    BY <1>5, Family
  <2>2. Cardinality({up[t]}) = 1
    BY FS_Singleton
  <2> QED
    BY <1>1, <1>5, <2>1, <2>2
<1> QED
  BY <1>3, <1>4, <1>5

LEMMA BeforeClear ==
  ASSUME NEW s, NEW up, NEW nodes, NEW hub, TwoPhase(s, up, nodes, hub), NEW t \in s.tiles
  PROVE  /\ ClearAt(nodes, t) > 1
         /\ s.prog[t][ClearAt(nodes, t) - 1] =
              [op |-> "await", tile |-> t, word |-> 0, value |-> Cardinality(Writers(s, t, 0))]
<1>1. CASE t \in nodes
  <2>1. NodeProgram(s, t, up) /\ t # hub
    BY <1>1 DEF TwoPhase
  <2>2. s.prog[t][3] = [op |-> "await", tile |-> t, word |-> 0, value |-> Cardinality(Kids(s, up, t)) + 1]
    BY <2>1 DEF NodeProgram, OnFirstWord
  <2>3. Cardinality(Writers(s, t, 0)) = Cardinality(Kids(s, up, t)) + 1
    BY <1>1, <2>1, PhaseCounts
  <2>4. ClearAt(nodes, t) > 1 /\ ClearAt(nodes, t) - 1 = 3
    BY <1>1 DEF ClearAt
  <2> QED
    BY <2>2, <2>3, <2>4
<1>2. CASE t = hub
  <2>1. HubProgram(s, t, up) /\ t \notin nodes
    BY <1>2 DEF TwoPhase
  <2>2. s.prog[t][2] = [op |-> "await", tile |-> t, word |-> 0, value |-> Cardinality(Kids(s, up, t))]
    BY <2>1 DEF HubProgram, OnFirstWord
  <2>3. Cardinality(Writers(s, t, 0)) = Cardinality(Kids(s, up, t))
    BY <1>2, PhaseCounts
  <2>4. ClearAt(nodes, t) > 1 /\ ClearAt(nodes, t) - 1 = 2
    BY <2>1 DEF ClearAt
  <2> QED
    BY <2>2, <2>3, <2>4
<1>3. CASE t \notin nodes /\ t # hub
  <2>1. LeafProgram(s, t, up)
    BY <1>3 DEF TwoPhase
  <2>2. s.prog[t][2] = [op |-> "await", tile |-> t, word |-> 0, value |-> 1]
    BY <2>1 DEF LeafProgram, OnFirstWord
  <2>3. Cardinality(Writers(s, t, 0)) = 1
    BY <1>3, PhaseCounts
  <2>4. ClearAt(nodes, t) > 1 /\ ClearAt(nodes, t) - 1 = 2
    BY <1>3 DEF ClearAt
  <2> QED
    BY <2>2, <2>3, <2>4
<1> QED
  BY <1>1, <1>2, <1>3

\* No tile writes twice to another's word, or resets its own twice.
LEMMA PhaseOnce ==
  ASSUME NEW s, NEW up, NEW nodes, NEW hub, TwoPhase(s, up, nodes, hub), NEW t \in s.tiles,
         NEW i \in Accesses(s, t), NEW j \in Accesses(s, t), Alike(s.prog[t][i], s.prog[t][j])
  PROVE  i = j
<1>1. up[t] \notin Kids(s, up, t) \/ t = hub
  BY Family
<1>2. CASE t # hub /\ i = AskAt(nodes, t) /\ IsAdd(s.prog[t][i], up[t])
  BY <1>1, <1>2, PhaseActs DEF Alike, IsAdd, IsAwait, IsReset
<1>3. CASE i = ClearAt(nodes, t) /\ IsReset(s.prog[t][i], t)
  BY <1>3, PhaseActs DEF Alike, IsAdd, IsAwait, IsReset
<1>4. CASE IsAwait(s.prog[t][i], t)
  BY <1>4 DEF Alike, IsAwait
<1>5. CASE /\ i >= FirstAnswer(nodes, t) /\ s.prog[t][i].tile \in Kids(s, up, t)
           /\ IsAdd(s.prog[t][i], s.prog[t][i].tile)
  <2>1. s.prog[t][i].tile = s.prog[t][j].tile /\ j >= FirstAnswer(nodes, t)
    BY <1>1, <1>5, PhaseActs DEF Alike, IsAdd, IsAwait, IsReset
  <2> QED
    BY <1>5, <2>1, PhaseAnswers
<1> QED
  BY <1>2, <1>3, <1>4, <1>5, PhaseActs

LEMMA TwoPhaseHandshakes ==
  ASSUME NEW s, NEW up, NEW nodes, NEW hub, TwoPhase(s, up, nodes, hub)
  PROVE  Handshakes(s)
<1> SUFFICES ASSUME NEW t \in s.tiles, NEW i \in Accesses(s, t)
             PROVE  LET p == s.prog[t]
                        a == p[i]
                        writers == Writers(s, a.tile, a.word)
                    IN  /\ a.op = "await" =>
                             a.tile = t /\ \E j \in i..Len(p) : Resets(p[j], t, a.word)
                        /\ a.op = "add" => a.value = 1
                        /\ a.op = "put" /\ a.value # 0 => a.value = 1 /\ writers = {t}
                        /\ a.op = "put" /\ a.value = 0 =>
                             /\ a.tile = t /\ i > 1
                             /\ p[i - 1] = [op |-> "await", tile |-> t, word |-> a.word,
                                            value |-> Cardinality(writers)]
                        /\ a.op # "await" => HasReset(s, a.tile, a.word)
                        /\ \A j \in Accesses(s, t) : Alike(a, p[j]) => i = j
  BY Zenon DEF Handshakes
<1> SUFFICES ASSUME NEW a, a = s.prog[t][i]
             PROVE  /\ a.op = "await" =>
                         a.tile = t /\ \E j \in i..Len(s.prog[t]) : Resets(s.prog[t][j], t, a.word)
                    /\ a.op = "add" => a.value = 1
                    /\ a.op = "put" /\ a.value # 0 =>
                         a.value = 1 /\ Writers(s, a.tile, a.word) = {t}
                    /\ a.op = "put" /\ a.value = 0 =>
                         /\ a.tile = t /\ i > 1
                         /\ s.prog[t][i - 1] = [op |-> "await", tile |-> t, word |-> a.word,
                                        value |-> Cardinality(Writers(s, a.tile, a.word))]
                    /\ a.op # "await" => HasReset(s, a.tile, a.word)
                    /\ \A j \in Accesses(s, t) : Alike(a, s.prog[t][j]) => i = j
  BY Zenon
<1>1. \A j \in Accesses(s, t) : Alike(a, s.prog[t][j]) => i = j
  BY PhaseOnce
<1>2. ASSUME NEW o, IsAdd(a, o), o \in s.tiles
      PROVE  a.op = "add" /\ a.value = 1 /\ HasReset(s, a.tile, a.word)
  BY <1>2, PhaseResets DEF IsAdd
<1>3. CASE t # hub /\ i = AskAt(nodes, t) /\ IsAdd(a, up[t])
  <2>1. a.op = "add" /\ a.value = 1 /\ HasReset(s, a.tile, a.word)
    BY <1>2, <1>3, Family
  <2> QED
    BY <1>1, <2>1
<1>4. CASE i < ClearAt(nodes, t) /\ IsAwait(a, t)
  <2>1. a.op = "await" /\ a.tile = t /\ a.word = 0
    BY <1>4 DEF IsAwait
  <2>2. /\ ClearAt(nodes, t) <= Len(s.prog[t]) /\ Len(s.prog[t]) \in Nat /\ i \in Nat
        /\ ClearAt(nodes, t) \in Nat
    BY Lengths, PhaseActs DEF ClearAt
  <2>3. Resets(s.prog[t][ClearAt(nodes, t)], t, 0)
    BY PhaseResets
  <2>4. ClearAt(nodes, t) \in i..Len(s.prog[t])
    BY <1>4, <2>2
  <2> QED
    BY <1>1, <2>1, <2>3, <2>4
<1>5. CASE i = ClearAt(nodes, t) /\ IsReset(a, t)
  <2>1. a.op = "put" /\ a.tile = t /\ a.word = 0 /\ a.value = 0
    BY <1>5 DEF IsReset
  <2>2. HasReset(s, t, 0)
    BY PhaseResets
  <2>3. /\ i > 1
        /\ s.prog[t][i - 1] = [op |-> "await", tile |-> t, word |-> 0,
                               value |-> Cardinality(Writers(s, t, 0))]
    BY <1>5, BeforeClear
  <2> QED
    BY <1>1, <2>1, <2>2, <2>3
<1>6. CASE a.tile \in Kids(s, up, t) /\ IsAdd(a, a.tile)
  <2>1. a.op = "add" /\ a.value = 1 /\ HasReset(s, a.tile, a.word)
    BY <1>2, <1>6, Family
  <2> QED
    BY <1>1, <2>1
<1> QED
  BY <1>3, <1>4, <1>5, <1>6, PhaseActs

\* What they know. The hub, from its second await on, that all have entered and
\* the nodes have asked; a node, that its own have entered, and from its second
\* await on what the hub knew when it answered it; the others, what the one
\* they asked knew when it answered them.
Begun(S)  == {<<u, 1>> : u \in S}
Since(t, i) == {<<t, j>> : j \in 2..i}

HubKnows(s, nodes, hub, i) ==
  IF i = 0 THEN {}
  ELSE IF i = 1 THEN {<<hub, 1>>}
  ELSE Begun(s.tiles) \cup {<<m, 2>> : m \in nodes} \cup Since(hub, i)

NodeKnows(s, up, nodes, hub, t, i) ==
  IF i = 0 THEN {}
  ELSE IF i <= 2 THEN Begun(Kids(s, up, t) \cup {t}) \cup Since(t, i)
  ELSE HubKnows(s, nodes, hub, WriteAt(s, hub, t, 0)) \cup Since(t, i)

AskedKnows(s, up, nodes, hub, t, i) ==
  IF t = hub THEN HubKnows(s, nodes, hub, i) ELSE NodeKnows(s, up, nodes, hub, t, i)

LeafKnows(s, up, nodes, hub, t, i) ==
  IF i = 0 THEN {}
  ELSE IF i = 1 THEN {<<t, 1>>}
  ELSE AskedKnows(s, up, nodes, hub, up[t], WriteAt(s, up[t], t, 0))

PhaseKnow(s, up, nodes, hub) ==
  [t \in s.tiles |-> [i \in Nat |->
     IF t = hub \/ t \in nodes THEN AskedKnows(s, up, nodes, hub, t, i)
     ELSE LeafKnows(s, up, nodes, hub, t, i)]]

Informed(s, up, nodes, hub, know) ==
  TwoPhase(s, up, nodes, hub) /\ know = PhaseKnow(s, up, nodes, hub)

LEMMA HubKnowledge ==
  ASSUME NEW s, NEW up, NEW nodes, NEW hub, NEW know, Informed(s, up, nodes, hub, know)
  PROVE  /\ know[hub][0] = {} /\ know[hub][1] = {<<hub, 1>>}
         /\ \A i \in Nat : i >= 2 =>
              know[hub][i] = Begun(s.tiles) \cup {<<m, 2>> : m \in nodes} \cup Since(hub, i)
<1>1. hub \in s.tiles
  BY DEF Informed, TwoPhase
<1>2. \A i \in Nat : know[hub][i] = HubKnows(s, nodes, hub, i)
  BY <1>1 DEF Informed, PhaseKnow, AskedKnows
<1>3. know[hub][0] = {} /\ know[hub][1] = {<<hub, 1>>}
  <2>1. know[hub][0] = HubKnows(s, nodes, hub, 0) /\ know[hub][1] = HubKnows(s, nodes, hub, 1)
    BY <1>2
  <2>2. HubKnows(s, nodes, hub, 0) = {} /\ HubKnows(s, nodes, hub, 1) = {<<hub, 1>>}
    BY DEF HubKnows
  <2> QED
    BY <2>1, <2>2
<1>4. ASSUME NEW i \in Nat, i >= 2
      PROVE  know[hub][i] = Begun(s.tiles) \cup {<<m, 2>> : m \in nodes} \cup Since(hub, i)
  <2>1. know[hub][i] = HubKnows(s, nodes, hub, i) /\ i # 0 /\ i # 1
    BY <1>2, <1>4
  <2> QED
    BY <2>1 DEF HubKnows
<1> QED
  BY <1>3, <1>4

LEMMA NodeKnowledge ==
  ASSUME NEW s, NEW up, NEW nodes, NEW hub, NEW know, Informed(s, up, nodes, hub, know),
         NEW t \in nodes
  PROVE  /\ know[t][0] = {} /\ know[t][1] = Begun(Kids(s, up, t) \cup {t})
         /\ know[t][2] = Begun(Kids(s, up, t) \cup {t}) \cup {<<t, 2>>}
<1>1. t \in s.tiles /\ t # hub
  BY DEF Informed, TwoPhase
<1>2. \A i \in Nat : know[t][i] = NodeKnows(s, up, nodes, hub, t, i)
  BY <1>1 DEF Informed, PhaseKnow, AskedKnows
<1>3. Since(t, 1) = {} /\ Since(t, 2) = {<<t, 2>>}
  <2>1. 2..1 = {} /\ 2..2 = {2}
    OBVIOUS
  <2> QED
    BY <2>1 DEF Since
<1>4. /\ know[t][0] = NodeKnows(s, up, nodes, hub, t, 0)
      /\ know[t][1] = NodeKnows(s, up, nodes, hub, t, 1)
      /\ know[t][2] = NodeKnows(s, up, nodes, hub, t, 2)
  BY <1>2
<1>5. /\ NodeKnows(s, up, nodes, hub, t, 0) = {}
      /\ NodeKnows(s, up, nodes, hub, t, 1) = Begun(Kids(s, up, t) \cup {t}) \cup Since(t, 1)
      /\ NodeKnows(s, up, nodes, hub, t, 2) = Begun(Kids(s, up, t) \cup {t}) \cup Since(t, 2)
  BY DEF NodeKnows
<1> QED
  BY <1>3, <1>4, <1>5

LEMMA NodeIsTold ==
  ASSUME NEW s, NEW up, NEW nodes, NEW hub, NEW know, Informed(s, up, nodes, hub, know),
         NEW t \in nodes, NEW i \in Nat, i >= 3
  PROVE  know[t][i] = know[hub][WriteAt(s, hub, t, 0)] \cup Since(t, i)
<1>1. TwoPhase(s, up, nodes, hub)
  BY DEF Informed
<1>2. t \in s.tiles /\ t # hub /\ hub \in s.tiles
  BY <1>1 DEF TwoPhase
<1>3. WriteAt(s, hub, t, 0) \in Nat
  <2>1. up[t] = hub
    BY <1>1, <1>2, Family
  <2> QED
    BY <1>1, <1>2, <2>1, PhaseWriters
<1>4. know[hub][WriteAt(s, hub, t, 0)] = HubKnows(s, nodes, hub, WriteAt(s, hub, t, 0))
  BY <1>2, <1>3 DEF Informed, PhaseKnow, AskedKnows
<1>5. know[t][i] = NodeKnows(s, up, nodes, hub, t, i) /\ i # 0 /\ ~(i <= 2)
  BY <1>2 DEF Informed, PhaseKnow, AskedKnows
<1>6. know[t][i] = HubKnows(s, nodes, hub, WriteAt(s, hub, t, 0)) \cup Since(t, i)
  BY <1>5 DEF NodeKnows
<1> QED
  BY <1>4, <1>6

LEMMA LeafKnowledge ==
  ASSUME NEW s, NEW up, NEW nodes, NEW hub, NEW know, Informed(s, up, nodes, hub, know),
         NEW t \in s.tiles,
         t \notin nodes, t # hub
  PROVE  /\ know[t][0] = {} /\ know[t][1] = {<<t, 1>>}
         /\ know[t][2] = know[up[t]][WriteAt(s, up[t], t, 0)]
         /\ know[t][3] = know[up[t]][WriteAt(s, up[t], t, 0)]
<1>1. \A i \in Nat : know[t][i] = LeafKnows(s, up, nodes, hub, t, i)
  BY DEF Informed, PhaseKnow
<1>0. TwoPhase(s, up, nodes, hub)
  BY DEF Informed
<1>2. up[t] \in s.tiles /\ (up[t] \in nodes \/ up[t] = hub)
  BY <1>0, Family
<1>3. WriteAt(s, up[t], t, 0) \in Nat
  BY <1>0, PhaseWriters
<1>4. know[up[t]][WriteAt(s, up[t], t, 0)] =
        AskedKnows(s, up, nodes, hub, up[t], WriteAt(s, up[t], t, 0))
  BY <1>2, <1>3 DEF Informed, PhaseKnow
<1> QED
  BY <1>1, <1>4 DEF LeafKnows

\* The accesses they know of are accesses.
LEMMA Started ==
  ASSUME NEW s, NEW up, NEW nodes, NEW hub, TwoPhase(s, up, nodes, hub), NEW t \in s.tiles
  PROVE  /\ 1 \in Accesses(s, t) /\ (t \in nodes => 2 \in Accesses(s, t))
         /\ \A i \in Accesses(s, t) : \A j \in 2..i : j \in Accesses(s, t)
<1>1. /\ Len(s.prog[t]) \in Nat /\ Accesses(s, t) = 1..Len(s.prog[t])
      /\ ClearAt(nodes, t) <= Len(s.prog[t])
  BY Lengths
<1>2. ClearAt(nodes, t) \in {3, 4}
  BY DEF ClearAt
<1> QED
  BY <1>1, <1>2

LEMMA HubTells ==
  ASSUME NEW s, NEW up, NEW nodes, NEW hub, NEW know, Informed(s, up, nodes, hub, know),
         NEW i \in Accesses(s, hub), NEW z \in know[hub][i]
  PROVE  z[1] \in s.tiles /\ z[2] \in Accesses(s, z[1])
<1>0. TwoPhase(s, up, nodes, hub)
  BY DEF Informed
<1>1. hub \in s.tiles /\ nodes \subseteq s.tiles
  BY <1>0 DEF TwoPhase
<1>2. i \in Nat /\ i >= 1
  BY <1>0, <1>1, PhaseActs
<1>3. CASE i = 1
  <2>1. z = <<hub, 1>>
    BY <1>3, HubKnowledge
  <2> QED
    BY <1>0, <1>1, <2>1, Started
<1>4. CASE i >= 2
  <2>1. z \in Begun(s.tiles) \cup {<<m, 2>> : m \in nodes} \cup Since(hub, i)
    BY <1>2, <1>4, HubKnowledge
  <2>2. CASE z \in Begun(s.tiles)
    BY <1>0, <2>2, Started DEF Begun
  <2>3. CASE z \in {<<m, 2>> : m \in nodes}
    BY <1>0, <1>1, <2>3, Started
  <2>4. CASE z \in Since(hub, i)
    BY <1>0, <1>1, <2>4, Started DEF Since
  <2> QED
    BY <2>1, <2>2, <2>3, <2>4
<1> QED
  BY <1>2, <1>3, <1>4

\* The hub cannot tell that a node is through its second await.
LEMMA NodesWait ==
  ASSUME NEW s, NEW up, NEW nodes, NEW hub, NEW know, Informed(s, up, nodes, hub, know),
         NEW t \in nodes, NEW i \in Nat, i >= 2
  PROVE  <<t, 3>> \notin know[hub][i]
<1>1. know[hub][i] = Begun(s.tiles) \cup {<<m, 2>> : m \in nodes} \cup Since(hub, i)
  BY HubKnowledge
<1>2. hub # t
  BY DEF Informed, TwoPhase
<1> QED
  BY <1>1, <1>2 DEF Begun, Since

\* What a tile that answers knows just before, and then.
LEMMA Answering ==
  ASSUME NEW s, NEW up, NEW nodes, NEW hub, NEW know, Informed(s, up, nodes, hub, know),
         NEW r \in s.tiles, r \in nodes \/ r = hub, NEW k \in Nat, k >= FirstAnswer(nodes, r)
  PROVE  /\ \A u \in s.tiles : <<u, 1>> \in know[r][k - 1] /\ <<u, 1>> \in know[r][k]
         /\ <<r, k>> \in know[r][k] /\ <<r, ClearAt(nodes, r)>> \in know[r][k]
         /\ \A t \in s.tiles : t \notin nodes /\ t # hub => <<t, 2>> \notin know[r][k - 1]
<1>0. TwoPhase(s, up, nodes, hub)
  BY DEF Informed
<1>1. ASSUME NEW i \in Nat, i >= 3
      PROVE  /\ \A u \in s.tiles : <<u, 1>> \in know[hub][i]
             /\ <<hub, i>> \in know[hub][i] /\ <<hub, 3>> \in know[hub][i]
             /\ \A t \in s.tiles : t \notin nodes /\ t # hub => <<t, 2>> \notin know[hub][i]
  <2>1. know[hub][i] = Begun(s.tiles) \cup {<<m, 2>> : m \in nodes} \cup Since(hub, i)
    BY <1>1, HubKnowledge
  <2>2. i \in 2..i /\ 3 \in 2..i
    BY <1>1
  <2>3. hub \notin nodes
    BY <1>0 DEF TwoPhase
  <2> QED
    BY <2>1, <2>2, <2>3 DEF Begun, Since
<1>2. CASE r = hub
  <2>1. r \notin nodes
    BY <1>0, <1>2 DEF TwoPhase
  <2>2. FirstAnswer(nodes, r) = 4 /\ ClearAt(nodes, r) = 3 /\ k - 1 \in Nat /\ k - 1 >= 3 /\ k >= 3
    BY <2>1 DEF FirstAnswer, ClearAt
  <2> QED
    BY <1>1, <1>2, <2>2
<1>3. CASE r \in nodes
  <2>0. \A i \in Nat : i >= 3 => know[r][i] = know[hub][WriteAt(s, hub, r, 0)] \cup Since(r, i)
    BY <1>3, NodeIsTold
  <2> DEFINE w == WriteAt(s, hub, r, 0)
  <2>1. r # hub /\ up[r] = hub
    BY <1>0, <1>3, Family
  <2>2. w \in Nat /\ w >= 4
    BY <1>0, <2>1, PhaseWriters DEF FirstAnswer, TwoPhase
  <2>7. \A i \in Nat : i >= 3 => know[r][i] = know[hub][w] \cup Since(r, i)
    BY <2>0
  <2> HIDE DEF w
  <2>3. /\ FirstAnswer(nodes, r) = 5 /\ ClearAt(nodes, r) = 4
        /\ k - 1 \in Nat /\ k - 1 >= 3 /\ k >= 3
    BY <1>3 DEF FirstAnswer, ClearAt
  <2>4. know[r][k] = know[hub][w] \cup Since(r, k) /\ know[r][k - 1] = know[hub][w] \cup Since(r, k - 1)
    BY <2>3, <2>7
  <2>5. k \in 2..k /\ 4 \in 2..k
    BY <2>3
  <2>6. w >= 3
    BY <2>2
  <2> QED
    BY <1>1, <1>3, <2>1, <2>2, <2>3, <2>4, <2>5, <2>6 DEF Since
<1> QED
  BY <1>2, <1>3

\* An access is in order if it meets what Ordered asks of each.
InOrder(s, know, t, i) ==
  LET a == s.prog[t][i] IN
  /\ \A z \in know[t][i] : z[1] \in s.tiles /\ z[2] \in Accesses(s, z[1])
  /\ know[t][i] \subseteq know[t][i - 1] \cup {<<t, i>>} \cup Heard(s, know, t, i)
  /\ Resets(a, t, a.word) =>
       \A d \in Writers(s, t, a.word) : <<d, WriteAt(s, d, t, a.word)>> \in know[t][i - 1]
  /\ Writes(a, a.tile, a.word) =>
       \/ <<a.tile, 1>> \in know[t][i - 1]
       \/ <<a.tile, ResetAt(s, a.tile, a.word)>> \in know[t][Len(s.prog[t])]

\* What a tile hears that awaits the first word of its own.
LEMMA Hears ==
  ASSUME NEW s, NEW know, NEW t, NEW i, NEW v, NEW W, Writers(s, t, 0) = W,
         s.prog[t][i] = [op |-> "await", tile |-> t, word |-> 0, value |-> v],
         NEW E, E = {d \in W : <<t, i>> \notin know[d][WriteAt(s, d, t, 0) - 1]}, Cardinality(E) <= v
  PROVE  \A d \in E : know[d][WriteAt(s, d, t, 0)] \subseteq Heard(s, know, t, i)
<1>1. s.prog[t][i].op = "await" /\ s.prog[t][i].word = 0 /\ s.prog[t][i].value = v
  OBVIOUS
<1>2. Early(s, know, t, i) = E
  BY <1>1 DEF Early
<1>3. Heard(s, know, t, i) = UNION {know[d][WriteAt(s, d, t, 0)] : d \in E}
  BY <1>1, <1>2 DEF Heard
<1> QED
  BY <1>3

LEMMA HubHears ==
  ASSUME NEW s, NEW up, NEW nodes, NEW hub, NEW know, Informed(s, up, nodes, hub, know)
  PROVE  know[hub][2] \subseteq know[hub][1] \cup {<<hub, 2>>} \cup Heard(s, know, hub, 2)
<1> DEFINE K == Kids(s, up, hub)
<1>1. TwoPhase(s, up, nodes, hub)
  BY DEF Informed
<1>2. hub \in s.tiles /\ hub \notin nodes /\ nodes \subseteq s.tiles /\ HubProgram(s, hub, up)
  BY <1>1 DEF TwoPhase
<1>3. s.prog[hub][2] = [op |-> "await", tile |-> hub, word |-> 0, value |-> Cardinality(K)]
  BY <1>2 DEF HubProgram, OnFirstWord
<1>4. Writers(s, hub, 0) = K /\ \A d \in K : WriteAt(s, d, hub, 0) = AskAt(nodes, d)
  BY <1>1, <1>2, PhaseWriters
<1>5. IsFiniteSet(K) /\ \A d \in K : d \in s.tiles /\ d # hub
  BY <1>1, <1>2, Family
<1> HIDE DEF K
<1>6. \A d \in K : /\ d \in nodes => /\ AskAt(nodes, d) = 2 /\ <<hub, 2>> \notin know[d][1]
                                     /\ know[d][2] = Begun(Kids(s, up, d) \cup {d}) \cup {<<d, 2>>}
                   /\ d \notin nodes => /\ AskAt(nodes, d) = 1 /\ <<hub, 2>> \notin know[d][0]
                                        /\ know[d][1] = {<<d, 1>>}
  <2> SUFFICES ASSUME NEW d \in K
               PROVE  /\ d \in nodes => /\ AskAt(nodes, d) = 2 /\ <<hub, 2>> \notin know[d][1]
                                        /\ know[d][2] = Begun(Kids(s, up, d) \cup {d}) \cup {<<d, 2>>}
                      /\ d \notin nodes => /\ AskAt(nodes, d) = 1 /\ <<hub, 2>> \notin know[d][0]
                                           /\ know[d][1] = {<<d, 1>>}
    OBVIOUS
  <2>1. CASE d \in nodes
    <3>1. /\ know[d][1] = Begun(Kids(s, up, d) \cup {d})
          /\ know[d][2] = Begun(Kids(s, up, d) \cup {d}) \cup {<<d, 2>>}
      BY <2>1, NodeKnowledge
    <3>2. <<hub, 2>> \notin know[d][1]
      BY <3>1 DEF Begun
    <3> QED
      BY <2>1, <3>1, <3>2 DEF AskAt
  <2>2. CASE d \notin nodes
    <3>1. know[d][0] = {} /\ know[d][1] = {<<d, 1>>}
      BY <1>5, <2>2, LeafKnowledge
    <3> QED
      BY <2>2, <3>1 DEF AskAt
  <2> QED
    BY <2>1, <2>2
<1>7. K = {d \in K : <<hub, 2>> \notin know[d][WriteAt(s, d, hub, 0) - 1]}
  <2>1. ASSUME NEW d \in K
        PROVE  <<hub, 2>> \notin know[d][WriteAt(s, d, hub, 0) - 1]
    <3>1. WriteAt(s, d, hub, 0) = AskAt(nodes, d)
      BY <1>4
    <3>2. CASE d \in nodes
      <4>1. AskAt(nodes, d) - 1 = 1
        BY <3>2 DEF AskAt
      <4> QED
        BY <1>6, <3>1, <3>2, <4>1
    <3>3. CASE d \notin nodes
      <4>1. AskAt(nodes, d) - 1 = 0
        BY <3>3 DEF AskAt
      <4> QED
        BY <1>6, <3>1, <3>3, <4>1
    <3> QED
      BY <3>2, <3>3
  <2> QED
    BY <2>1
<1>8. Cardinality(K) <= Cardinality(K)
  <2>1. Cardinality(K) \in Nat
    BY <1>5, FS_CardinalityType
  <2> QED
    BY <2>1
<1>9. \A d \in K : know[d][AskAt(nodes, d)] \subseteq Heard(s, know, hub, 2)
  BY <1>3, <1>4, <1>7, <1>8, Hears
<1>10. ASSUME NEW m \in nodes
       PROVE  /\ <<m, 2>> \in Heard(s, know, hub, 2) /\ <<m, 1>> \in Heard(s, know, hub, 2)
              /\ \A o \in Kids(s, up, m) : <<o, 1>> \in Heard(s, know, hub, 2)
  <2>1. m \in K
    BY <1>1, <1>2, Family DEF K
  <2>2. know[m][2] \subseteq Heard(s, know, hub, 2)
    BY <1>6, <1>9, <2>1
  <2>3. know[m][2] = Begun(Kids(s, up, m) \cup {m}) \cup {<<m, 2>>}
    BY <1>6, <2>1
  <2> QED
    BY <2>2, <2>3 DEF Begun
<1>11. ASSUME NEW u \in s.tiles
       PROVE  <<u, 1>> \in know[hub][1] \cup Heard(s, know, hub, 2)
  <2>1. CASE u = hub
    BY <2>1, HubKnowledge
  <2>2. CASE u \in nodes
    BY <1>10, <2>2
  <2>3. CASE u # hub /\ u \notin nodes /\ up[u] \in nodes
    <3>1. u \in Kids(s, up, up[u])
      BY <1>1, <2>3, Family
    <3> QED
      BY <1>10, <2>3, <3>1
  <2>4. CASE u # hub /\ u \notin nodes /\ up[u] = hub
    <3>1. u \in K
      BY <1>1, <2>4, Family DEF K
    <3>2. AskAt(nodes, u) = 1 /\ know[u][1] = {<<u, 1>>}
      BY <1>6, <2>4, <3>1
    <3>3. know[u][AskAt(nodes, u)] \subseteq Heard(s, know, hub, 2)
      BY <1>9, <3>1
    <3>4. <<u, 1>> \in know[u][AskAt(nodes, u)]
      BY <3>2
    <3> QED
      BY <3>3, <3>4
  <2> QED
    BY <1>1, <2>1, <2>2, <2>3, <2>4, Family
<1>12. know[hub][2] = Begun(s.tiles) \cup {<<m, 2>> : m \in nodes} \cup {<<hub, 2>>}
  <2>1. know[hub][2] = Begun(s.tiles) \cup {<<m, 2>> : m \in nodes} \cup Since(hub, 2)
    BY HubKnowledge
  <2>2. 2..2 = {2}
    OBVIOUS
  <2> QED
    BY <2>1, <2>2 DEF Since
<1> QED
  BY <1>10, <1>11, <1>12 DEF Begun

LEMMA HubOrdered ==
  ASSUME NEW s, NEW up, NEW nodes, NEW hub, NEW know, Informed(s, up, nodes, hub, know),
         NEW i \in Accesses(s, hub)
  PROVE  InOrder(s, know, hub, i)
<1> DEFINE a == s.prog[hub][i]
<1>1. TwoPhase(s, up, nodes, hub)
  BY DEF Informed
<1>2. hub \in s.tiles /\ hub \notin nodes /\ nodes \subseteq s.tiles
  BY <1>1 DEF TwoPhase
<1>3. i \in Nat /\ i >= 1
  BY <1>1, <1>2, PhaseActs
<1>4. ClearAt(nodes, hub) = 3 /\ FirstAnswer(nodes, hub) = 4
  BY <1>2 DEF ClearAt, FirstAnswer
<1>5. \A z \in know[hub][i] : z[1] \in s.tiles /\ z[2] \in Accesses(s, z[1])
  BY HubTells
<1>6. know[hub][i] \subseteq know[hub][i - 1] \cup {<<hub, i>>} \cup Heard(s, know, hub, i)
  <2>1. CASE i = 1
    BY <2>1, HubKnowledge
  <2>2. CASE i = 2
    <3>1. i - 1 = 1
      BY <2>2
    <3> QED
      BY <2>2, <3>1, HubHears
  <2>3. CASE i >= 3
    <3>1. i - 1 \in Nat /\ i - 1 >= 2 /\ i >= 2 /\ 2..i = (2..(i - 1)) \cup {i}
      BY <1>3, <2>3
    <3>2. know[hub][i] = Begun(s.tiles) \cup {<<m, 2>> : m \in nodes} \cup Since(hub, i)
      BY <1>3, <3>1, HubKnowledge
    <3>3. know[hub][i - 1] = Begun(s.tiles) \cup {<<m, 2>> : m \in nodes} \cup Since(hub, i - 1)
      BY <3>1, HubKnowledge
    <3>4. Since(hub, i) = Since(hub, i - 1) \cup {<<hub, i>>}
      BY <3>1 DEF Since
    <3> QED
      BY <3>2, <3>3, <3>4
  <2> QED
    BY <1>3, <2>1, <2>2, <2>3
<1>7. ASSUME Resets(a, hub, a.word), NEW d \in Writers(s, hub, a.word)
      PROVE  <<d, WriteAt(s, d, hub, a.word)>> \in know[hub][i - 1]
  <2>1. i = 3 /\ a.word = 0
    BY <1>1, <1>2, <1>4, <1>7, PhaseActs DEF Resets, IsAdd, IsAwait, IsReset
  <2>2. d \in Kids(s, up, hub) /\ WriteAt(s, d, hub, 0) = AskAt(nodes, d)
    BY <1>1, <1>2, <1>7, <2>1, PhaseWriters
  <2>3. d \in s.tiles
    BY <1>1, <1>2, <2>2, Family
  <2>4. know[hub][2] = Begun(s.tiles) \cup {<<m, 2>> : m \in nodes} \cup Since(hub, 2)
    BY HubKnowledge
  <2>5. <<d, AskAt(nodes, d)>> \in know[hub][2]
    BY <2>3, <2>4 DEF AskAt, Begun
  <2>6. i - 1 = 2
    BY <2>1
  <2> QED
    BY <2>1, <2>2, <2>5, <2>6
<1>8. ASSUME Writes(a, a.tile, a.word)
      PROVE  <<a.tile, 1>> \in know[hub][i - 1]
  <2>1. a.tile \in Kids(s, up, hub) /\ i >= FirstAnswer(nodes, hub)
    BY <1>1, <1>2, <1>8, PhaseActs DEF Writes, IsAdd, IsAwait, IsReset
  <2>2. a.tile \in s.tiles
    BY <1>1, <1>2, <2>1, Family
  <2> HIDE DEF a
  <2> QED
    BY <1>2, <1>3, <2>1, <2>2, Answering
<1> QED
  BY <1>5, <1>6, <1>7, <1>8 DEF InOrder

LEMMA NodeHears ==
  ASSUME NEW s, NEW up, NEW nodes, NEW hub, NEW know, Informed(s, up, nodes, hub, know),
         NEW t \in nodes
  PROVE  /\ know[t][1] \subseteq {<<t, 1>>} \cup Heard(s, know, t, 1)
         /\ know[hub][WriteAt(s, hub, t, 0)] \subseteq Heard(s, know, t, 3)
<1> DEFINE K == Kids(s, up, t)
           w == WriteAt(s, hub, t, 0)
<1>1. TwoPhase(s, up, nodes, hub)
  BY DEF Informed
<1>2. t \in s.tiles /\ hub \in s.tiles /\ hub # t /\ up[t] = hub /\ NodeProgram(s, t, up)
  BY <1>1 DEF TwoPhase
<1>3. /\ s.prog[t][1] = [op |-> "await", tile |-> t, word |-> 0, value |-> Cardinality(K)]
      /\ s.prog[t][3] = [op |-> "await", tile |-> t, word |-> 0, value |-> Cardinality(K) + 1]
  BY <1>2 DEF NodeProgram, OnFirstWord
<1>4. /\ Writers(s, t, 0) = K \cup {hub} /\ \A d \in K : WriteAt(s, d, t, 0) = AskAt(nodes, d)
      /\ w \in Nat /\ w >= FirstAnswer(nodes, hub)
  BY <1>1, <1>2, PhaseWriters
<1>5. /\ IsFiniteSet(K) /\ hub \notin K
      /\ \A d \in K : d \in s.tiles /\ d # hub /\ d \notin nodes /\ d # t
  BY <1>1, <1>2, Family
<1> HIDE DEF K, w
<1>6. \A d \in K : WriteAt(s, d, t, 0) = 1 /\ know[d][0] = {} /\ know[d][1] = {<<d, 1>>}
  BY <1>4, <1>5, LeafKnowledge DEF AskAt
<1>7. <<t, 1>> \in know[hub][w - 1] /\ <<t, 3>> \notin know[hub][w - 1]
  <2>1. \A u \in s.tiles : <<u, 1>> \in know[hub][w - 1]
    BY <1>2, <1>4, Answering
  <2>2. <<t, 3>> \notin know[hub][w - 1]
    <3>1. w - 1 \in Nat /\ w - 1 >= 2
      BY <1>2, <1>4 DEF FirstAnswer
    <3> QED
      BY <3>1, NodesWait
  <2> QED
    BY <1>2, <2>1, <2>2
<1>8. Cardinality(K) \in Nat
  BY <1>5, FS_CardinalityType
<1>9. \A d \in K : know[d][1] \subseteq Heard(s, know, t, 1)
  <2>1. K = {d \in K \cup {hub} : <<t, 1>> \notin know[d][WriteAt(s, d, t, 0) - 1]}
    <3>1. \A d \in K : <<t, 1>> \notin know[d][WriteAt(s, d, t, 0) - 1]
      <4>1. \A d \in K : WriteAt(s, d, t, 0) - 1 = 0
        BY <1>6
      <4> QED
        BY <1>6, <4>1
    <3> QED
      BY <1>7, <3>1 DEF w
  <2>2. Cardinality(K) <= Cardinality(K)
    BY <1>8
  <2>3. \A d \in K : know[d][WriteAt(s, d, t, 0)] \subseteq Heard(s, know, t, 1)
    BY <1>3, <1>4, <2>1, <2>2, Hears
  <2> QED
    BY <1>6, <2>3
<1>10. know[hub][w] \subseteq Heard(s, know, t, 3)
  <2> DEFINE E == {d \in K \cup {hub} : <<t, 3>> \notin know[d][WriteAt(s, d, t, 0) - 1]}
  <2>1. hub \in E
    BY <1>7 DEF w
  <2>2. Cardinality(E) <= Cardinality(K) + 1
    <3>1. IsFiniteSet(K \cup {hub}) /\ Cardinality(K \cup {hub}) = Cardinality(K) + 1
      BY <1>5, FS_AddElement
    <3>2. E \subseteq K \cup {hub}
      OBVIOUS
    <3> HIDE DEF E
    <3>3. Cardinality(E) <= Cardinality(K \cup {hub})
      BY <3>1, <3>2, FS_Subset
    <3> QED
      BY <3>1, <3>3
  <2>3. E = {d \in K \cup {hub} : <<t, 3>> \notin know[d][WriteAt(s, d, t, 0) - 1]}
    OBVIOUS
  <2> HIDE DEF E
  <2>4. \A d \in E : know[d][WriteAt(s, d, t, 0)] \subseteq Heard(s, know, t, 3)
    BY <1>3, <1>4, <2>2, <2>3, Hears
  <2> QED
    BY <2>1, <2>4 DEF w
<1>11. know[t][1] = Begun(K \cup {t})
  BY NodeKnowledge DEF K
<1> QED
  BY <1>6, <1>9, <1>10, <1>11 DEF Begun, w

LEMMA NodeOrdered ==
  ASSUME NEW s, NEW up, NEW nodes, NEW hub, NEW know, Informed(s, up, nodes, hub, know),
         NEW t \in nodes, NEW i \in Accesses(s, t)
  PROVE  InOrder(s, know, t, i)
<1> DEFINE a == s.prog[t][i]
           w == WriteAt(s, hub, t, 0)
<1>1. TwoPhase(s, up, nodes, hub)
  BY DEF Informed
<1>2. t \in s.tiles /\ hub \in s.tiles /\ hub # t /\ hub \notin nodes /\ up[t] = hub
  BY <1>1 DEF TwoPhase
<1>3. /\ i \in Nat /\ i >= 1 /\ AskAt(nodes, t) = 2 /\ ClearAt(nodes, t) = 4
      /\ FirstAnswer(nodes, t) = 5 /\ ClearAt(nodes, hub) = 3 /\ FirstAnswer(nodes, hub) = 4
  BY <1>1, <1>2, PhaseActs DEF AskAt, ClearAt, FirstAnswer
<1>4. w \in Accesses(s, hub) /\ w \in Nat /\ w >= FirstAnswer(nodes, hub)
  BY <1>1, <1>2, PhaseWriters
<1> HIDE DEF w
<1>5. /\ <<hub, w>> \in know[hub][w] /\ <<hub, 3>> \in know[hub][w]
      /\ \A u \in s.tiles : <<u, 1>> \in know[hub][w]
  BY <1>2, <1>3, <1>4, Answering
<1>6. ASSUME NEW j \in Nat, j >= 3
      PROVE  know[t][j] = know[hub][w] \cup Since(t, j)
  BY <1>6, NodeIsTold DEF w
<1>7. /\ know[t][1] = Begun(Kids(s, up, t) \cup {t})
      /\ know[t][2] = Begun(Kids(s, up, t) \cup {t}) \cup {<<t, 2>>}
  BY NodeKnowledge
<1>8. ASSUME NEW z \in know[t][i]
      PROVE  z[1] \in s.tiles /\ z[2] \in Accesses(s, z[1])
  <2>1. \A o \in Kids(s, up, t) : o \in s.tiles
    BY <1>1, <1>2, Family
  <2>2. CASE z \in Begun(Kids(s, up, t) \cup {t})
    BY <1>1, <1>2, <2>1, <2>2, Started DEF Begun
  <2>3. CASE z = <<t, 2>>
    BY <1>1, <1>2, <2>3, Started
  <2>4. CASE z \in know[hub][w]
    BY <1>4, <2>4, HubTells
  <2>5. CASE z \in Since(t, i)
    BY <1>1, <1>2, <2>5, Started DEF Since
  <2>6. i = 1 \/ i = 2 \/ i >= 3
    BY <1>3
  <2> QED
    BY <1>3, <1>6, <1>7, <1>8, <2>2, <2>3, <2>4, <2>5, <2>6
<1>9. know[t][i] \subseteq know[t][i - 1] \cup {<<t, i>>} \cup Heard(s, know, t, i)
  <2>1. CASE i = 1
    BY <2>1, NodeHears
  <2>2. CASE i = 2
    <3>1. i - 1 = 1
      BY <2>2
    <3> QED
      BY <1>7, <2>2, <3>1
  <2>3. CASE i = 3
    <3>1. know[t][3] = know[hub][w] \cup Since(t, 3) /\ i - 1 = 2
      BY <1>6, <2>3
    <3>2. Since(t, 3) = {<<t, 2>>, <<t, 3>>}
      <4>1. 2..3 = {2, 3}
        OBVIOUS
      <4> QED
        BY <4>1 DEF Since
    <3>3. know[hub][w] \subseteq Heard(s, know, t, 3)
      BY NodeHears DEF w
    <3> QED
      BY <1>7, <2>3, <3>1, <3>2, <3>3
  <2>4. CASE i >= 4
    <3>1. i - 1 \in Nat /\ i - 1 >= 3 /\ i >= 3 /\ 2..i = (2..(i - 1)) \cup {i}
      BY <1>3, <2>4
    <3>2. know[t][i] = know[hub][w] \cup Since(t, i) /\ know[t][i - 1] = know[hub][w] \cup Since(t, i - 1)
      BY <1>3, <1>6, <3>1
    <3>3. Since(t, i) = Since(t, i - 1) \cup {<<t, i>>}
      BY <3>1 DEF Since
    <3> QED
      BY <3>2, <3>3
  <2> QED
    BY <1>3, <2>1, <2>2, <2>3, <2>4
<1>10. ASSUME Resets(a, t, a.word), NEW d \in Writers(s, t, a.word)
       PROVE  <<d, WriteAt(s, d, t, a.word)>> \in know[t][i - 1]
  <2>1. i = 4 /\ a.word = 0
    BY <1>1, <1>2, <1>3, <1>10, PhaseActs DEF Resets, IsAdd, IsAwait, IsReset
  <2>2. i - 1 = 3 /\ know[t][3] = know[hub][w] \cup Since(t, 3)
    BY <1>6, <2>1
  <2>3. /\ Writers(s, t, 0) = Kids(s, up, t) \cup {hub}
        /\ \A o \in Kids(s, up, t) : WriteAt(s, o, t, 0) = AskAt(nodes, o)
    BY <1>1, <1>2, PhaseWriters
  <2>4. CASE d = hub
    BY <1>5, <2>1, <2>2, <2>4 DEF w
  <2>5. CASE d \in Kids(s, up, t)
    <3>1. d \in s.tiles /\ d \notin nodes
      BY <1>1, <1>2, <2>5, Family
    <3>2. WriteAt(s, d, t, 0) = 1
      BY <2>3, <2>5, <3>1 DEF AskAt
    <3> QED
      BY <1>5, <2>1, <2>2, <3>1, <3>2
  <2> QED
    BY <1>10, <2>1, <2>3, <2>4, <2>5
<1>11. ASSUME Writes(a, a.tile, a.word)
       PROVE  \/ <<a.tile, 1>> \in know[t][i - 1]
              \/ <<a.tile, ResetAt(s, a.tile, a.word)>> \in know[t][Len(s.prog[t])]
  <2>1. \/ a.tile = hub /\ a.word = 0
        \/ a.tile \in Kids(s, up, t) /\ i >= FirstAnswer(nodes, t)
    BY <1>1, <1>2, <1>11, PhaseActs DEF Writes, IsAdd, IsAwait, IsReset
  <2>2. CASE a.tile = hub /\ a.word = 0
    <3>1. ResetAt(s, hub, 0) = 3
      BY <1>1, <1>2, <1>3, PhaseResets
    <3>2. Len(s.prog[t]) \in Nat /\ Len(s.prog[t]) >= 3
      <4>1. Len(s.prog[t]) \in Nat /\ 4 <= Len(s.prog[t])
        BY <1>1, <1>2, <1>3, Lengths
      <4> QED
        BY <4>1
    <3>3. know[t][Len(s.prog[t])] = know[hub][w] \cup Since(t, Len(s.prog[t]))
      BY <1>6, <3>2
    <3> QED
      BY <1>5, <2>2, <3>1, <3>3
  <2>3. CASE a.tile \in Kids(s, up, t) /\ i >= FirstAnswer(nodes, t)
    <3>1. a.tile \in s.tiles
      BY <1>1, <1>2, <2>3, Family
    <3> HIDE DEF a
    <3>2. \A u \in s.tiles : <<u, 1>> \in know[t][i - 1]
      BY <1>2, <1>3, <2>3, Answering
    <3> QED
      BY <3>1, <3>2
  <2> QED
    BY <2>1, <2>2, <2>3
<1> QED
  BY <1>8, <1>9, <1>10, <1>11 DEF InOrder

LEMMA LeafOrdered ==
  ASSUME NEW s, NEW up, NEW nodes, NEW hub, NEW know, Informed(s, up, nodes, hub, know),
         NEW t \in s.tiles, t \notin nodes, t # hub, NEW i \in Accesses(s, t)
  PROVE  InOrder(s, know, t, i)
<1> DEFINE a == s.prog[t][i]
           r == up[t]
           k == WriteAt(s, r, t, 0)
<1>1. TwoPhase(s, up, nodes, hub)
  BY DEF Informed
<1>2. i \in {1, 2, 3} /\ Len(s.prog[t]) = 3
  <2>1. Accesses(s, t) = {1, 2, 3} /\ Len(s.prog[t]) = 3
    BY <1>1, Lengths
  <2> QED
    BY <2>1
<1>3. r \in s.tiles /\ (r \in nodes \/ r = hub)
  BY <1>1, Family
<1>4. /\ Writers(s, t, 0) = {r}
      /\ k \in Accesses(s, r) /\ k \in Nat /\ k >= FirstAnswer(nodes, r)
  <2>1. Kids(s, up, t) = {}
    BY <1>1, Family
  <2> QED
    BY <1>1, <2>1, PhaseWriters
<1>5. /\ know[t][0] = {} /\ know[t][1] = {<<t, 1>>}
      /\ know[t][2] = know[r][k] /\ know[t][3] = know[r][k]
  BY LeafKnowledge
<1>6. AskAt(nodes, t) = 1 /\ ClearAt(nodes, t) = 3 /\ LeafProgram(s, t, up)
  BY <1>1 DEF AskAt, ClearAt, TwoPhase
<1>7. ResetAt(s, r, 0) = ClearAt(nodes, r)
  BY <1>1, <1>3, PhaseResets
<1>8. Kids(s, up, t) = {}
  BY <1>1, Family
<1> HIDE DEF r, k
<1>9. /\ <<r, k>> \in know[r][k] /\ <<r, ClearAt(nodes, r)>> \in know[r][k]
      /\ <<t, 2>> \notin know[r][k - 1]
  BY <1>3, <1>4, Answering
<1>10. \A z \in know[r][k] : z[1] \in s.tiles /\ z[2] \in Accesses(s, z[1])
  BY <1>3, <1>4, HubOrdered, NodeOrdered DEF InOrder
<1>11. ASSUME NEW z \in know[t][i]
       PROVE  z[1] \in s.tiles /\ z[2] \in Accesses(s, z[1])
  <2>1. 1 \in Accesses(s, t)
    BY <1>1, Started
  <2> QED
    BY <1>2, <1>5, <1>10, <1>11, <2>1
<1>12. know[t][i] \subseteq know[t][i - 1] \cup {<<t, i>>} \cup Heard(s, know, t, i)
  <2>1. CASE i = 1
    BY <1>5, <2>1
  <2>2. CASE i = 2
    <3>1. s.prog[t][2] = [op |-> "await", tile |-> t, word |-> 0, value |-> 1]
      BY <1>6 DEF LeafProgram, OnFirstWord
    <3>2. {r} = {d \in {r} : <<t, 2>> \notin know[d][WriteAt(s, d, t, 0) - 1]}
      BY <1>9 DEF k
    <3>3. Cardinality({r}) <= 1
      <4>1. Cardinality({r}) = 1
        BY FS_Singleton
      <4> QED
        BY <4>1
    <3>4. know[r][k] \subseteq Heard(s, know, t, 2)
      BY <1>4, <3>1, <3>2, <3>3, Hears DEF k
    <3> QED
      BY <1>5, <2>2, <3>4
  <2>3. CASE i = 3
    <3>1. i - 1 = 2
      BY <2>3
    <3> QED
      BY <1>5, <2>3, <3>1
  <2> QED
    BY <1>2, <2>1, <2>2, <2>3
<1>13. ASSUME Resets(a, t, a.word), NEW d \in Writers(s, t, a.word)
       PROVE  <<d, WriteAt(s, d, t, a.word)>> \in know[t][i - 1]
  <2>1. i = 3 /\ a.word = 0
    BY <1>1, <1>6, <1>13, PhaseActs DEF Resets, IsAdd, IsAwait, IsReset
  <2>2. d = r /\ i - 1 = 2
    BY <1>4, <1>13, <2>1
  <2> QED
    BY <1>5, <1>9, <2>1, <2>2 DEF k
<1>14. ASSUME Writes(a, a.tile, a.word)
       PROVE  <<a.tile, ResetAt(s, a.tile, a.word)>> \in know[t][Len(s.prog[t])]
  <2>1. a.tile = r /\ a.word = 0
    BY <1>1, <1>8, <1>14, PhaseActs DEF Writes, IsAdd, IsAwait, IsReset, r
  <2> QED
    BY <1>2, <1>5, <1>7, <1>9, <2>1
<1> QED
  BY <1>11, <1>12, <1>13, <1>14 DEF InOrder

\* Barriers of two phases are orderly, whatever the nodes and who asks whom.
LEMMA TwoPhaseIsOrderly ==
  ASSUME NEW s, NEW up, NEW nodes, NEW hub, TwoPhase(s, up, nodes, hub)
  PROVE  Orderly(s)
<1> DEFINE know == PhaseKnow(s, up, nodes, hub)
<1>1. Informed(s, up, nodes, hub, know)
  BY DEF Informed
<1>2. hub \in s.tiles /\ hub \notin nodes /\ nodes \subseteq s.tiles
  BY DEF TwoPhase
<1> HIDE DEF know
<1>3. ASSUME NEW r \in s.tiles, r \in nodes \/ r = hub, NEW k \in Nat, k >= 3, NEW u \in s.tiles
      PROVE  <<u, 1>> \in know[r][k]
  <2>1. ASSUME NEW i \in Nat, i >= 2
        PROVE  <<u, 1>> \in know[hub][i]
    <3>1. know[hub][i] = Begun(s.tiles) \cup {<<m, 2>> : m \in nodes} \cup Since(hub, i)
      BY <1>1, <2>1, HubKnowledge
    <3> QED
      BY <3>1 DEF Begun
  <2>2. CASE r = hub
    <3>1. k >= 2
      BY <1>3
    <3> QED
      BY <2>1, <2>2, <3>1
  <2>3. CASE r \in nodes
    <3> DEFINE w == WriteAt(s, hub, r, 0)
    <3>1. w \in Nat /\ w >= 2
      <4>1. r # hub /\ up[r] = hub
        BY <1>2, <2>3 DEF TwoPhase
      <4>2. w \in Nat /\ w >= FirstAnswer(nodes, hub)
        BY <1>3, <4>1, PhaseWriters
      <4> HIDE DEF w
      <4> QED
        BY <1>2, <4>2 DEF FirstAnswer
    <3>2. know[r][k] = know[hub][w] \cup Since(r, k)
      BY <1>1, <1>3, <2>3, NodeIsTold
    <3> HIDE DEF w
    <3> QED
      BY <2>1, <3>1, <3>2
  <2> QED
    BY <1>3, <2>2, <2>3
<1>4. ASSUME NEW t \in s.tiles, NEW u \in s.tiles
      PROVE  <<u, 1>> \in know[t][Len(s.prog[t])]
  <2>1. Len(s.prog[t]) \in Nat /\ Len(s.prog[t]) >= 3
    <3>1. Len(s.prog[t]) \in Nat /\ ClearAt(nodes, t) <= Len(s.prog[t])
      BY Lengths
    <3> QED
      BY <3>1 DEF ClearAt
  <2>2. CASE t \in nodes \/ t = hub
    BY <1>3, <2>1, <2>2
  <2>3. CASE ~(t \in nodes \/ t = hub)
    <3> DEFINE r == up[t]
               k == WriteAt(s, r, t, 0)
    <3>1. r \in s.tiles /\ (r \in nodes \/ r = hub)
      BY <2>3, Family
    <3>2. k \in Nat /\ k >= FirstAnswer(nodes, r)
      BY <2>3, PhaseWriters
    <3>3. k >= 3
      <4> HIDE DEF k
      <4> QED
        BY <3>2 DEF FirstAnswer
    <3>4. know[t][3] = know[r][k] /\ Len(s.prog[t]) = 3
      BY <1>1, <2>3, LeafKnowledge, Lengths
    <3> HIDE DEF r, k
    <3> QED
      BY <1>3, <3>1, <3>2, <3>3, <3>4
  <2> QED
    BY <2>2, <2>3
<1>5. \A t \in s.tiles : \A i \in Accesses(s, t) : InOrder(s, know, t, i)
  BY <1>1, <1>2, HubOrdered, NodeOrdered, LeafOrdered
<1>6. \A t \in s.tiles : know[t][0] = {}
  <2> SUFFICES ASSUME NEW t \in s.tiles
               PROVE  know[t][0] = {}
    OBVIOUS
  <2>1. CASE t = hub
    BY <1>1, <2>1, HubKnowledge
  <2>2. CASE t \in nodes
    BY <1>1, <2>2, NodeKnowledge
  <2>3. CASE t # hub /\ t \notin nodes
    BY <1>1, <2>3, LeafKnowledge
  <2> QED
    BY <2>1, <2>2, <2>3
<1>7. Ordered(s, know)
  <2>1. ASSUME NEW t \in s.tiles, NEW i \in Accesses(s, t)
        PROVE  LET a == s.prog[t][i] IN
               /\ \A z \in know[t][i] : z[1] \in s.tiles /\ z[2] \in Accesses(s, z[1])
               /\ know[t][i] \subseteq know[t][i - 1] \cup {<<t, i>>} \cup Heard(s, know, t, i)
               /\ Resets(a, t, a.word) =>
                    \A d \in Writers(s, t, a.word) :
                      <<d, WriteAt(s, d, t, a.word)>> \in know[t][i - 1]
               /\ Writes(a, a.tile, a.word) =>
                    \/ <<a.tile, 1>> \in know[t][i - 1]
                    \/ <<a.tile, ResetAt(s, a.tile, a.word)>> \in know[t][Len(s.prog[t])]
    BY <1>5, Zenon DEF InOrder
  <2> QED
    BY <1>4, <1>6, <2>1, Zenon DEF Ordered
<1>8. Handshakes(s)
  BY TwoPhaseHandshakes
<1> QED
  BY <1>7, <1>8 DEF Orderly

-----------------------------------------------------------------------------
(* The test of two phases, on a mesh of any size.                          *)

\* The tiles of a list are answered in turn.
LEMMA ListIsAnswered ==
  ASSUME NEW s, NEW t, NEW k \in Nat, NEW T, NEW src \in Seq(T), NEW S, Lists(src, S),
         Len(s.prog[t]) = k + Len(src),
         \A i \in 1..Len(src) : s.prog[t][k + i] = OnFirstWord("add", src[i], 1)
  PROVE  AnswersFrom(s, t, k + 1, S)
<1> DEFINE p == s.prog[t]
           m == Len(src)
<1>1. m \in Nat /\ DOMAIN src = 1..m /\ Len(p) = k + m
  BY LenProperties
<1>2. \A i \in 1..m : p[k + i] = OnFirstWord("add", src[i], 1) /\ p[k + i].tile = src[i]
  BY DEF OnFirstWord
<1> HIDE DEF p, m
<1>3. ASSUME NEW i \in (k + 1)..Len(p)
      PROVE  i - k \in 1..m /\ p[i] = OnFirstWord("add", src[i - k], 1) /\ p[i].tile = src[i - k]
  <2>1. i - k \in 1..m /\ k + (i - k) = i
    BY <1>1
  <2> QED
    BY <1>2, <2>1
<1>4. ASSUME NEW i \in 1..m
      PROVE  k + i \in (k + 1)..Len(p)
  BY <1>1
<1>5. \A i \in (k + 1)..Len(p) : p[i].tile \in S /\ p[i] = OnFirstWord("add", p[i].tile, 1)
  BY <1>1, <1>3 DEF Lists
<1>6. \A o \in S : \E i \in (k + 1)..Len(p) : p[i].tile = o
  BY <1>1, <1>2, <1>4 DEF Lists
<1>7. ASSUME NEW i \in (k + 1)..Len(p), NEW j \in (k + 1)..Len(p), p[i].tile = p[j].tile
      PROVE  i = j
  <2>1. i - k \in 1..m /\ j - k \in 1..m /\ src[i - k] = src[j - k]
    BY <1>3, <1>7
  <2>2. i - k = j - k
    BY <1>1, <2>1 DEF Lists
  <2>3. i \in Nat /\ j \in Nat
    BY <1>1
  <2> QED
    BY <2>2, <2>3
<1> QED
  BY <1>5, <1>6, <1>7 DEF AnswersFrom, p

LEMMA ListsTogether ==
  ASSUME NEW T, NEW a \in Seq(T), NEW A, Lists(a, A), NEW b \in Seq(T), NEW B, Lists(b, B),
         A \cap B = {}
  PROVE  /\ a \o b \in Seq(T) /\ Len(a \o b) = Len(a) + Len(b) /\ Lists(a \o b, A \cup B)
         /\ \A i \in 1..Len(a) : (a \o b)[i] = a[i]
         /\ \A i \in 1..Len(b) : (a \o b)[Len(a) + i] = b[i]
<1> DEFINE k == Len(a)
           m == Len(b)
           c == a \o b
<1>1. k \in Nat /\ m \in Nat /\ DOMAIN a = 1..k /\ DOMAIN b = 1..m
  BY LenProperties
<1>2. c \in Seq(T) /\ Len(c) = k + m
  BY ConcatProperties
<1>3. \A i \in 1..(k + m) : c[i] = IF i <= k THEN a[i] ELSE b[i - k]
  BY ConcatProperties
<1>4. DOMAIN c = 1..(k + m)
  BY <1>2, LenProperties
<1> HIDE DEF k, m, c
<1>5. \A i \in 1..k : i \in 1..(k + m) /\ c[i] = a[i]
  BY <1>1, <1>3
<1>6. ASSUME NEW i \in 1..m
      PROVE  k + i \in 1..(k + m) /\ c[k + i] = b[i]
  <2>1. k + i \in 1..(k + m) /\ ~(k + i <= k) /\ (k + i) - k = i
    BY <1>1
  <2> QED
    BY <1>3, <2>1
<1>7. ASSUME NEW i \in 1..(k + m)
      PROVE  \/ i \in 1..k /\ c[i] = a[i] /\ c[i] \in A
             \/ i - k \in 1..m /\ c[i] = b[i - k] /\ c[i] \in B
  <2>1. i \in 1..k \/ (~(i <= k) /\ i - k \in 1..m)
    BY <1>1
  <2> QED
    BY <1>1, <1>3, <1>5, <2>1 DEF Lists
<1>8. ASSUME NEW o \in A \cup B
      PROVE  \E i \in 1..(k + m) : c[i] = o
  <2>1. CASE o \in A
    <3>1. PICK i \in 1..k : a[i] = o
      BY <1>1, <2>1 DEF Lists
    <3> QED
      BY <1>5, <3>1
  <2>2. CASE o \in B
    <3>1. PICK i \in 1..m : b[i] = o
      BY <1>1, <2>2 DEF Lists
    <3> QED
      BY <1>6, <3>1
  <2> QED
    BY <2>1, <2>2
<1>9. ASSUME NEW i \in 1..(k + m), NEW j \in 1..(k + m), c[i] = c[j]
      PROVE  i = j
  <2>1. CASE c[i] \in A
    <3>1. i \in 1..k /\ j \in 1..k /\ a[i] = a[j]
      BY <1>7, <1>9, <2>1
    <3> QED
      BY <1>1, <3>1 DEF Lists
  <2>2. CASE c[i] \in B
    <3>1. i - k \in 1..m /\ j - k \in 1..m /\ b[i - k] = b[j - k]
      BY <1>7, <1>9, <2>2
    <3>2. i - k = j - k
      BY <1>1, <3>1 DEF Lists
    <3> QED
      BY <1>1, <3>2
  <2> QED
    BY <1>7, <2>1, <2>2
<1>10. Lists(c, A \cup B)
  BY <1>4, <1>7, <1>8, <1>9 DEF Lists
<1> QED
  BY <1>2, <1>5, <1>6, <1>10 DEF k, m, c

\* XY: the tiles of a row ask its tile in the centre column, those of the
\* column ask the one in its middle.
XYUp(n) ==
  [t \in AllOf(n) |-> IF GET_X_ID(n, t) = Centre(n) THEN SyncNode(n)
                      ELSE GET_ID(n, GET_Y_ID(n, t), Centre(n))]

XYNodes(n) == {t \in AllOf(n) : GET_X_ID(n, t) = Centre(n) /\ GET_Y_ID(n, t) # Centre(n)}

OthersOfRow(n, t)    == {o \in AllOf(n) : GET_Y_ID(n, o) = GET_Y_ID(n, t) /\ o # t}
OthersOfColumn(n, t) == {o \in AllOf(n) : GET_X_ID(n, o) = GET_X_ID(n, t) /\ o # t}

LEMMA XYFamily ==
  ASSUME NEW n \in Nat \ {0}, NEW t \in AllOf(n)
  PROVE  /\ XYUp(n)[t] \in AllOf(n)
         /\ GET_X_ID(n, XYUp(n)[t]) = Centre(n)
         /\ GET_X_ID(n, SyncNode(n)) = Centre(n) /\ GET_Y_ID(n, SyncNode(n)) = Centre(n)
         /\ GET_X_ID(n, t) = Centre(n) =>
              /\ XYUp(n)[t] = SyncNode(n)
              /\ GET_Y_ID(n, t) = Centre(n) <=> t = SyncNode(n)
         /\ GET_X_ID(n, t) # Centre(n) =>
              /\ XYUp(n)[t] = GET_ID(n, GET_Y_ID(n, t), Centre(n))
              /\ GET_Y_ID(n, XYUp(n)[t]) = GET_Y_ID(n, t)
<1> DEFINE c == Centre(n)
           y == GET_Y_ID(n, t)
           x == GET_X_ID(n, t)
<1>1. c \in 0..(n - 1) /\ SyncNode(n) \in AllOf(n)
  BY CentreInRange
<1>2. y \in 0..(n - 1) /\ x \in 0..(n - 1) /\ t = GET_ID(n, y, x)
  BY Coordinates
<1>3. GET_X_ID(n, SyncNode(n)) = c /\ GET_Y_ID(n, SyncNode(n)) = c
  BY <1>1, TileAt DEF SyncNode
<1>4. GET_ID(n, y, c) \in AllOf(n) /\ GET_X_ID(n, GET_ID(n, y, c)) = c
      /\ GET_Y_ID(n, GET_ID(n, y, c)) = y
  BY <1>1, <1>2, TileAt
<1>5. XYUp(n)[t] = IF x = c THEN SyncNode(n) ELSE GET_ID(n, y, c)
  BY DEF XYUp
<1>6. x = c /\ y = c => t = SyncNode(n)
  BY <1>2 DEF SyncNode
<1> QED
  BY <1>1, <1>3, <1>4, <1>5, <1>6

LEMMA NodeKids ==
  ASSUME NEW n \in Nat \ {0}, NEW rounds, NEW t \in XYNodes(n)
  PROVE  Kids(XYSetup(n, rounds), XYUp(n), t) = OthersOfRow(n, t)
<1> DEFINE up   == XYUp(n)
           c    == Centre(n)
           Y(u) == GET_Y_ID(n, u)
           X(u) == GET_X_ID(n, u)
           hub  == SyncNode(n)
<1>1. t \in AllOf(n) /\ X(t) = c /\ Y(t) # c
  BY DEF XYNodes
<1>2. t = GET_ID(n, Y(t), c)
  BY <1>1, Coordinates
<1>3. Kids(XYSetup(n, rounds), up, t) = {o \in AllOf(n) : o # t /\ up[o] = t}
  BY DEF Kids, XYSetup
<1>4. ASSUME NEW o \in AllOf(n), o # t
      PROVE  up[o] = t <=> Y(o) = Y(t)
  <2>1. CASE X(o) = c
    <3>1. up[o] = hub /\ Y(hub) = c
      BY <2>1, XYFamily
    <3>2. o = GET_ID(n, Y(o), c)
      BY <2>1, Coordinates
    <3> QED
      BY <1>1, <1>2, <1>4, <3>1, <3>2
  <2>2. CASE X(o) # c
    <3>1. up[o] = GET_ID(n, Y(o), c) /\ Y(up[o]) = Y(o)
      BY <2>2, XYFamily
    <3> QED
      BY <1>2, <3>1
  <2> QED
    BY <2>1, <2>2
<1> HIDE DEF up
<1> QED
  BY <1>3, <1>4 DEF OthersOfRow, up

LEMMA HubKids ==
  ASSUME NEW n \in Nat \ {0}, NEW rounds
  PROVE  /\ Kids(XYSetup(n, rounds), XYUp(n), SyncNode(n))
              = OthersOfColumn(n, SyncNode(n)) \cup OthersOfRow(n, SyncNode(n))
         /\ OthersOfColumn(n, SyncNode(n)) \cap OthersOfRow(n, SyncNode(n)) = {}
<1> DEFINE up   == XYUp(n)
           c    == Centre(n)
           Y(u) == GET_Y_ID(n, u)
           X(u) == GET_X_ID(n, u)
           hub  == SyncNode(n)
<1>1. hub \in AllOf(n) /\ X(hub) = c /\ Y(hub) = c /\ hub = GET_ID(n, c, c)
  BY CentreInRange, XYFamily DEF SyncNode
<1>2. Kids(XYSetup(n, rounds), up, hub) = {o \in AllOf(n) : o # hub /\ up[o] = hub}
  BY DEF Kids, XYSetup
<1>3. ASSUME NEW o \in AllOf(n), o # hub
      PROVE  /\ up[o] = hub <=> X(o) = c \/ Y(o) = c
             /\ ~(X(o) = c /\ Y(o) = c)
  <2>1. CASE X(o) = c
    BY <1>3, <2>1, XYFamily
  <2>2. CASE X(o) # c
    <3>1. up[o] = GET_ID(n, Y(o), c) /\ Y(up[o]) = Y(o)
      BY <2>2, XYFamily
    <3> QED
      BY <1>1, <2>2, <3>1
  <2> QED
    BY <2>1, <2>2
<1> HIDE DEF up, hub
<1>4. Kids(XYSetup(n, rounds), up, hub) = OthersOfColumn(n, hub) \cup OthersOfRow(n, hub)
  BY <1>1, <1>2, <1>3 DEF OthersOfRow, OthersOfColumn
<1>5. OthersOfColumn(n, hub) \cap OthersOfRow(n, hub) = {}
  BY <1>1, <1>3 DEF OthersOfRow, OthersOfColumn
<1> QED
  BY <1>4, <1>5 DEF up, hub

\* What the tiles execute.
XYActs(n) == [op : {"add", "await", "put"}, tile : AllOf(n), word : Words, value : Nat]

LEMMA XYAccess ==
  ASSUME NEW n \in Nat \ {0}, NEW t \in AllOf(n), NEW v \in Nat, 0 \in Words
  PROVE  /\ Answerable(AllOf(n), XYActs(n))
         /\ AddOne(t) \in XYActs(n) /\ Await(t, 0, v) \in XYActs(n) /\ Put(t, 0, 0) \in XYActs(n)
         /\ AddOne(t) = OnFirstWord("add", t, 1) /\ Await(t, 0, v) = OnFirstWord("await", t, v)
         /\ Put(t, 0, 0) = OnFirstWord("put", t, 0)
BY DEF Answerable, AddOne, Await, Put, Access, XYActs, OnFirstWord

LEMMA XYLeaf ==
  ASSUME NEW n \in Nat \ {0}, NEW t \in AllOf(n), 0 \in Words, GET_X_ID(n, t) # Centre(n)
  PROVE  /\ XY(n, t) \in Seq(XYActs(n)) /\ Len(XY(n, t)) = 3
         /\ XY(n, t)[1] = OnFirstWord("add", XYUp(n)[t], 1)
         /\ XY(n, t)[2] = OnFirstWord("await", t, 1)
         /\ XY(n, t)[3] = OnFirstWord("put", t, 0)
<1> DEFINE r == XYUp(n)[t]
           a == AddOne(r)
           b == Await(t, 0, 1)
           d == Put(t, 0, 0)
<1>1. XY(n, t) = <<a, b, d>>
  <2>1. r = GET_ID(n, GET_Y_ID(n, t), Centre(n))
    BY XYFamily
  <2> QED
    BY <2>1 DEF XY, Request
<1>2. /\ a \in XYActs(n) /\ b \in XYActs(n) /\ d \in XYActs(n)
      /\ a = OnFirstWord("add", r, 1) /\ b = OnFirstWord("await", t, 1)
      /\ d = OnFirstWord("put", t, 0)
  <2>1. r \in AllOf(n)
    BY XYFamily
  <2> QED
    BY <2>1, XYAccess
<1> HIDE DEF a, b, d
<1> QED
  BY <1>1, <1>2

LEMMA XYNode ==
  ASSUME NEW n \in Nat \ {0}, NEW t \in XYNodes(n), 0 \in Words
  PROVE  LET p == XY(n, t) IN
         /\ p \in Seq(XYActs(n)) /\ Len(p) = 4 + Len(RowOthers(n, t))
         /\ p[1] = OnFirstWord("await", t, n - 1)
         /\ p[2] = OnFirstWord("add", SyncNode(n), 1)
         /\ p[3] = OnFirstWord("await", t, n)
         /\ p[4] = OnFirstWord("put", t, 0)
         /\ \A i \in 1..Len(RowOthers(n, t)) :
              p[4 + i] = OnFirstWord("add", RowOthers(n, t)[i], 1)
<1> DEFINE p     == XY(n, t)
           a     == Await(t, 0, n - 1)
           b     == AddOne(SyncNode(n))
           d     == Await(t, 0, n)
           e     == Put(t, 0, 0)
           rest  == <<b, d, e>>
           first == <<a>> \o rest
           src   == RowOthers(n, t)
           Acts  == XYActs(n)
<1>1. /\ t \in AllOf(n) /\ GET_X_ID(n, t) = Centre(n) /\ GET_Y_ID(n, t) # Centre(n)
      /\ SyncNode(n) \in AllOf(n) /\ t # SyncNode(n)
  BY CentreInRange, XYFamily DEF XYNodes
<1>2. src \in Seq(AllOf(n))
  BY <1>1, RowListed
<1>3. p = first \o Answer(src)
  BY <1>1 DEF XY
<1>4. /\ a \in Acts /\ b \in Acts /\ d \in Acts /\ e \in Acts
      /\ a = OnFirstWord("await", t, n - 1) /\ b = OnFirstWord("add", SyncNode(n), 1)
      /\ d = OnFirstWord("await", t, n) /\ e = OnFirstWord("put", t, 0)
      /\ Answerable(AllOf(n), Acts)
  <2>1. n - 1 \in Nat /\ n \in Nat
    OBVIOUS
  <2> QED
    BY <1>1, <2>1, XYAccess
<1>5. \A o \in AllOf(n) : AddOne(o) = OnFirstWord("add", o, 1)
  BY DEF AddOne, Access, OnFirstWord
<1> HIDE DEF a, b, d, e, p, src, Acts
<1>6. /\ first \in Seq(Acts) /\ Len(first) = 4
      /\ first[1] = a /\ first[2] = b /\ first[3] = d /\ first[4] = e
  <2>1. <<a>> \in Seq(Acts) /\ Len(<<a>>) = 1 /\ <<a>>[1] = a
    BY <1>4
  <2>2. /\ rest \in Seq(Acts) /\ Len(rest) = 3
        /\ rest[1] = b /\ rest[2] = d /\ rest[3] = e
    BY <1>4
  <2> HIDE DEF rest
  <2>3. /\ first \in Seq(Acts) /\ Len(first) = Len(<<a>>) + Len(rest)
        /\ \A i \in 1..(Len(<<a>>) + Len(rest)) :
             first[i] = IF i <= Len(<<a>>) THEN <<a>>[i] ELSE rest[i - Len(<<a>>)]
    BY <2>1, <2>2, ConcatProperties
  <2> QED
    BY <2>1, <2>2, <2>3
<1> HIDE DEF first
<1>7. GoesOn(p, first, src)
  BY <1>3 DEF GoesOn
<1>8. /\ p \in Seq(Acts) /\ Len(p) = Len(first) + Len(src)
      /\ \A i \in 1..Len(first) : p[i] = first[i]
      /\ \A i \in 1..Len(src) : p[Len(first) + i] = AddOne(src[i])
  <2>1. Answerable(AllOf(n), Acts) /\ first \in Seq(Acts) /\ src \in Seq(AllOf(n))
    BY <1>2, <1>4, <1>6
  <2> QED
    BY <1>7, <2>1, ThenAnswers
<1>9. \A i \in 1..Len(src) : src[i] \in AllOf(n)
  BY <1>2
<1>10. \A i \in 1..Len(src) : p[4 + i] = OnFirstWord("add", src[i], 1)
  BY <1>5, <1>6, <1>8, <1>9
<1>11. p[1] = a /\ p[2] = b /\ p[3] = d /\ p[4] = e
  BY <1>6, <1>8
<1> QED
  BY <1>4, <1>6, <1>8, <1>10, <1>11 DEF p, src, Acts

LEMMA XYHub ==
  ASSUME NEW n \in Nat \ {0}, 0 \in Words
  PROVE  LET t   == SyncNode(n)
             p   == XY(n, t)
             src == ColOthers(n, t) \o RowOthers(n, t)
         IN  /\ p \in Seq(XYActs(n)) /\ Len(p) = 3 + Len(src)
             /\ src \in Seq(AllOf(n)) /\ Len(src) = 2 * n - 2
             /\ Lists(src, OthersOfColumn(n, t) \cup OthersOfRow(n, t))
             /\ p[1] = OnFirstWord("await", t, n - 1)
             /\ p[2] = OnFirstWord("await", t, 2 * n - 2)
             /\ p[3] = OnFirstWord("put", t, 0)
             /\ \A i \in 1..Len(src) : p[3 + i] = OnFirstWord("add", src[i], 1)
<1> DEFINE t     == SyncNode(n)
           p     == XY(n, t)
           a     == Await(t, 0, n - 1)
           b     == Await(t, 0, 2 * n - 2)
           d     == Put(t, 0, 0)
           begin == <<b, d>>
           col   == ColOthers(n, t)
           row   == RowOthers(n, t)
           src   == col \o row
           mid   == begin \o Answer(col)
           first == <<a>> \o mid
           Acts  == XYActs(n)
           m     == n - 1
<1>1. t \in AllOf(n) /\ GET_X_ID(n, t) = Centre(n) /\ GET_Y_ID(n, t) = Centre(n)
  BY CentreInRange, XYFamily
<1>2. /\ row \in Seq(AllOf(n)) /\ Len(row) = m
      /\ Lists(row, OthersOfRow(n, t))
  BY <1>1, RowListed DEF OthersOfRow
<1>3. /\ col \in Seq(AllOf(n)) /\ Len(col) = m
      /\ Lists(col, OthersOfColumn(n, t))
  BY <1>1, ColListed DEF OthersOfColumn
<1>4. OthersOfColumn(n, t) \cap OthersOfRow(n, t) = {}
  BY HubKids
<1>5. p = first \o Answer(row)
  BY <1>1 DEF XY
<1>6. /\ a \in Acts /\ b \in Acts /\ d \in Acts
      /\ a = OnFirstWord("await", t, n - 1) /\ b = OnFirstWord("await", t, 2 * n - 2)
      /\ d = OnFirstWord("put", t, 0)
      /\ Answerable(AllOf(n), Acts)
  <2>1. n - 1 \in Nat /\ 2 * n - 2 \in Nat
    OBVIOUS
  <2> QED
    BY <1>1, <2>1, XYAccess
<1>7. \A o \in AllOf(n) : AddOne(o) = OnFirstWord("add", o, 1)
  BY DEF AddOne, Access, OnFirstWord
<1>8. m \in Nat /\ m + m = 2 * n - 2
  OBVIOUS
<1> HIDE DEF t, p, a, b, d, col, row, Acts, m
<1>9. /\ src \in Seq(AllOf(n)) /\ Len(src) = Len(col) + Len(row)
      /\ Lists(src, OthersOfColumn(n, t) \cup OthersOfRow(n, t))
      /\ \A i \in 1..Len(col) : src[i] = col[i]
      /\ \A i \in 1..Len(row) : src[Len(col) + i] = row[i]
  BY <1>2, <1>3, <1>4, ListsTogether
<1> HIDE DEF src
<1>10. begin \in Seq(Acts) /\ Len(begin) = 2 /\ begin[1] = b /\ begin[2] = d
  BY <1>6
<1> HIDE DEF begin
<1>11. GoesOn(mid, begin, col)
  BY DEF GoesOn
<1> HIDE DEF mid
<1>12. /\ mid \in Seq(Acts) /\ Len(mid) = Len(begin) + Len(col)
       /\ \A i \in 1..Len(begin) : mid[i] = begin[i]
       /\ \A i \in 1..Len(col) : mid[Len(begin) + i] = AddOne(col[i])
  <2>1. Answerable(AllOf(n), Acts) /\ begin \in Seq(Acts) /\ col \in Seq(AllOf(n))
    BY <1>3, <1>6, <1>10
  <2> QED
    BY <1>11, <2>1, ThenAnswers
<1>13. /\ first \in Seq(Acts) /\ Len(first) = 3 + m
       /\ first[1] = a /\ first[2] = b /\ first[3] = d
       /\ \A i \in 1..m : first[3 + i] = AddOne(col[i])
  <2>1. <<a>> \in Seq(Acts) /\ Len(<<a>>) = 1 /\ <<a>>[1] = a
    BY <1>6
  <2>2. Len(mid) = 2 + m /\ 2 + m \in Nat /\ mid \in Seq(Acts)
    BY <1>3, <1>8, <1>10, <1>12
  <2>3. /\ first \in Seq(Acts) /\ Len(first) = 1 + (2 + m)
        /\ \A i \in 1..1 : first[i] = <<a>>[i]
        /\ \A i \in (1 + 1)..(1 + (2 + m)) : first[i] = mid[i - 1]
    BY <2>1, <2>2, Joined
  <2>4. /\ mid[1] = b /\ mid[2] = d
        /\ \A i \in 1..m : mid[2 + i] = AddOne(col[i])
    BY <1>3, <1>10, <1>12
  <2> HIDE DEF first
  <2>5. first[1] = a /\ first[2] = b /\ first[3] = d
    BY <1>8, <2>1, <2>3, <2>4
  <2>6. ASSUME NEW i \in 1..m
        PROVE  first[3 + i] = AddOne(col[i])
    <3>1. 3 + i \in (1 + 1)..(1 + (2 + m)) /\ (3 + i) - 1 = 2 + i
      BY <1>8
    <3> QED
      BY <2>3, <2>4, <3>1
  <2> QED
    BY <1>8, <2>3, <2>5, <2>6
<1> HIDE DEF first
<1>14. GoesOn(p, first, row)
  BY <1>5 DEF GoesOn
<1>15. /\ p \in Seq(Acts) /\ Len(p) = Len(first) + Len(row)
       /\ \A i \in 1..Len(first) : p[i] = first[i]
       /\ \A i \in 1..Len(row) : p[Len(first) + i] = AddOne(row[i])
  <2>1. Answerable(AllOf(n), Acts) /\ first \in Seq(Acts) /\ row \in Seq(AllOf(n))
    BY <1>2, <1>6, <1>13
  <2> QED
    BY <1>14, <2>1, ThenAnswers
<1>16. \A i \in 1..m : row[i] \in AllOf(n) /\ col[i] \in AllOf(n)
  BY <1>2, <1>3
<1>17. ASSUME NEW i \in 1..(m + m)
       PROVE  p[3 + i] = OnFirstWord("add", src[i], 1)
  <2>1. CASE i <= m
    <3>1. i \in 1..m /\ 3 + i \in 1..Len(first)
      BY <1>8, <1>13, <2>1
    <3>2. p[3 + i] = AddOne(col[i]) /\ src[i] = col[i]
      BY <1>3, <1>9, <1>13, <1>15, <3>1
    <3> QED
      BY <1>7, <1>16, <3>1, <3>2
  <2>2. CASE ~(i <= m)
    <3> DEFINE j == i - m
    <3>1. j \in 1..m /\ 3 + i = (3 + m) + j /\ i = m + j
      BY <1>8, <2>2
    <3> HIDE DEF j
    <3>2. p[3 + i] = AddOne(row[j]) /\ src[i] = row[j]
      BY <1>2, <1>3, <1>9, <1>13, <1>15, <3>1
    <3> QED
      BY <1>7, <1>16, <3>1, <3>2
  <2> QED
    BY <2>1, <2>2
<1>18. p[1] = a /\ p[2] = b /\ p[3] = d
  BY <1>8, <1>13, <1>15
<1>19. Len(src) = m + m /\ Len(p) = 3 + Len(src)
  BY <1>2, <1>3, <1>8, <1>9, <1>13, <1>15
<1>20. Len(src) = 2 * n - 2
  BY <1>8, <1>19
<1>21. \A i \in 1..Len(src) : p[3 + i] = OnFirstWord("add", src[i], 1)
  BY <1>17, <1>19
<1> QED
  BY <1>6, <1>9, <1>15, <1>18, <1>19, <1>20, <1>21 DEF t, p, src, col, row, Acts

\* XY is orderly, and so a barrier, on a mesh of any size: its two phases share
\* a word of each node of the centre column, which counts first the requests of
\* its row and then, with them, the answer of the middle (nsync_xy_test.c:45-102).
THEOREM XYIsOrderly ==
  ASSUME NEW n \in Nat \ {0}, NEW rounds \in Nat, 0 \in Words
  PROVE  WellFormed(XYSetup(n, rounds)) /\ Orderly(XYSetup(n, rounds))
<1> DEFINE s    == XYSetup(n, rounds)
           up   == XYUp(n)
           hub  == SyncNode(n)
           X(u) == GET_X_ID(n, u)
           Y(u) == GET_Y_ID(n, u)
           c    == Centre(n)
<1>1. /\ s.tiles = AllOf(n) /\ s.rounds = rounds /\ s.root = [t \in AllOf(n) |-> 0]
      /\ \A t \in AllOf(n) : s.prog[t] = XY(n, t)
  BY DEF XYSetup
<1>2. /\ hub \in AllOf(n) /\ X(hub) = c /\ Y(hub) = c /\ IsFiniteSet(AllOf(n))
      /\ \A t \in XYNodes(n) : t \in AllOf(n) /\ X(t) = c /\ Y(t) # c
  BY CentreInRange, XYFamily DEF XYNodes
<1>3. \A t \in AllOf(n) :
        /\ up[t] \in AllOf(n) /\ X(up[t]) = c
        /\ X(t) = c => up[t] = hub
        /\ X(t) = c /\ t \notin XYNodes(n) => t = hub
  BY XYFamily DEF XYNodes
<1>4. up \in [AllOf(n) -> AllOf(n)]
  <2>1. up = [t \in AllOf(n) |-> up[t]]
    BY DEF XYUp
  <2> HIDE DEF up
  <2> QED
    BY <1>3, <2>1
<1>5. ASSUME NEW t \in XYNodes(n)
      PROVE  up[t] = hub /\ NodeProgram(s, t, up) /\ s.prog[t] \in Seq(XYActs(n))
             /\ Len(s.prog[t]) >= 2
  <2> DEFINE src  == RowOthers(n, t)
             kids == Kids(s, up, t)
             p    == s.prog[t]
  <2>1. t \in AllOf(n) /\ up[t] = hub /\ X(t) = c
    BY <1>2, <1>3
  <2>2. src \in Seq(AllOf(n)) /\ Len(src) = n - 1 /\ Lists(src, OthersOfRow(n, t))
    BY <2>1, RowListed DEF OthersOfRow
  <2>3. kids = OthersOfRow(n, t)
    BY NodeKids
  <2>4. /\ XY(n, t) \in Seq(XYActs(n)) /\ Len(XY(n, t)) = 4 + Len(src)
        /\ XY(n, t)[1] = OnFirstWord("await", t, n - 1)
        /\ XY(n, t)[2] = OnFirstWord("add", hub, 1)
        /\ XY(n, t)[3] = OnFirstWord("await", t, n)
        /\ XY(n, t)[4] = OnFirstWord("put", t, 0)
        /\ \A i \in 1..Len(src) : XY(n, t)[4 + i] = OnFirstWord("add", src[i], 1)
    BY XYNode
  <2>5. p = XY(n, t)
    BY <1>1, <2>1
  <2> HIDE DEF kids, src, p, s, up, hub
  <2>6. Lists(src, kids)
    BY <2>2, <2>3
  <2>7. Cardinality(kids) = n - 1 /\ Cardinality(kids) + 1 = n
    <3>1. Cardinality(kids) = Len(src)
      BY <2>2, <2>6, ListedAreCounted
    <3> QED
      BY <2>2, <3>1
  <2>8. AnswersFrom(s, t, 5, kids)
    <3>1. /\ Len(s.prog[t]) = 4 + Len(src)
          /\ \A i \in 1..Len(src) : s.prog[t][4 + i] = OnFirstWord("add", src[i], 1)
      BY <2>4, <2>5 DEF p
    <3>2. AnswersFrom(s, t, 4 + 1, kids)
      BY <2>2, <2>6, <3>1, ListIsAnswered
    <3> QED
      BY <3>2
  <2>9. Len(p) >= 4
    BY <2>2, <2>4, <2>5
  <2> QED
    BY <2>1, <2>4, <2>5, <2>7, <2>8, <2>9 DEF NodeProgram, p, kids
<1>6. HubProgram(s, hub, up) /\ s.prog[hub] \in Seq(XYActs(n)) /\ Len(s.prog[hub]) >= 2
  <2> DEFINE src  == ColOthers(n, hub) \o RowOthers(n, hub)
             kids == Kids(s, up, hub)
             p    == s.prog[hub]
  <2>1. /\ XY(n, hub) \in Seq(XYActs(n)) /\ Len(XY(n, hub)) = 3 + Len(src)
        /\ src \in Seq(AllOf(n)) /\ Len(src) = 2 * n - 2
        /\ Lists(src, OthersOfColumn(n, hub) \cup OthersOfRow(n, hub))
        /\ XY(n, hub)[1] = OnFirstWord("await", hub, n - 1)
        /\ XY(n, hub)[2] = OnFirstWord("await", hub, 2 * n - 2)
        /\ XY(n, hub)[3] = OnFirstWord("put", hub, 0)
        /\ \A i \in 1..Len(src) : XY(n, hub)[3 + i] = OnFirstWord("add", src[i], 1)
    BY XYHub
  <2>2. p = XY(n, hub)
    BY <1>1, <1>2
  <2>3. kids = OthersOfColumn(n, hub) \cup OthersOfRow(n, hub)
    BY HubKids
  <2> HIDE DEF kids, src, p, s, up, hub
  <2>4. Lists(src, kids)
    BY <2>1, <2>3
  <2>5. Cardinality(kids) = 2 * n - 2
    BY <2>1, <2>4, ListedAreCounted
  <2>6. AnswersFrom(s, hub, 4, kids)
    <3>1. /\ Len(s.prog[hub]) = 3 + Len(src)
          /\ \A i \in 1..Len(src) : s.prog[hub][3 + i] = OnFirstWord("add", src[i], 1)
      BY <2>1, <2>2 DEF p
    <3>2. AnswersFrom(s, hub, 3 + 1, kids)
      BY <2>1, <2>4, <3>1, ListIsAnswered
    <3> QED
      BY <3>2
  <2>7. Len(p) >= 3 /\ p[1].value = n - 1
    BY <2>1, <2>2 DEF OnFirstWord
  <2> QED
    BY <2>1, <2>2, <2>5, <2>6, <2>7 DEF HubProgram, p, kids
<1>7. ASSUME NEW t \in AllOf(n), t \notin XYNodes(n), t # hub
      PROVE  (up[t] \in XYNodes(n) \/ up[t] = hub) /\ LeafProgram(s, t, up)
             /\ s.prog[t] \in Seq(XYActs(n)) /\ Len(s.prog[t]) >= 2
  <2>1. X(t) # c
    BY <1>3, <1>7
  <2>2. /\ XY(n, t) \in Seq(XYActs(n)) /\ Len(XY(n, t)) = 3
        /\ XY(n, t)[1] = OnFirstWord("add", up[t], 1)
        /\ XY(n, t)[2] = OnFirstWord("await", t, 1)
        /\ XY(n, t)[3] = OnFirstWord("put", t, 0)
    BY <2>1, XYLeaf
  <2>3. up[t] \in XYNodes(n) \/ up[t] = hub
    BY <1>3
  <2>4. s.prog[t] = XY(n, t)
    BY <1>1
  <2> HIDE DEF s, up, hub
  <2>5. LeafProgram(s, t, up)
    BY <2>2, <2>4 DEF LeafProgram
  <2>6. s.prog[t] \in Seq(XYActs(n)) /\ Len(s.prog[t]) = 3
    BY <2>2, <2>4, Zenon
  <2>7. Len(s.prog[t]) >= 2
    BY <2>6
  <2> QED
    BY <2>3, <2>5, <2>6, <2>7
<1> HIDE DEF s, up, hub, X, Y, c
<1>8. WellFormed(s)
  <2>1. ASSUME NEW t \in AllOf(n)
        PROVE  s.prog[t] \in Seq(XYActs(n)) /\ Len(s.prog[t]) >= 2
    BY <1>5, <1>6, <1>7
  <2>2. 0 \in AllOf(n)
    BY CentreInRange DEF AllOf
  <2>3. s.root \in [AllOf(n) -> AllOf(n)]
    BY <1>1, <2>2
  <2> QED
    BY <1>1, <1>2, <2>1, <2>3 DEF WellFormed, XYActs
<1>9. TwoPhase(s, up, XYNodes(n), hub)
  <2>1. XYNodes(n) \subseteq AllOf(n) /\ hub \notin XYNodes(n) /\ up[hub] = hub
    BY <1>2, <1>3
  <2> QED
    BY <1>1, <1>2, <1>4, <1>5, <1>6, <1>7, <1>8, <2>1 DEF TwoPhase
<1>10. Orderly(s)
  BY <1>9, TwoPhaseIsOrderly
<1> QED
  BY <1>8, <1>10 DEF s
=============================================================================
