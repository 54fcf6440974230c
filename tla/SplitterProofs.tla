-------------------------- MODULE SplitterProofs ---------------------------
(***************************************************************************)
(* Theorems about Splitter, for any number of accesses: behind banks that  *)
(* answer in the cycle after a grant, and with more than one entry in the  *)
(* pattern FIFO, every access gets its own two halves.                     *)
(***************************************************************************)
EXTENDS Splitter, SequenceTheorems, TLAPS

Accesses == [n : 1..MaxIssue, halves : Kinds]
Grants   == [n : 1..MaxIssue, whole : BOOLEAN]

\* The vector ports, with kinds of accesses that have an answer.
Vector == ~Slow /\ {} \notin Kinds /\ FIFO_DEPTH > 1

TypesInv ==
  /\ spill \in Seq(Accesses) /\ Len(spill) <= 2
  /\ fifo = << >> \/ \E e \in Accesses : fifo = <<e>>
  /\ issued \in 0..MaxIssue /\ answered.n \in Nat
  /\ answered.data \in [Halves -> Grants \cup {Nothing}]

\* The waiting accesses follow the one in the FIFO, which follows the one
\* answered last.
CountInv ==
  /\ fifo # << >> => fifo[1].n = answered.n + 1
  /\ \A i \in 1..Len(spill) : spill[i].n = answered.n + Len(fifo) + i
  /\ issued = answered.n + Len(fifo) + Len(spill)

\* The banks answer the access in the FIFO, all of its halves. Otherwise they
\* answer some of the halves of the access that waits at the head, but never
\* all of them.
LaneInv ==
  /\ \A e \in Accesses : fifo = <<e>> =>
       \A h \in Halves :
         lane[h] = IF h \in e.halves THEN <<[n |-> e.n, whole |-> TRUE]>> ELSE << >>
  /\ fifo = << >> =>
       /\ \A h \in Halves :
            \/ lane[h] = << >>
            \/ /\ Valid /\ h \in Head(spill).halves
               /\ lane[h] = <<[n |-> Head(spill).n, whole |-> FALSE]>>
       /\ Valid => \E h \in Head(spill).halves : lane[h] = << >>

IInv == lane \in [Halves -> Seq(Grants)] /\ TypesInv /\ CountInv /\ LaneInv

-----------------------------------------------------------------------------
(* Sequences of at most one element.                                       *)

LEMMA Single ==
  ASSUME NEW S, NEW x \in S
  PROVE  /\ <<x>> \in Seq(S) /\ Len(<<x>>) = 1 /\ <<x>> # << >>
         /\ <<x>>[1] = x /\ Head(<<x>>) = x /\ Tail(<<x>>) = << >>
OBVIOUS

LEMMA SecondOne ==
  ASSUME NEW S, NEW x \in S, NEW y \in S
  PROVE  /\ Append(<<x>>, y) # << >> /\ Head(Append(<<x>>, y)) = x
         /\ Tail(Append(<<x>>, y)) = <<y>>
         /\ Append(<< >>, y) = <<y>>
<1>1. Append(<<x>>, y) = <<x, y>>
  <2>1. /\ <<x>> \in Seq(S) /\ Len(<<x>>) = 1 /\ <<x>>[1] = x
        /\ <<x, y>> \in Seq(S) /\ Len(<<x, y>>) = 2 /\ <<x, y>>[1] = x /\ <<x, y>>[2] = y
    OBVIOUS
  <2>2. /\ Append(<<x>>, y) \in Seq(S) /\ Len(Append(<<x>>, y)) = 2
        /\ Append(<<x>>, y)[1] = x /\ Append(<<x>>, y)[2] = y
    BY <2>1, AppendProperties
  <2>3. \A i \in 1..2 : Append(<<x>>, y)[i] = <<x, y>>[i]
    <3>1. \A i \in 1..2 : i = 1 \/ i = 2
      OBVIOUS
    <3> QED
      BY <2>1, <2>2, <3>1
  <2> QED
    BY <2>1, <2>2, <2>3, SeqEqual
<1>2. Tail(<<x, y>>) = <<y>> /\ Head(<<x, y>>) = x /\ <<x, y>> # << >>
  OBVIOUS
<1>3. Append(<< >>, y) = <<y>>
  OBVIOUS
<1> QED
  BY <1>1, <1>2, <1>3

LEMMA UpToTwo ==
  ASSUME NEW k \in Nat, k <= 2
  PROVE  k \in 0..2 /\ k \in {0, 1, 2}
OBVIOUS

-----------------------------------------------------------------------------
(* What a cycle does in a state of the invariant.                          *)

\* The halves a bank is busy with, all of them answered in this cycle.
Busy == {h \in Halves : lane[h] # << >>}

LEMMA HeadOfSpill ==
  ASSUME IInv, Valid
  PROVE  /\ Head(spill) \in Accesses /\ Head(spill) = spill[1]
         /\ Head(spill).n = answered.n + Len(fifo) + 1
         /\ Head(spill).halves \subseteq Halves
         /\ Len(spill) \in {1, 2}
<1>1. spill \in Seq(Accesses) /\ spill # << >> /\ Len(spill) <= 2
  BY DEF IInv, TypesInv, Valid
<1>2. Len(spill) \in {1, 2}
  <2>1. Len(spill) \in Nat /\ Len(spill) # 0
    BY <1>1, EmptySeq
  <2>2. Len(spill) \in {0, 1, 2}
    BY <1>1, <2>1, UpToTwo
  <2> QED
    BY <2>1, <2>2
<1>3. Head(spill) \in Accesses /\ Head(spill) = spill[1]
  BY <1>1, <1>2, HeadTailProperties
<1>4. Head(spill).n = answered.n + Len(fifo) + 1
  BY <1>2, <1>3 DEF IInv, CountInv
<1> QED
  BY <1>2, <1>3, <1>4, SplitterAssumption DEF Accesses

\* With an access in the FIFO its halves are answered now; without one the
\* banks answer too little for the access that is pushed in this cycle.
LEMMA Arrives ==
  ASSUME IInv, Vector, NEW gnt \in SUBSET Halves
  PROVE  /\ fifo # << >> => /\ Arriving(gnt, Busy)
                            /\ Head(Entries(gnt)) = fifo[1]
                            /\ fifo[1] \in Accesses
                            /\ Tail(Entries(gnt)) =
                                 IF Ready(gnt) THEN <<Head(spill)>> ELSE << >>
         /\ fifo = << >> => /\ ~Arriving(gnt, Busy)
                            /\ Entries(gnt) = IF Ready(gnt) THEN <<Head(spill)>> ELSE << >>
<1>1. CASE fifo # << >>
  <2>1. PICK e \in Accesses : fifo = <<e>>
    BY <1>1 DEF IInv, TypesInv
  <2>2. e.halves # {} /\ e.halves \subseteq Halves
    BY <2>1, SplitterAssumption DEF Accesses, Vector
  <2>3. Busy = e.halves
    BY <2>1, <2>2 DEF IInv, LaneInv, Busy
  <2>4. Ready(gnt) => Head(spill) \in Accesses
    BY HeadOfSpill DEF Ready
  <2>5. /\ Head(Entries(gnt)) = e /\ Entries(gnt) # << >>
        /\ Tail(Entries(gnt)) = IF Ready(gnt) THEN <<Head(spill)>> ELSE << >>
    BY <2>1, <2>4, Single, SecondOne DEF Entries
  <2> QED
    BY <1>1, <2>1, <2>2, <2>3, <2>5 DEF Arriving
<1>2. CASE fifo = << >>
  <2>1. Entries(gnt) = IF Ready(gnt) THEN <<Head(spill)>> ELSE << >>
    BY <1>2 DEF Entries
  <2>2. ASSUME Ready(gnt)
        PROVE  ~ (Head(spill).halves \subseteq Busy)
    <3>1. Valid
      BY <2>2 DEF Ready
    <3>2. PICK h \in Head(spill).halves : lane[h] = << >>
      BY <1>2, <3>1 DEF IInv, LaneInv
    <3> QED
      BY <3>2 DEF Busy
  <2>3. Ready(gnt) => Head(Entries(gnt)) = Head(spill)
    BY <2>1
  <2> QED
    BY <1>2, <2>1, <2>2, <2>3 DEF Arriving
<1> QED
  BY <1>1, <1>2

\* A bank holds nothing longer than a cycle: what it is granted now replaces
\* what it answers.
LEMMA LaneStep ==
  ASSUME IInv, NEW req \in Requests, NEW gnt \in SUBSET Halves, Cycle(req, gnt, Busy),
         NEW h \in Halves
  PROVE  lane'[h] = Granted(h, gnt)
<1>1. lane[h] = << >> \/ \E g \in Grants : lane[h] = <<g>>
  <2>1. CASE fifo # << >>
    <3>1. PICK e \in Accesses : fifo = <<e>>
      BY <2>1 DEF IInv, TypesInv
    <3> QED
      BY <3>1 DEF IInv, LaneInv, Accesses, Grants
  <2>2. CASE fifo = << >>
    <3>1. Valid => Head(spill).n \in 1..MaxIssue
      BY HeadOfSpill DEF Accesses
    <3> QED
      BY <2>2, <3>1 DEF IInv, LaneInv, Grants
  <2> QED
    BY <2>1, <2>2
<1>2. (IF h \in Busy THEN Tail(lane[h]) ELSE lane[h]) = << >>
  BY <1>1, Single DEF Busy
<1>3. lane'[h] = << >> \o Granted(h, gnt)
  BY <1>2 DEF Cycle
<1>4. PICK x : Granted(h, gnt) \in {<< >>, <<x>>}
  BY DEF Granted
<1>5. Granted(h, gnt) \in Seq({x})
  BY <1>4, Single, EmptySeq
<1> QED
  BY <1>3, <1>5, ConcatEmptySeq

\* What waits after the cycle: the rest, and the access that is issued.
LEMMA SpillStep ==
  ASSUME IInv, NEW req \in Requests, NEW gnt \in SUBSET Halves, NEW rsp,
         Cycle(req, gnt, rsp), req = << >> \/ issued < MaxIssue
  PROVE  LET taken == IF Ready(gnt) THEN 1 ELSE 0
         IN  /\ spill' \in Seq(Accesses) /\ Len(spill') <= 2
             /\ Len(spill') = Len(spill) - taken + Len(req)
             /\ issued' = issued + Len(req) /\ issued' \in 0..MaxIssue
             /\ \A i \in 1..Len(spill') :
                  spill'[i].n = answered.n + Len(fifo) + taken + i
             /\ ~Ready(gnt) /\ Valid => spill'[1] = spill[1]
<1> DEFINE rest  == IF Ready(gnt) THEN Tail(spill) ELSE spill
           taken == IF Ready(gnt) THEN 1 ELSE 0
           new   == [i \in DOMAIN req |-> [n |-> issued', halves |-> req[i]]]
<1>1. /\ spill \in Seq(Accesses) /\ Len(spill) \in 0..2
      /\ issued \in 0..MaxIssue /\ answered.n \in Nat /\ Len(fifo) \in Nat
      /\ issued = answered.n + Len(fifo) + Len(spill)
      /\ \A i \in 1..Len(spill) : spill[i].n = answered.n + Len(fifo) + i
  <2>1. spill \in Seq(Accesses) /\ Len(spill) <= 2 /\ Len(spill) \in Nat
    BY LenProperties DEF IInv, TypesInv
  <2>2. fifo \in Seq(Accesses)
    <3>1. CASE fifo = << >>
      BY <3>1, EmptySeq
    <3>2. CASE fifo # << >>
      <4>1. PICK e \in Accesses : fifo = <<e>>
        BY <3>2 DEF IInv, TypesInv
      <4> QED
        BY <4>1, Single
    <3> QED
      BY <3>1, <3>2
  <2>3. Len(fifo) \in Nat
    BY <2>2, LenProperties
  <2>4. Len(spill) \in 0..2
    BY <2>1, UpToTwo
  <2> QED
    BY <2>1, <2>3, <2>4 DEF IInv, TypesInv, CountInv
<1>2. /\ rest \in Seq(Accesses) /\ Len(rest) = Len(spill) - taken
      /\ \A i \in 1..Len(rest) : rest[i].n = answered.n + Len(fifo) + taken + i
  <2>1. CASE Ready(gnt)
    <3>1. spill # << >>
      BY <2>1 DEF Ready, Valid
    <3>2. /\ Tail(spill) \in Seq(Accesses) /\ Len(Tail(spill)) = Len(spill) - 1
          /\ \A i \in 1 .. Len(Tail(spill)) : Tail(spill)[i] = spill[i+1]
      BY <1>1, <3>1, HeadTailProperties
    <3>3. ASSUME NEW i \in 1..Len(rest)
          PROVE  rest[i].n = answered.n + Len(fifo) + taken + i
      <4>1. i \in Nat /\ i + 1 \in 1..Len(spill) /\ rest[i] = spill[i + 1]
        BY <1>1, <2>1, <3>2
      <4>2. spill[i + 1].n = answered.n + Len(fifo) + (i + 1)
        BY <1>1, <4>1
      <4> QED
        BY <1>1, <2>1, <4>1, <4>2
    <3> QED
      BY <1>1, <2>1, <3>2, <3>3
  <2>2. CASE ~Ready(gnt)
    BY <1>1, <2>2
  <2> QED
    BY <2>1, <2>2
<1>3. CASE req = << >>
  <2>1. new = << >> /\ Len(req) = 0
    BY <1>3
  <2>2. issued' = issued
    BY <1>1, <2>1 DEF Cycle
  <2>3. spill' = rest
    BY <1>2, <2>1, ConcatEmptySeq DEF Cycle
  <2>4. taken \in {0, 1} /\ (~Ready(gnt) => spill' = spill)
    BY <2>3
  <2>5. Len(spill') \in Nat /\ Len(spill') = Len(spill) - taken
    BY <1>2, <2>3, LenProperties
  <2> HIDE DEF rest, taken
  <2>6. Len(spill') <= 2 /\ Len(spill') = Len(spill) - taken + Len(req)
    <3>1. Len(spill) \in 0..2 /\ Len(req) = 0
      BY <1>1, <2>1
    <3>2. taken \in {0, 1}
      BY <2>4
    <3> QED
      BY <2>5, <3>1, <3>2
  <2>7. issued' = issued + Len(req) /\ issued' \in 0..MaxIssue
    BY <1>1, <2>1, <2>2
  <2> QED
    BY <1>2, <2>3, <2>4, <2>6, <2>7 DEF taken
<1>4. ASSUME NEW kind \in Kinds, req = <<kind>>
      PROVE  LET t == IF Ready(gnt) THEN 1 ELSE 0
             IN  /\ spill' \in Seq(Accesses) /\ Len(spill') <= 2
                 /\ Len(spill') = Len(spill) - t + Len(req)
                 /\ issued' = issued + Len(req) /\ issued' \in 0..MaxIssue
                 /\ \A i \in 1..Len(spill') :
                      spill'[i].n = answered.n + Len(fifo) + t + i
                 /\ ~Ready(gnt) /\ Valid => spill'[1] = spill[1]
  <2>1. Len(req) = 1 /\ issued < MaxIssue /\ Len(spill) < 2
    BY <1>4 DEF Cycle
  <2>2. issued' = issued + 1 /\ issued' \in 1..MaxIssue
    <3>1. issued' = issued + 1
      BY <2>1 DEF Cycle
    <3>2. issued \in Nat /\ MaxIssue \in Nat /\ issued < MaxIssue
      BY <1>1, <2>1, SplitterAssumption
    <3> QED
      BY <3>1, <3>2
  <2>3. new = <<[n |-> issued', halves |-> kind]>>
    BY <1>4
  <2>4. new \in Seq(Accesses) /\ Len(new) = 1 /\ new[1].n = issued'
    BY <2>2, <2>3 DEF Accesses
  <2>5. /\ spill' \in Seq(Accesses) /\ Len(spill') = Len(rest) + 1
        /\ \A i \in 1..Len(rest) + 1 :
             spill'[i] = IF i <= Len(rest) THEN rest[i] ELSE new[i - Len(rest)]
    <3>1. spill' = rest \o new
      BY DEF Cycle
    <3> QED
      BY <1>2, <2>4, <3>1, ConcatProperties
  <2>6. Len(rest) \in Nat
    BY <1>2, LenProperties
  <2>7. \A i \in 1..Len(spill') : spill'[i].n = answered.n + Len(fifo) + taken + i
    <3> SUFFICES ASSUME NEW i \in 1..Len(spill')
                 PROVE  spill'[i].n = answered.n + Len(fifo) + taken + i
      OBVIOUS
    <3>1. CASE i <= Len(rest)
      <4>1. i \in 1..Len(rest) /\ i \in 1..Len(rest) + 1
        BY <2>5, <2>6, <3>1
      <4>2. spill'[i] = rest[i]
        BY <2>5, <3>1, <4>1
      <4> QED
        BY <1>2, <4>1, <4>2
    <3>2. CASE i = Len(rest) + 1
      <4>1. spill'[i] = new[1]
        BY <2>5, <2>6, <3>2
      <4>2. issued + 1 = answered.n + Len(fifo) + taken + i
        <5>1. taken \in {0, 1}
          OBVIOUS
        <5>2. Len(rest) = Len(spill) - taken
          BY <1>2
        <5>3. /\ answered.n \in Nat /\ Len(fifo) \in Nat /\ Len(spill) \in Nat
              /\ issued = answered.n + Len(fifo) + Len(spill)
          BY <1>1
        <5> HIDE DEF taken, rest
        <5> QED
          BY <3>2, <5>1, <5>2, <5>3
      <4> QED
        BY <2>2, <2>4, <4>1, <4>2
    <3> QED
      BY <2>5, <2>6, <3>1, <3>2
  <2>8. ~Ready(gnt) /\ Valid => spill'[1] = spill[1]
    <3>1. Valid => Len(spill) \in {1, 2}
      BY HeadOfSpill
    <3>2. ~Ready(gnt) => rest = spill
      OBVIOUS
    <3>3. ASSUME ~Ready(gnt), Valid
          PROVE  1 <= Len(rest) /\ 1 \in 1..Len(rest) + 1
      BY <2>6, <3>1, <3>2, <3>3
    <3> HIDE DEF rest, new
    <3> QED
      BY <2>5, <3>2, <3>3
  <2> QED
    BY <1>1, <1>2, <2>1, <2>2, <2>5, <2>7, <2>8
<1> QED
  BY <1>3, <1>4 DEF Requests

-----------------------------------------------------------------------------
(* The invariant and the pairing.                                          *)

LEMMA CycleStep ==
  ASSUME IInv, Vector, NEW req \in Requests, NEW gnt \in SUBSET Halves,
         Cycle(req, gnt, Busy), req = << >> \/ issued < MaxIssue
  PROVE  /\ IInv'
         /\ answered' # answered =>
              /\ answered'.n = answered.n + 1
              /\ \A h \in Halves :
                   answered'.data[h] \in {Nothing, [n |-> answered'.n, whole |-> TRUE]}
<1> DEFINE taken == IF Ready(gnt) THEN 1 ELSE 0
<1>1. fifo' = IF Ready(gnt) THEN <<Head(spill)>> ELSE << >>
  BY Arrives DEF Cycle
<1>2. Ready(gnt) => Valid
  BY DEF Ready
<1>3. Len(fifo') = taken
  BY <1>1
<1>4. /\ answered'.n = answered.n + Len(fifo)
      /\ answered'.data \in [Halves -> Grants \cup {Nothing}]
      /\ answered' # answered =>
           /\ answered'.n = answered.n + 1
           /\ \A h \in Halves :
                answered'.data[h] \in {Nothing, [n |-> answered'.n, whole |-> TRUE]}
  <2>1. CASE fifo # << >>
    <3>1. PICK e \in Accesses : fifo = <<e>>
      BY <2>1 DEF IInv, TypesInv
    <3>2. answered' = [n |-> e.n, data |-> [h \in Halves |->
                         IF h \in e.halves THEN Head(lane[h]) ELSE Nothing]]
      BY <2>1, <3>1, Arrives DEF Cycle
    <3>3. e.n = answered.n + 1 /\ e.n \in 1..MaxIssue /\ Len(fifo) = 1
      BY <2>1, <3>1 DEF IInv, CountInv, Accesses
    <3>4. \A h \in Halves :
            (IF h \in e.halves THEN Head(lane[h]) ELSE Nothing)
               \in {Nothing, [n |-> e.n, whole |-> TRUE]}
      BY <3>1 DEF IInv, LaneInv
    <3>5. [n |-> e.n, whole |-> TRUE] \in Grants
      BY <3>3 DEF Grants
    <3> QED
      BY <3>2, <3>3, <3>4, <3>5
  <2>2. CASE fifo = << >>
    <3>1. answered' = answered
      BY <2>2, Arrives DEF Cycle
    <3> QED
      BY <2>2, <3>1 DEF IInv, TypesInv
  <2> QED
    BY <2>1, <2>2
<1>5. Ready(gnt) => /\ Head(spill) \in Accesses
                    /\ Head(spill).n = answered.n + Len(fifo) + 1
  BY <1>2, HeadOfSpill
<1>6. TypesInv'
  <2>1. fifo' = << >> \/ \E e \in Accesses : fifo' = <<e>>
    BY <1>1, <1>5
  <2>2. /\ spill' \in Seq(Accesses) /\ Len(spill') <= 2
        /\ issued' \in 0..MaxIssue
    BY SpillStep
  <2>3. answered.n \in Nat /\ Len(fifo) \in Nat
    BY Single, EmptySeq DEF IInv, TypesInv
  <2>4. answered'.n \in Nat
    BY <1>4, <2>3
  <2> QED
    BY <1>4, <2>1, <2>2, <2>4 DEF TypesInv
<1>7. CountInv'
  <2>1. answered.n \in Nat /\ Len(fifo) \in Nat /\ Len(spill) \in Nat
    BY LenProperties DEF IInv, TypesInv
  <2>2. fifo' # << >> => fifo'[1].n = answered'.n + 1
    BY <1>1, <1>4, <1>5
  <2>3. \A i \in 1..Len(spill') : spill'[i].n = answered'.n + Len(fifo') + i
    BY <1>3, <1>4, SpillStep
  <2>4. issued' = answered'.n + Len(fifo') + Len(spill')
    <3>1. Len(req) \in {0, 1}
      BY DEF Requests
    <3>2. issued = answered.n + Len(fifo) + Len(spill)
      BY DEF IInv, CountInv
    <3>3. Len(spill') = Len(spill) - taken + Len(req) /\ issued' = issued + Len(req)
      BY SpillStep
    <3>4. taken \in {0, 1} /\ answered'.n = answered.n + Len(fifo) /\ Len(fifo') = taken
      BY <1>3, <1>4
    <3>5. Len(req) \in Nat
      BY <3>1
    <3> HIDE DEF taken
    <3> QED
      BY <2>1, <3>2, <3>3, <3>4, <3>5
  <2> QED
    BY <2>2, <2>3, <2>4 DEF CountInv
<1>8. LaneInv'
  <2>1. \A h \in Halves : lane'[h] = Granted(h, gnt)
    BY LaneStep
  <2>2. CASE Ready(gnt)
    <3>1. \A h \in Halves :
            Granted(h, gnt) = IF h \in Head(spill).halves
                              THEN <<[n |-> Head(spill).n, whole |-> TRUE]>> ELSE << >>
      BY <2>2 DEF Granted, Ready
    <3> QED
      BY <1>1, <2>1, <2>2, <3>1 DEF LaneInv
  <2>3. CASE ~Ready(gnt)
    <3>1. fifo' = << >>
      BY <1>1, <2>3
    <3>2. CASE ~Valid
      <4>1. \A h \in Halves : lane'[h] = << >>
        BY <2>1, <3>2 DEF Granted
      <4>2. Valid' => \E h \in Halves : h \in Head(spill').halves
        <5>1. Valid' => Head(spill') \in Accesses
          BY <1>6, HeadTailProperties DEF TypesInv, Valid
        <5> QED
          BY <5>1, SplitterAssumption DEF Accesses, Vector
      <4> QED
        BY <3>1, <4>1, <4>2 DEF LaneInv
    <3>3. CASE Valid
      <4>1. Valid' /\ Head(spill') = Head(spill)
        <5>1. Len(spill') >= Len(spill) /\ Len(spill) >= 1
          <6>1. Len(req) \in {0, 1}
            BY DEF Requests
          <6>2. Len(spill') = Len(spill) + Len(req)
            BY <2>3, <3>3, <6>1, SpillStep, HeadOfSpill
          <6> QED
            BY <3>3, <6>1, <6>2, HeadOfSpill
        <5>2. spill' # << >> /\ spill' \in Seq(Accesses)
          BY <1>6, <5>1 DEF TypesInv
        <5>3. Head(spill') = spill'[1]
          BY <5>2
        <5> QED
          BY <2>3, <3>3, <5>2, <5>3, SpillStep, HeadOfSpill DEF Valid
      <4>2. \E h \in Head(spill).halves : h \notin gnt
        <5>1. Len(fifo) \in {0, 1}
          BY DEF IInv, TypesInv
        <5>2. FIFO_DEPTH \notin {0, 1}
          BY SplitterAssumption DEF Vector
        <5>3. ~Full
          BY <5>1, <5>2 DEF Full
        <5> QED
          BY <2>3, <3>3, <5>3 DEF Ready
      <4>3. \A h \in Halves :
              Granted(h, gnt) = IF h \in Head(spill).halves \cap gnt
                                THEN <<[n |-> Head(spill).n, whole |-> FALSE]>> ELSE << >>
        BY <2>3, <3>3 DEF Granted, Ready
      <4> QED
        BY <2>1, <3>1, <3>3, <4>1, <4>2, <4>3, HeadOfSpill DEF LaneInv
    <3> QED
      BY <3>2, <3>3
  <2> QED
    BY <2>2, <2>3
<1>9. lane' \in [Halves -> Seq(Grants)]
  <2>1. \A h \in Halves : Granted(h, gnt) \in Seq(Grants)
    <3>1. Valid => Head(spill).n \in 1..MaxIssue
      BY HeadOfSpill DEF Accesses
    <3>2. Ready(gnt) \in BOOLEAN
      BY DEF Ready, Valid, Full
    <3> QED
      BY <3>1, <3>2, Single, EmptySeq DEF Granted, Grants
  <2>2. \A h \in Halves : lane'[h] = Granted(h, gnt)
    BY LaneStep
  <2>3. lane' = [h \in Halves |-> lane'[h]]
    BY DEF Cycle
  <2> QED
    BY <2>1, <2>2, <2>3
<1> QED
  BY <1>4, <1>6, <1>7, <1>8, <1>9 DEF IInv

LEMMA InitInv == ASSUME SplitterInit, Vector PROVE IInv
<1>1. spill \in Seq(Accesses) /\ Len(spill) = 0 /\ fifo = << >> /\ ~Valid
  BY EmptySeq DEF SplitterInit, Valid
<1>2. TypesInv
  BY <1>1, SplitterAssumption DEF SplitterInit, TypesInv, Nothing
<1>3. CountInv
  BY <1>1 DEF SplitterInit, CountInv
<1>4. LaneInv
  BY <1>1 DEF SplitterInit, LaneInv
<1>5. lane \in [Halves -> Seq(Grants)]
  BY EmptySeq DEF SplitterInit
<1> QED
  BY <1>2, <1>3, <1>4, <1>5 DEF IInv

LEMMA NextStep ==
  ASSUME IInv, Vector, [SplitterNext]_splitterVars
  PROVE  /\ IInv'
         /\ answered' # answered =>
              /\ answered'.n = answered.n + 1
              /\ \A h \in Halves :
                   answered'.data[h] \in {Nothing, [n |-> answered'.n, whole |-> TRUE]}
<1>1. CASE SplitterNext
  <2>1. PICK req \in Requests, gnt \in SUBSET Halves, rsp \in SUBSET Halves :
          Banks(gnt, rsp) /\ Cycle(req, gnt, rsp)
    BY <1>1 DEF SplitterNext
  <2>2. rsp = Busy
    BY <2>1 DEF Banks, Busy, Vector
  <2>3. req = << >> \/ issued < MaxIssue
    BY <2>1 DEF Cycle
  <2> QED
    BY <2>1, <2>2, <2>3, CycleStep
<1>2. CASE UNCHANGED splitterVars
  <2>1. UNCHANGED <<spill, fifo, lane, issued, answered>>
    BY <1>2 DEF splitterVars
  <2> QED
    BY <2>1 DEF IInv, TypesInv, CountInv, LaneInv, Valid
<1> QED
  BY <1>1, <1>2

-----------------------------------------------------------------------------
(* The theorems.                                                           *)

\* What the banks answer belongs to the access in the FIFO, all of it, or to
\* the access at the head of the spill register, and never all of it.
THEOREM InvariantHolds ==
  ASSUME Vector
  PROVE  SplitterSpec => []IInv
<1>1. SplitterInit => IInv
  BY InitInv
<1>2. IInv /\ [SplitterNext]_splitterVars => IInv'
  BY NextStep
<1> QED
  BY <1>1, <1>2, PTL DEF SplitterSpec

\* Types; the pattern FIFO holds at most one access and never stops the port.
THEOREM TypeCorrect ==
  ASSUME Vector
  PROVE  SplitterSpec => []SplitterTypeOK
<1>1. IInv => SplitterTypeOK
  <2> SUFFICES ASSUME IInv
               PROVE  SplitterTypeOK
    OBVIOUS
  <2>1. /\ spill \in Seq(Accesses) /\ Len(spill) <= 2 /\ Len(spill) \in Nat
        /\ issued \in 0..MaxIssue /\ answered.n \in Nat
        /\ answered.data \in [Halves -> Grants \cup {Nothing}]
        /\ lane \in [Halves -> Seq(Grants)]
    BY LenProperties DEF IInv, TypesInv
  <2>2. fifo \in Seq(Accesses) /\ Len(fifo) \in {0, 1}
    <3>1. CASE fifo = << >>
      BY <3>1, EmptySeq
    <3>2. CASE fifo # << >>
      <4>1. PICK e \in Accesses : fifo = <<e>>
        BY <3>2 DEF IInv, TypesInv
      <4> QED
        BY <4>1, Single
    <3> QED
      BY <3>1, <3>2
  <2>3. Len(fifo) <= IF Slow THEN FIFO_DEPTH ELSE 1
    <3>1. ~Slow
      BY DEF Vector
    <3>2. (IF Slow THEN FIFO_DEPTH ELSE 1) = 1
      BY <3>1
    <3>3. \A k \in {0, 1} : k <= 1
      OBVIOUS
    <3> QED
      BY <2>2, <3>2, <3>3
  <2>4. answered.n \in 0..MaxIssue
    <3>1. issued = answered.n + Len(fifo) + Len(spill)
      BY DEF IInv, CountInv
    <3> QED
      BY <2>1, <2>2, <3>1, SplitterAssumption
  <2> QED
    BY <2>1, <2>2, <2>3, <2>4 DEF SplitterTypeOK, Accesses, Grants
<1> QED
  BY <1>1, InvariantHolds, PTL

\* Accesses are answered in the order of issue, each of them once, with two
\* halves that were carried out for this access and in the same cycle.
THEOREM AnswersPaired ==
  ASSUME Vector
  PROVE  SplitterSpec => Paired
<1>1. IInv /\ [SplitterNext]_splitterVars =>
        [answered' # answered =>
           /\ answered'.n = answered.n + 1
           /\ \A h \in Halves :
                answered'.data[h] \in {Nothing, [n |-> answered'.n, whole |-> TRUE]}]_splitterVars
  BY NextStep
<1> QED
  BY <1>1, InvariantHolds, PTL DEF SplitterSpec, Paired
=============================================================================
