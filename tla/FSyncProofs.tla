---------------------------- MODULE FSyncProofs ----------------------------
(***************************************************************************)
(* Theorems about FSync, for meshes of any size and any sequence of        *)
(* patterns: a tile's request is in the network once, the control block is *)
(* idle whenever its tile triggers it, and no event is left over.          *)
(***************************************************************************)
EXTENDS FSync, SequenceTheorems, WellFoundedInduction, TLAPS

\* A control block is idle unless its tile waits and no event has come, and an
\* event is there for a tile that waits.
StateInv ==
  /\ \A t \in Tiles : state[t] # "IDLE" => t \in waiting /\ t \notin event
  /\ event \subseteq waiting
  /\ \A t \in waiting : round[t] < Len(program.patterns)

\* A tile's request is at one place: at one node, or joined and answered.
OnceInv ==
  /\ \A q, p \in requests : q # p => q.tiles \cap p.tiles = {}
  /\ \A q \in requests : q.tiles \cap woken = {}

IInv == TypeOK /\ StateInv /\ OnceInv

-----------------------------------------------------------------------------
(* The invariant behind the barriers.                                      *)

Peers(t) == Mesh(N)!Peers(Current(t), t) \cap Tiles

\* A request stands for a whole team, all in the same round of the program.
TeamInv ==
  \A q \in requests : \A t \in q.tiles :
    /\ q.pattern = Mesh(N)!fsync_mm(Current(t), t)
    /\ q.level \in Above(q.pattern, 0)
    /\ q.tiles = Mesh(N)!Team(Current(t), t, q.level) \cap Tiles
    /\ \A u \in q.tiles : round[u] = round[t]

Sent == {t \in Tiles : \E q \in requests : t \in q.tiles}

\* The rounds a tile has entered, and those it has been answered in.
Entered(t)  == round[t] + IF t \in waiting THEN 1 ELSE 0
Answered(t) == round[t] + IF t \in waiting \ Sent THEN 1 ELSE 0

\* Whoever was answered in a round had all his peers in it.
AnswerInv ==
  \A t, u \in Tiles : \A r \in 1..Answered(t) :
    u \in Mesh(N)!Peers(program.patterns[r], t) => r <= Entered(u)

\* As long as a tile's request is in the network none of its peers has been
\* answered in its round.
UnansweredInv ==
  \A t \in Sent : \A u \in Peers(t) : Answered(u) <= round[t]

BarrierInv == TeamInv /\ AnswerInv /\ UnansweredInv

-----------------------------------------------------------------------------
LEMMA Length == ASSUME program \in Programs PROVE Len(program.patterns) \in Nat
BY FSyncAssumption, LenProperties

LEMMA InitInv == Init => IInv
<1> SUFFICES ASSUME Init
             PROVE  IInv
  OBVIOUS
<1>1. Len(program.patterns) \in Nat
  BY Length DEF Init
<1> QED
  BY <1>1 DEF Init, IInv, TypeOK, StateInv, OnceInv

LEMMA CallInv ==
  ASSUME IInv, NEW t \in Tiles, Call(t)
  PROVE  IInv'
<1>1. /\ Tiles' = Tiles /\ program' = program /\ round' = round /\ woken' = woken
      /\ t \notin waiting /\ waiting' = waiting \cup {t} /\ event' = event \ {t}
      /\ round[t] < Len(program.patterns)
  BY DEF Call, Tiles
<1>2. state[t] = "IDLE"
  BY <1>1 DEF IInv, StateInv
<1> DEFINE q == Request(Mesh(N)!fsync_mm(Current(t), t), {t}, 0)
<1>3. /\ state' = [state EXCEPT ![t] = "WAIT"] /\ requests' = requests \cup {q}
      /\ q.tiles = {t}
  BY <1>2 DEF Call, Request
<1> HIDE DEF q
<1>4. t \notin woken /\ \A p \in requests : t \notin p.tiles
  BY <1>2 DEF IInv, TypeOK
<1>5. /\ state' \in [Tiles -> {"IDLE", "WAIT", "DONE"}] /\ state'[t] = "WAIT"
      /\ \A u \in Tiles \ {t} : state'[u] = state[u]
  BY <1>3 DEF IInv, TypeOK
<1>6. TypeOK'
  <2>1. woken' \subseteq {u \in Tiles : state'[u] = "WAIT"}
    BY <1>1, <1>5 DEF IInv, TypeOK
  <2>2. \A p \in requests' : p.tiles \subseteq {u \in Tiles : state'[u] = "WAIT"}
    BY <1>3, <1>5 DEF IInv, TypeOK
  <2> QED
    BY <1>1, <1>5, <2>1, <2>2 DEF IInv, TypeOK
<1>7. StateInv'
  BY <1>1, <1>5 DEF IInv, StateInv
<1>8. OnceInv'
  BY <1>1, <1>3, <1>4 DEF IInv, OnceInv
<1> QED
  BY <1>6, <1>7, <1>8 DEF IInv

LEMMA WakeInv ==
  ASSUME IInv, NEW t \in Tiles, Wake(t)
  PROVE  IInv'
<1>1. /\ Tiles' = Tiles /\ program' = program /\ round' = round /\ requests' = requests
      /\ waiting' = waiting /\ event' = event /\ woken' = woken \ {t} /\ t \in woken
      /\ state[t] = "WAIT" /\ state' = [state EXCEPT ![t] = "DONE"]
  BY DEF Wake, Tiles
<1>2. /\ state' \in [Tiles -> {"IDLE", "WAIT", "DONE"}] /\ state'[t] = "DONE"
      /\ \A u \in Tiles \ {t} : state'[u] = state[u]
  BY <1>1 DEF IInv, TypeOK
<1>3. \A p \in requests : t \notin p.tiles
  BY <1>1 DEF IInv, OnceInv
<1>4. TypeOK'
  <2>1. \A p \in requests : p.tiles \subseteq {u \in Tiles : state'[u] = "WAIT"}
    BY <1>2, <1>3 DEF IInv, TypeOK
  <2>2. woken' \subseteq {u \in Tiles : state'[u] = "WAIT"}
    BY <1>1, <1>2 DEF IInv, TypeOK
  <2> QED
    BY <1>1, <1>2, <2>1, <2>2 DEF IInv, TypeOK
<1>5. StateInv'
  BY <1>1, <1>2 DEF IInv, StateInv
<1>6. OnceInv'
  BY <1>1 DEF IInv, OnceInv
<1> QED
  BY <1>4, <1>5, <1>6 DEF IInv

LEMMA DoneInv ==
  ASSUME IInv, NEW t \in Tiles, Done(t)
  PROVE  IInv'
<1>1. /\ Tiles' = Tiles /\ program' = program /\ round' = round /\ requests' = requests
      /\ waiting' = waiting /\ event' = event \cup {t} /\ woken' = woken
      /\ state[t] = "DONE" /\ state' = [state EXCEPT ![t] = "IDLE"]
  BY DEF Done, Tiles
<1>2. /\ state' \in [Tiles -> {"IDLE", "WAIT", "DONE"}] /\ state'[t] = "IDLE"
      /\ \A u \in Tiles \ {t} : state'[u] = state[u]
  BY <1>1 DEF IInv, TypeOK
<1>3. TypeOK'
  <2>1. \A p \in requests : p.tiles \subseteq {u \in Tiles : state'[u] = "WAIT"}
    BY <1>1, <1>2 DEF IInv, TypeOK
  <2>2. woken \subseteq {u \in Tiles : state'[u] = "WAIT"}
    BY <1>1, <1>2 DEF IInv, TypeOK
  <2>3. event' \subseteq waiting'
    BY <1>1 DEF IInv, StateInv
  <2> QED
    BY <1>1, <1>2, <2>1, <2>2, <2>3 DEF IInv, TypeOK
<1>4. StateInv'
  BY <1>1, <1>2 DEF IInv, StateInv
<1>5. OnceInv'
  BY <1>1 DEF IInv, OnceInv
<1> QED
  BY <1>3, <1>4, <1>5 DEF IInv

LEMMA ReturnInv ==
  ASSUME IInv, NEW t \in Tiles, Return(t)
  PROVE  IInv'
<1>1. /\ Tiles' = Tiles /\ program' = program /\ requests' = requests
      /\ t \in waiting /\ t \in event /\ waiting' = waiting \ {t} /\ event' = event \ {t}
      /\ state' = state /\ woken' = woken /\ round' = [round EXCEPT ![t] = @ + 1]
  BY DEF Return, Tiles
<1>2. Len(program.patterns) \in Nat
  BY Length DEF IInv, TypeOK
<1>3. /\ round' \in [Tiles -> 0..Len(program.patterns)]
      /\ \A u \in Tiles \ {t} : round'[u] = round[u]
  <2>1. round[t] \in 0..Len(program.patterns) /\ round[t] < Len(program.patterns)
    BY <1>1 DEF IInv, TypeOK, StateInv
  <2>2. round[t] + 1 \in 0..Len(program.patterns)
    BY <1>2, <2>1
  <2> QED
    BY <1>1, <2>2 DEF IInv, TypeOK
<1>4. state[t] = "IDLE"
  BY <1>1 DEF IInv, StateInv
<1>5. TypeOK' /\ OnceInv'
  BY <1>1, <1>3 DEF IInv, TypeOK, OnceInv
<1>6. StateInv'
  <2>1. waiting \subseteq Tiles
    BY DEF IInv, TypeOK
  <2> QED
    BY <1>1, <1>3, <1>4, <2>1 DEF IInv, StateInv
<1> QED
  BY <1>5, <1>6 DEF IInv

\* Two requests that meet are replaced by one for all their tiles, or by as
\* many wakes.
LEMMA JoinInv ==
  ASSUME IInv, NEW a \in requests, NEW b \in requests, Join(a, b)
  PROVE  IInv'
<1> DEFINE all == a.tiles \cup b.tiles
           q == Request(a.pattern, all, a.level)
<1>1. /\ Tiles' = Tiles /\ program' = program /\ round' = round
      /\ waiting' = waiting /\ event' = event /\ state' = state
  BY DEF Join, Tiles
<1>2. q.tiles = all
  BY DEF Request
<1>3. \/ requests' = requests \ {a, b} /\ woken' = woken \cup all
      \/ requests' = (requests \ {a, b}) \cup {q} /\ woken' = woken
  BY DEF Join
<1>4. all \subseteq {t \in Tiles : state[t] = "WAIT"} /\ all \cap woken = {}
  BY DEF IInv, TypeOK, OnceInv
<1>5. \A p \in requests \ {a, b} : p.tiles \cap all = {}
  BY DEF IInv, OnceInv
<1> HIDE DEF q, all
<1>6. TypeOK'
  <2>1. woken' \subseteq {t \in Tiles : state[t] = "WAIT"}
    BY <1>3, <1>4 DEF IInv, TypeOK
  <2>2. \A p \in requests' : p.tiles \subseteq {t \in Tiles : state[t] = "WAIT"}
    BY <1>2, <1>3, <1>4 DEF IInv, TypeOK
  <2> QED
    BY <1>1, <2>1, <2>2 DEF IInv, TypeOK
<1>7. StateInv'
  BY <1>1 DEF IInv, StateInv
<1>8. OnceInv'
  BY <1>2, <1>3, <1>4, <1>5 DEF IInv, OnceInv
<1> QED
  BY <1>6, <1>7, <1>8 DEF IInv

\* A block that is not idle belongs to a tile that waits and has no event yet;
\* the requests in the network and the wakes are of different tiles.
THEOREM InvariantHolds == Spec => []IInv
<1>1. IInv /\ [Next]_vars => IInv'
  <2> SUFFICES ASSUME IInv, [Next]_vars
               PROVE  IInv'
    OBVIOUS
  <2>1. CASE UNCHANGED vars
    BY <2>1 DEF vars, IInv, TypeOK, StateInv, OnceInv, Tiles
  <2> QED
    BY <2>1, CallInv, WakeInv, DoneInv, ReturnInv, JoinInv DEF Next
<1> QED
  BY <1>1, InitInv, PTL DEF Spec

\* Types: a wake and every request in the network belong to a tile whose
\* control block waits for it.
THEOREM TypeCorrect == Spec => []TypeOK
<1>1. IInv => TypeOK
  BY DEF IInv
<1> QED
  BY <1>1, InvariantHolds, PTL

\* No trigger is ignored, on any mesh and for any sequence of patterns: the
\* wait for the event is enough for the control block to be idle again.
THEOREM TriggersAreTaken == Spec => TriggerTaken
<1>1. IInv => [\A t \in Tiles : Call(t) => state[t] = "IDLE"]_vars
  BY DEF IInv, StateInv, Call
<1> QED
  BY <1>1, InvariantHolds, PTL DEF TriggerTaken

-----------------------------------------------------------------------------
(* What the geometry gives: a team is a class of its tiles, and a level    *)
(* that is asked for is reached in order.                                  *)

LEMMA LowestIn ==
  ASSUME NEW n, NEW S \in SUBSET Nat, S # {}
  PROVE  Mesh(n)!Lowest(S) \in S
<1> DEFINE R == {pair \in Nat \X Nat : pair[1] < pair[2]}
<1>1. IsWellFoundedOn(R, Nat)
  <2>1. OpToRel(<, Nat) = R
    BY DEF OpToRel
  <2> QED
    BY <2>1, NatLessThanWellFounded, Zenon
<1>2. PICK i \in S : \A j \in S : ~(<<j, i>> \in R)
  <2> HIDE DEF R
  <2> QED
    BY <1>1, WFMin
<1>3. ASSUME NEW j \in S
      PROVE  i <= j
  <2>1. i \in Nat /\ j \in Nat
    OBVIOUS
  <2>2. ~(j < i)
    <3>1. <<j, i>> \in Nat \X Nat
      BY <2>1
    <3>2. <<j, i>> \in R => FALSE
      BY <1>2
    <3> QED
      BY <3>1, <3>2
  <2> QED
    BY <2>1, <2>2
<1> QED
  BY <1>3 DEF Mesh!Lowest

LEMMA Levels ==
  ASSUME NEW n, NEW p, NEW l \in Nat
  PROVE  /\ Mesh(n)!Above(p, l) \subseteq Nat
         /\ Mesh(n)!Above(p, l) \subseteq Mesh(n)!Above(p, 0)
         /\ Mesh(n)!Above(p, l) # {}
              => Mesh(n)!Lowest(Mesh(n)!Above(p, l)) \in Mesh(n)!Above(p, 0)
<1>1. /\ Mesh(n)!Above(p, l) \subseteq Nat
      /\ Mesh(n)!Above(p, l) \subseteq Mesh(n)!Above(p, 0)
  BY DEF Mesh!Above
<1> QED
  BY <1>1, LowestIn

LEMMA TeamClass ==
  ASSUME NEW n, Mesh(n)!PeersAgree,
         NEW pattern \in Mesh(n)!Patterns, NEW t \in Mesh(n)!Tiles, NEW l,
         NEW u \in Mesh(n)!Team(pattern, t, l)
  PROVE  /\ u \in Mesh(n)!Peers(pattern, t)
         /\ Mesh(n)!Team(pattern, u, l) = Mesh(n)!Team(pattern, t, l)
<1>1. u \in Mesh(n)!Peers(pattern, t)
  BY DEF Mesh!Team
<1>2. Mesh(n)!fsync_mm(pattern, u) = Mesh(n)!fsync_mm(pattern, t)
  BY <1>1 DEF Mesh!PeersAgree
<1>3. Mesh(n)!Peers(pattern, u) = Mesh(n)!Peers(pattern, t)
  BY <1>1 DEF Mesh!Peers
<1> QED
  BY <1>1, <1>2, <1>3 DEF Mesh!Team

LEMMA PeerClass ==
  ASSUME NEW n, Mesh(n)!PeersAgree,
         NEW pattern \in Mesh(n)!Patterns, NEW t \in Mesh(n)!Tiles,
         NEW u \in Mesh(n)!Peers(pattern, t)
  PROVE  /\ u \in Mesh(n)!Tiles /\ t \in Mesh(n)!Peers(pattern, u)
         /\ Mesh(n)!Peers(pattern, u) = Mesh(n)!Peers(pattern, t)
         /\ Mesh(n)!fsync_mm(pattern, u) = Mesh(n)!fsync_mm(pattern, t)
BY DEF Mesh!Peers, Mesh!PeersAgree

-----------------------------------------------------------------------------
(* The barrier invariant, step by step.                                    *)

\* A tile whose request is in the network waits, in a round of the program.
LEMMA Senders ==
  ASSUME IInv, NEW t \in Tiles, t \in Sent \/ t \in waiting
  PROVE  /\ t \in waiting /\ t \in Mesh(N)!Tiles
         /\ Current(t) \in Mesh(N)!Patterns
         /\ round[t] \in Nat /\ round[t] < Len(program.patterns)
<1>1. t \in waiting
  BY DEF IInv, TypeOK, StateInv, Sent
<1>2. Tiles \subseteq Mesh(N)!Tiles
  BY FSyncAssumption DEF IInv, TypeOK, Tiles, N, Mesh!Tiles
<1>3. round[t] \in Nat /\ round[t] < Len(program.patterns)
  BY <1>1, Length DEF IInv, TypeOK, StateInv
<1>4. program.patterns \in Seq(Mesh(N)!Patterns)
  BY FSyncAssumption DEF IInv, TypeOK, Mesh!Patterns
<1>5. Current(t) \in Mesh(N)!Patterns
  BY <1>3, <1>4, ElementOfSeq DEF Current
<1> QED
  BY <1>1, <1>2, <1>3, <1>5

LEMMA Rounds ==
  ASSUME IInv, NEW t \in Tiles
  PROVE  /\ round[t] \in Nat /\ Entered(t) \in Nat /\ Answered(t) \in Nat
         /\ t \in waiting => Entered(t) = round[t] + 1
         /\ t \notin waiting => Entered(t) = round[t]
         /\ t \in waiting \ Sent => Answered(t) = round[t] + 1
         /\ t \notin waiting \ Sent => Answered(t) = round[t]
<1>1. round[t] \in Nat
  BY Length DEF IInv, TypeOK
<1> QED
  BY <1>1 DEF Entered, Answered

LEMMA InitBarrier ==
  ASSUME Init
  PROVE  BarrierInv
<1>1. requests = {} /\ Sent = {} /\ \A t \in Tiles : Answered(t) = 0
  BY DEF Init, Sent, Answered
<1> QED
  BY <1>1 DEF BarrierInv, TeamInv, AnswerInv, UnansweredInv

\* Steps that the program and the network do not see.
LEMMA TileBarrier ==
  ASSUME IInv, BarrierInv, UNCHANGED <<program, round, waiting, requests>>
  PROVE  BarrierInv'
<1>1. /\ N' = N /\ Tiles' = Tiles
      /\ \A t : Current(t)' = Current(t)
  BY DEF N, Tiles, Current
<1>2. /\ Sent' = Sent
      /\ \A t : Entered(t)' = Entered(t) /\ Answered(t)' = Answered(t) /\ Peers(t)' = Peers(t)
  BY <1>1 DEF Sent, Entered, Answered, Peers
<1>3. TeamInv'
  BY <1>1 DEF BarrierInv, TeamInv, Above
<1>4. AnswerInv' /\ UnansweredInv'
  BY <1>1, <1>2 DEF BarrierInv, AnswerInv, UnansweredInv
<1> QED
  BY <1>3, <1>4 DEF BarrierInv

\* A tile that calls fsync_mm has not been in this round, so none of its peers
\* has been answered in it.
LEMMA CallBarrier ==
  ASSUME IInv, BarrierInv, Mesh(N)!Geometric, NEW t \in Tiles, Call(t)
  PROVE  BarrierInv'
<1> DEFINE p == Mesh(N)!fsync_mm(Current(t), t)
           q == Request(p, {t}, 0)
<1>1. /\ UNCHANGED <<program, round>> /\ t \notin waiting /\ waiting' = waiting \cup {t}
      /\ round[t] < Len(program.patterns)
  BY DEF Call
<1>2. state[t] = "IDLE"
  BY <1>1 DEF IInv, StateInv
<1>3. requests' = requests \cup {q}
  BY <1>2 DEF Call
<1>4. /\ N' = N /\ Tiles' = Tiles /\ \A u : Current(u)' = Current(u) /\ Peers(u)' = Peers(u)
  BY <1>1 DEF N, Tiles, Current, Peers
<1>5. Current(t) \in Mesh(N)!Patterns /\ t \in Mesh(N)!Tiles
  <2>1. IInv' /\ t \in waiting' /\ t \in Tiles'
    BY <1>1, <1>4, CallInv
  <2>2. program.patterns \in Seq(Mesh(N)!Patterns)
    BY FSyncAssumption DEF IInv, TypeOK, Mesh!Patterns
  <2>3. round[t] \in Nat /\ Len(program.patterns) \in Nat
    BY Length DEF IInv, TypeOK
  <2>4. Current(t) \in Mesh(N)!Patterns
    BY <1>1, <2>2, <2>3, ElementOfSeq DEF Current
  <2>5. t \in Mesh(N)!Tiles
    BY FSyncAssumption DEF IInv, TypeOK, Tiles, N, Mesh!Tiles
  <2> QED
    BY <2>4, <2>5
<1>6. /\ q.tiles = {t} /\ q.pattern = p /\ q.level \in Above(p, 0)
      /\ q.tiles = Mesh(N)!Team(Current(t), t, q.level) \cap Tiles
  <2>1. q.tiles = {t} /\ q.pattern = p /\ q.level = Mesh(N)!Lowest(Mesh(N)!Above(p, 0))
    BY DEF Request, Above
  <2>2. Mesh(N)!Above(p, 0) # {}
    BY <1>5 DEF Mesh!Geometric, Mesh!PeersAgree
  <2>3. q.level \in Above(p, 0)
    BY <2>1, <2>2, Levels DEF Above
  <2>4. Mesh(N)!Team(Current(t), t, q.level) = {t}
    BY <1>5, <2>1 DEF Mesh!Geometric, Mesh!TeamsJoin
  <2> QED
    BY <2>1, <2>3, <2>4
<1> HIDE DEF q
<1>7. t \notin Sent /\ Sent' = Sent \cup {t}
  <2>1. t \notin Sent
    BY <1>1, Senders
  <2> QED
    BY <1>3, <1>4, <1>6, <2>1 DEF Sent
<1>8. \A u \in Tiles : /\ Answered(u)' = Answered(u) /\ Entered(u) <= Entered(u)'
                       /\ Entered(u)' \in Nat
  <2> SUFFICES ASSUME NEW u \in Tiles
               PROVE  /\ Answered(u)' = Answered(u) /\ Entered(u) <= Entered(u)'
                      /\ Entered(u)' \in Nat
    OBVIOUS
  <2>1. round'[u] = round[u] /\ round[u] \in Nat
    BY <1>1, Rounds
  <2> QED
    BY <1>1, <1>7, <2>1 DEF Answered, Entered
<1>9. TeamInv'
  <2> SUFFICES ASSUME NEW w \in requests', NEW v \in w.tiles
               PROVE  /\ w.pattern = Mesh(N)!fsync_mm(Current(v), v)
                      /\ w.level \in Above(w.pattern, 0)
                      /\ w.tiles = Mesh(N)!Team(Current(v), v, w.level) \cap Tiles
                      /\ \A u \in w.tiles : round[u] = round[v]
    BY <1>1, <1>4 DEF TeamInv, Above
  <2>1. CASE w = q
    BY <1>6, <2>1
  <2>2. CASE w # q
    BY <1>3, <2>2 DEF BarrierInv, TeamInv
  <2> QED
    BY <2>1, <2>2
<1>10. AnswerInv'
  <2> SUFFICES ASSUME NEW v \in Tiles, NEW u \in Tiles, NEW r \in 1..Answered(v),
                      u \in Mesh(N)!Peers(program.patterns[r], v)
               PROVE  r <= Entered(u)'
    BY <1>1, <1>4, <1>8 DEF AnswerInv
  <2>1. r <= Entered(u)
    BY DEF BarrierInv, AnswerInv
  <2>2. Entered(u) \in Nat /\ Answered(v) \in Nat
    BY Rounds
  <2> QED
    BY <1>8, <2>1, <2>2
<1>11. UnansweredInv'
  <2>1. ASSUME NEW u \in Peers(t)
        PROVE  Answered(u) <= round[t]
    <3>1. /\ u \in Tiles /\ t \in Mesh(N)!Peers(program.patterns[round[t] + 1], u)
      BY <1>5, PeerClass DEF Peers, Current, Mesh!Geometric
    <3>2. Entered(t) = round[t] /\ round[t] \in Nat /\ Answered(u) \in Nat
      BY <1>1, <3>1, Rounds
    <3>3. ASSUME Answered(u) > round[t]
          PROVE  FALSE
      <4>1. round[t] + 1 \in 1..Answered(u)
        BY <3>2, <3>3
      <4>2. round[t] + 1 <= Entered(t)
        BY <3>1, <4>1 DEF BarrierInv, AnswerInv
      <4> QED
        BY <3>2, <4>2
    <3> QED
      BY <3>2, <3>3
  <2>2. ASSUME NEW v \in Sent', NEW u \in Peers(v)
        PROVE  Answered(u) <= round[v]
    BY <1>7, <2>1, <2>2 DEF BarrierInv, UnansweredInv
  <2> QED
    BY <1>1, <1>4, <1>8, <2>2 DEF UnansweredInv, Peers
<1> QED
  BY <1>9, <1>10, <1>11 DEF BarrierInv

\* A tile that returns has been answered: it only turns to its next round.
LEMMA ReturnBarrier ==
  ASSUME IInv, BarrierInv, NEW t \in Tiles, Return(t)
  PROVE  BarrierInv'
<1>1. /\ UNCHANGED <<program, requests>> /\ t \in waiting /\ t \in event
      /\ waiting' = waiting \ {t} /\ round' = [round EXCEPT ![t] = @ + 1]
  BY DEF Return
<1>2. t \notin Sent
  <2>1. state[t] = "IDLE"
    BY <1>1 DEF IInv, StateInv
  <2> QED
    BY <2>1 DEF IInv, TypeOK, Sent
<1>3. N' = N /\ Tiles' = Tiles /\ Sent' = Sent
  BY <1>1 DEF N, Tiles, Sent
<1>4. \A u \in Tiles : round[u] \in Nat /\ round'[u] = IF u = t THEN round[t] + 1 ELSE round[u]
  BY <1>1, Rounds DEF IInv, TypeOK
<1>5. \A u \in Tiles : Entered(u)' = Entered(u) /\ Answered(u)' = Answered(u)
  BY <1>1, <1>2, <1>3, <1>4 DEF Entered, Answered
<1>6. Sent \subseteq Tiles /\ \A u \in Sent : /\ round'[u] = round[u]
                                             /\ Current(u)' = Current(u)
                                             /\ Peers(u)' = Peers(u)
  BY <1>1, <1>2, <1>3, <1>4 DEF Sent, Current, Peers
<1>7. TeamInv'
  <2>1. \A w \in requests : w.tiles \subseteq Sent
    BY DEF IInv, TypeOK, Sent
  <2> QED
    BY <1>1, <1>3, <1>6, <2>1 DEF BarrierInv, TeamInv, Above
<1>8. AnswerInv' /\ UnansweredInv'
  <2>1. \A u \in Sent : Peers(u) \subseteq Tiles
    BY DEF Peers
  <2>2. AnswerInv'
    BY <1>1, <1>3, <1>5 DEF BarrierInv, AnswerInv
  <2>3. UnansweredInv'
    BY <1>3, <1>5, <1>6, <2>1 DEF BarrierInv, UnansweredInv
  <2> QED
    BY <2>2, <2>3
<1> QED
  BY <1>7, <1>8 DEF BarrierInv

\* Requests that meet are of peers in the same round, and together they are
\* the team of the next node or all the peers.
LEMMA Meeting ==
  ASSUME IInv, BarrierInv, Mesh(N)!Geometric,
         NEW a \in requests, NEW b \in requests, Join(a, b)
  PROVE  \E t \in a.tiles :
           /\ a.level \in Above(a.pattern, 0)
           /\ \A v \in a.tiles \cup b.tiles :
                /\ round[v] = round[t]
                /\ a.pattern = Mesh(N)!fsync_mm(Current(t), v)
                /\ v \in Mesh(N)!Peers(Current(t), t)
           /\ a.tiles \cup b.tiles =
                Tiles \cap IF Above(a.pattern, a.level) = {}
                           THEN Mesh(N)!Peers(Current(t), t)
                           ELSE Mesh(N)!Team(Current(t), t,
                                             Mesh(N)!Lowest(Above(a.pattern, a.level)))
<1> DEFINE p == a.pattern
           l == a.level
<1>1. /\ b.pattern = p /\ b.level = l
      /\ \E t \in a.tiles, u \in b.tiles : Mesh(N)!Siblings(Mesh(N)!Port(p), l, t, u)
  BY DEF Join, Meet
<1>2. PICK t \in a.tiles, u \in b.tiles : Mesh(N)!Siblings(Mesh(N)!Port(p), l, t, u)
  BY <1>1
<1>3. t \in Sent /\ u \in Sent /\ t \in Tiles /\ u \in Tiles
  BY DEF IInv, TypeOK, Sent
<1>4. /\ Current(t) \in Mesh(N)!Patterns /\ Current(u) \in Mesh(N)!Patterns
      /\ t \in Mesh(N)!Tiles /\ u \in Mesh(N)!Tiles
  BY <1>3, Senders
<1>5. /\ p = Mesh(N)!fsync_mm(Current(t), t) /\ p = Mesh(N)!fsync_mm(Current(u), u)
      /\ l \in Mesh(N)!Above(p, 0)
      /\ a.tiles = Mesh(N)!Team(Current(t), t, l) \cap Tiles
      /\ b.tiles = Mesh(N)!Team(Current(u), u, l) \cap Tiles
      /\ \A v \in a.tiles : round[v] = round[t]
      /\ \A v \in b.tiles : round[v] = round[u]
  BY <1>1 DEF BarrierInv, TeamInv, Above
<1>6. Mesh(N)!Siblings(Mesh(N)!Port(p), l, u, t)
  BY <1>2 DEF Mesh!Siblings
<1>7. /\ u \in Mesh(N)!Peers(Current(t), t)
      /\ t \in Mesh(N)!Peers(Current(u), u)
  BY <1>2, <1>4, <1>5, <1>6 DEF Mesh!Geometric, Mesh!OnlyPeersMeet
<1>8. round[u] = round[t]
  <2>1. Answered(u) <= round[t] /\ Answered(t) <= round[u]
    BY <1>3, <1>7 DEF BarrierInv, UnansweredInv, Peers
  <2>2. /\ Answered(u) = round[u] /\ Answered(t) = round[t]
        /\ round[u] \in Nat /\ round[t] \in Nat
    BY <1>3, Rounds
  <2> QED
    BY <2>1, <2>2
<1>9. Current(u) = Current(t)
  BY <1>8 DEF Current
<1> HIDE DEF p, l
<1>10. /\ \A v \in Mesh(N)!Team(Current(t), t, l) : v \in Mesh(N)!Peers(Current(t), t)
       /\ \A v \in Mesh(N)!Team(Current(t), u, l) : v \in Mesh(N)!Peers(Current(t), t)
       /\ \A v \in Mesh(N)!Peers(Current(t), t) : Mesh(N)!fsync_mm(Current(t), v) = p
  <2>1. Mesh(N)!PeersAgree
    BY DEF Mesh!Geometric
  <2>2. \A v \in Mesh(N)!Team(Current(t), t, l) : v \in Mesh(N)!Peers(Current(t), t)
    BY DEF Mesh!Team
  <2>3. \A v \in Mesh(N)!Team(Current(t), u, l) : v \in Mesh(N)!Peers(Current(t), u)
    BY DEF Mesh!Team
  <2>4. Mesh(N)!Peers(Current(t), u) = Mesh(N)!Peers(Current(t), t)
    BY <1>4, <1>7, <2>1, PeerClass
  <2>5. \A v \in Mesh(N)!Peers(Current(t), t) :
          Mesh(N)!fsync_mm(Current(t), v) = Mesh(N)!fsync_mm(Current(t), t)
    BY <1>4, <2>1, PeerClass
  <2> QED
    BY <1>5, <2>2, <2>3, <2>4, <2>5
<1>11. Mesh(N)!Team(Current(t), t, l) \cup Mesh(N)!Team(Current(t), u, l) =
         IF Mesh(N)!Above(p, l) = {}
         THEN Mesh(N)!Peers(Current(t), t)
         ELSE Mesh(N)!Team(Current(t), t, Mesh(N)!Lowest(Mesh(N)!Above(p, l)))
  <2> DEFINE c == Current(t)
             f == Mesh(N)!fsync_mm(c, t)
  <2>1. \A k \in Mesh(N)!Above(f, 0), v \in Mesh(N)!Peers(c, t) :
          Mesh(N)!Siblings(Mesh(N)!Port(f), k, t, v) =>
            Mesh(N)!Team(c, t, k) \cup Mesh(N)!Team(c, v, k) =
              IF Mesh(N)!Above(f, k) = {}
              THEN Mesh(N)!Peers(c, t)
              ELSE Mesh(N)!Team(c, t, Mesh(N)!Lowest(Mesh(N)!Above(f, k)))
    BY <1>4 DEF Mesh!Geometric, Mesh!TeamsJoin
  <2>2. p = f /\ l \in Mesh(N)!Above(f, 0) /\ u \in Mesh(N)!Peers(c, t)
    BY <1>5, <1>7
  <2> HIDE DEF c, f
  <2>3. Mesh(N)!Siblings(Mesh(N)!Port(f), l, t, u)
    BY <1>2, <2>2
  <2>4. Mesh(N)!Team(c, t, l) \cup Mesh(N)!Team(c, u, l) =
          IF Mesh(N)!Above(f, l) = {}
          THEN Mesh(N)!Peers(c, t)
          ELSE Mesh(N)!Team(c, t, Mesh(N)!Lowest(Mesh(N)!Above(f, l)))
    BY <2>1, <2>2, <2>3
  <2> QED
    BY <2>2, <2>4 DEF c
<1>12. a.tiles \cup b.tiles =
         Tiles \cap IF Mesh(N)!Above(p, l) = {}
                    THEN Mesh(N)!Peers(Current(t), t)
                    ELSE Mesh(N)!Team(Current(t), t, Mesh(N)!Lowest(Mesh(N)!Above(p, l)))
  BY <1>5, <1>9, <1>11
<1>13. \A v \in a.tiles \cup b.tiles :
         /\ round[v] = round[t]
         /\ p = Mesh(N)!fsync_mm(Current(t), v)
         /\ v \in Mesh(N)!Peers(Current(t), t)
  BY <1>5, <1>8, <1>9, <1>10
<1> QED
  BY <1>5, <1>12, <1>13 DEF Above, p, l

\* Requests that meet below their last level go on as one.
LEMMA JoinOnBarrier ==
  ASSUME IInv, BarrierInv, Mesh(N)!Geometric,
         NEW a \in requests, NEW b \in requests, Join(a, b),
         Above(a.pattern, a.level) # {}
  PROVE  BarrierInv'
<1> DEFINE all == a.tiles \cup b.tiles
           q == Request(a.pattern, all, a.level)
<1>1. UNCHANGED <<program, round, waiting>> /\ requests' = (requests \ {a, b}) \cup {q}
  BY DEF Join
<1>2. /\ N' = N /\ Tiles' = Tiles /\ \A u : Current(u)' = Current(u) /\ Peers(u)' = Peers(u)
  BY <1>1 DEF N, Tiles, Current, Peers
<1>3. PICK t \in a.tiles :
        /\ a.level \in Above(a.pattern, 0)
        /\ \A v \in all : /\ round[v] = round[t]
                          /\ a.pattern = Mesh(N)!fsync_mm(Current(t), v)
                          /\ v \in Mesh(N)!Peers(Current(t), t)
        /\ all = Tiles \cap Mesh(N)!Team(Current(t), t,
                                         Mesh(N)!Lowest(Above(a.pattern, a.level)))
  BY Meeting
<1>4. /\ q.tiles = all /\ q.pattern = a.pattern
      /\ q.level = Mesh(N)!Lowest(Above(a.pattern, a.level))
  BY DEF Request
<1>5. q.level \in Above(a.pattern, 0)
  <2>1. a.level \in Nat
    BY <1>3, Levels DEF Above
  <2> QED
    BY <1>4, <2>1, Levels DEF Above
<1> HIDE DEF q
<1>6. Sent' = Sent
  BY <1>1, <1>2, <1>4 DEF Sent
<1> HIDE DEF all
<1>7. Current(t) \in Mesh(N)!Patterns /\ t \in Mesh(N)!Tiles /\ t \in Tiles
  <2>1. t \in Tiles /\ t \in Sent
    BY DEF IInv, TypeOK, Sent
  <2> QED
    BY <2>1, Senders
<1>8. \A v \in all :
        /\ Current(v) = Current(t)
        /\ all = Tiles \cap Mesh(N)!Team(Current(t), v, q.level)
  <2> SUFFICES ASSUME NEW v \in all
               PROVE  /\ Current(v) = Current(t)
                      /\ all = Tiles \cap Mesh(N)!Team(Current(t), v, q.level)
    OBVIOUS
  <2>1. Current(v) = Current(t)
    BY <1>3 DEF Current
  <2>2. v \in Mesh(N)!Team(Current(t), t, q.level)
    BY <1>3, <1>4
  <2>3. Mesh(N)!Team(Current(t), v, q.level) = Mesh(N)!Team(Current(t), t, q.level)
    BY <1>7, <2>2, TeamClass DEF Mesh!Geometric
  <2> QED
    BY <1>3, <1>4, <2>1, <2>3
<1>9. TeamInv'
  <2> SUFFICES ASSUME NEW w \in requests', NEW v \in w.tiles
               PROVE  /\ w.pattern = Mesh(N)!fsync_mm(Current(v), v)
                      /\ w.level \in Above(w.pattern, 0)
                      /\ w.tiles = Mesh(N)!Team(Current(v), v, w.level) \cap Tiles
                      /\ \A u \in w.tiles : round[u] = round[v]
    BY <1>1, <1>2 DEF TeamInv, Above
  <2>1. CASE w = q
    BY <1>3, <1>4, <1>5, <1>8, <2>1
  <2>2. CASE w # q
    BY <1>1, <2>2 DEF BarrierInv, TeamInv
  <2> QED
    BY <2>1, <2>2
<1>10. AnswerInv' /\ UnansweredInv'
  <2>1. \A u : Entered(u)' = Entered(u) /\ Answered(u)' = Answered(u)
    BY <1>1, <1>6 DEF Entered, Answered
  <2> QED
    BY <1>1, <1>2, <1>6, <2>1 DEF BarrierInv, AnswerInv, UnansweredInv
<1> QED
  BY <1>9, <1>10 DEF BarrierInv

\* Requests that meet at their last level are of all the peers, who are all in
\* the round that ends; those that stay behind are of other rounds or groups.
LEMMA JoinEndBarrier ==
  ASSUME IInv, BarrierInv, Mesh(N)!Geometric,
         NEW a \in requests, NEW b \in requests, Join(a, b),
         Above(a.pattern, a.level) = {}
  PROVE  BarrierInv'
<1> DEFINE all == a.tiles \cup b.tiles
<1>1. UNCHANGED <<program, round, waiting>> /\ requests' = requests \ {a, b}
  BY DEF Join
<1>2. /\ N' = N /\ Tiles' = Tiles /\ \A u : Current(u)' = Current(u) /\ Peers(u)' = Peers(u)
  BY <1>1 DEF N, Tiles, Current, Peers
<1>3. PICK t \in a.tiles :
        /\ \A v \in all : round[v] = round[t] /\ v \in Mesh(N)!Peers(Current(t), t)
        /\ all = Tiles \cap Mesh(N)!Peers(Current(t), t)
  BY Meeting
<1>4. Sent' = Sent \ all
  <2>1. \A w \in requests \ {a, b} : w.tiles \cap all = {}
    BY DEF IInv, OnceInv
  <2> QED
    BY <1>1, <1>2, <2>1 DEF Sent
<1>5. all \subseteq Sent /\ t \in all /\ Sent \subseteq Tiles
  BY DEF IInv, TypeOK, Sent
<1> HIDE DEF all
<1>6. Current(t) \in Mesh(N)!Patterns /\ t \in Mesh(N)!Tiles /\ Mesh(N)!PeersAgree
  BY <1>5, Senders DEF Mesh!Geometric
<1>7. \A v \in Tiles :
        /\ round[v] \in Nat /\ Entered(v)' = Entered(v) /\ Entered(v) \in Nat
        /\ v \in all => /\ Answered(v) = round[t] /\ Answered(v)' = round[t] + 1
                        /\ Entered(v) = round[t] + 1
        /\ v \notin all => Answered(v)' = Answered(v)
  <2> SUFFICES ASSUME NEW v \in Tiles
               PROVE  /\ round[v] \in Nat /\ Entered(v)' = Entered(v) /\ Entered(v) \in Nat
                      /\ v \in all => /\ Answered(v) = round[t]
                                      /\ Answered(v)' = round[t] + 1
                                      /\ Entered(v) = round[t] + 1
                      /\ v \notin all => Answered(v)' = Answered(v)
    OBVIOUS
  <2>1. round[v] \in Nat /\ Entered(v) \in Nat /\ Entered(v)' = Entered(v)
    BY <1>1, Rounds DEF Entered
  <2>2. CASE v \in all
    <3>1. v \in Sent /\ v \in waiting /\ round[v] = round[t] /\ v \notin Sent'
      BY <1>3, <1>4, <1>5, <2>2, Senders
    <3> QED
      BY <1>1, <2>1, <2>2, <3>1 DEF Entered, Answered
  <2>3. CASE v \notin all
    <3>1. v \in Sent' <=> v \in Sent
      BY <1>4, <2>3
    <3> QED
      BY <1>1, <2>1, <2>3, <3>1 DEF Answered
  <2> QED
    BY <2>1, <2>2, <2>3
<1>8. TeamInv'
  BY <1>1, <1>2 DEF BarrierInv, TeamInv, Above
<1>9. AnswerInv'
  <2> SUFFICES ASSUME NEW v \in Tiles, NEW u \in Tiles, NEW r \in 1..Answered(v)',
                      u \in Mesh(N)!Peers(program.patterns[r], v)
               PROVE  r <= Entered(u)
    BY <1>1, <1>2, <1>7 DEF AnswerInv
  <2>1. CASE r \in 1..Answered(v)
    BY <2>1 DEF BarrierInv, AnswerInv
  <2>2. CASE r \notin 1..Answered(v)
    <3>1. v \in all /\ r = round[t] + 1
      <4>1. r \in Nat /\ 1 <= r /\ r <= Answered(v)' /\ round[t] \in Nat /\ Answered(v) \in Nat
        BY <1>5, <1>7, Rounds
      <4>2. ~(r <= Answered(v))
        BY <2>2, <4>1
      <4> QED
        BY <1>7, <4>1, <4>2
    <3>2. u \in Mesh(N)!Peers(Current(t), v)
      BY <3>1 DEF Current
    <3>3. v \in Mesh(N)!Peers(Current(t), t)
      BY <1>3, <3>1
    <3>4. u \in Mesh(N)!Peers(Current(t), t)
      BY <1>6, <3>2, <3>3, PeerClass
    <3>5. u \in all
      BY <1>3, <3>4
    <3> QED
      BY <1>7, <3>1, <3>5
  <2> QED
    BY <2>1, <2>2
<1>10. UnansweredInv'
  <2> SUFFICES ASSUME NEW w \in Sent \ all, NEW u \in Peers(w)
               PROVE  Answered(u)' <= round[w]
    BY <1>1, <1>2, <1>4 DEF UnansweredInv
  <2>1. /\ w \in Tiles /\ u \in Tiles /\ u \in Mesh(N)!Peers(Current(w), w)
        /\ Answered(u) <= round[w]
        /\ Current(w) \in Mesh(N)!Patterns /\ w \in Mesh(N)!Tiles
    BY <1>5, Senders DEF BarrierInv, UnansweredInv, Peers
  <2>2. CASE u \notin all
    BY <1>7, <2>1, <2>2
  <2>3. CASE u \in all
    <3>1. round[t] # round[w]
      <4> SUFFICES ASSUME round[t] = round[w]
                   PROVE  FALSE
        OBVIOUS
      <4>1. Current(w) = Current(t)
        BY DEF Current
      <4>2. w \in Mesh(N)!Peers(Current(t), u)
        BY <1>6, <2>1, <4>1, PeerClass
      <4>3. u \in Mesh(N)!Peers(Current(t), t)
        BY <1>3, <2>3
      <4>4. w \in Mesh(N)!Peers(Current(t), t)
        BY <1>6, <4>2, <4>3, PeerClass
      <4> QED
        BY <1>3, <2>1, <4>4
    <3>2. Answered(u) = round[t] /\ Answered(u)' = round[t] + 1 /\ round[w] \in Nat
          /\ round[t] \in Nat
      BY <1>5, <1>7, <2>1, <2>3
    <3> QED
      BY <2>1, <3>1, <3>2
  <2> QED
    BY <2>2, <2>3
<1> QED
  BY <1>8, <1>9, <1>10 DEF BarrierInv

-----------------------------------------------------------------------------
(* The barrier that the patterns promise.                                  *)

\* The geometry of the mesh the program runs on.
LEMMA MeshOfProgram ==
  ASSUME \A p \in Programs : Mesh(p.n)!Geometric, program \in Programs
  PROVE  Mesh(N)!Geometric
BY DEF N

LEMMA NextBarrier ==
  ASSUME \A p \in Programs : Mesh(p.n)!Geometric, IInv, BarrierInv, [Next]_vars
  PROVE  BarrierInv'
<1>1. Mesh(N)!Geometric
  BY MeshOfProgram DEF IInv, TypeOK
<1>2. ASSUME NEW t \in Tiles, Wake(t) \/ Done(t)
      PROVE  BarrierInv'
  <2>1. UNCHANGED <<program, round, waiting, requests>>
    BY <1>2 DEF Wake, Done
  <2> QED
    BY <2>1, TileBarrier
<1>3. CASE UNCHANGED vars
  BY <1>3, TileBarrier DEF vars
<1>4. ASSUME NEW a \in requests, NEW b \in requests, Join(a, b)
      PROVE  BarrierInv'
  BY <1>1, <1>4, JoinOnBarrier, JoinEndBarrier
<1> QED
  BY <1>1, <1>2, <1>3, <1>4, CallBarrier, ReturnBarrier DEF Next

\* Requests stand for teams in one round, and nobody is answered in a round
\* before all his peers are in it.
THEOREM TeamsGather ==
  ASSUME \A p \in Programs : Mesh(p.n)!Geometric
  PROVE  Spec => []BarrierInv
<1>1. Init => BarrierInv
  BY InitBarrier
<1>2. IInv /\ BarrierInv /\ [Next]_vars => BarrierInv'
  BY NextBarrier
<1> QED
  BY <1>1, <1>2, InvariantHolds, PTL DEF Spec

LEMMA PromiseInit ==
  ASSUME Init
  PROVE  Promise!Init
BY DEF Init, Promise!Init, Promise!Members

\* Calls enter, returns leave, and nothing else is seen.
LEMMA StepImplements ==
  ASSUME \A p \in Programs : Mesh(p.n)!Geometric, IInv, BarrierInv, [Next]_vars
  PROVE  [Promise!Next]_(Promise!vars)
<1> DEFINE group   == [r \in DOMAIN program.patterns |->
                        [t \in Tiles |-> Mesh(N)!Group(program.patterns[r], t)]]
           entered == [t \in Tiles |-> round[t] + IF t \in waiting THEN 1 ELSE 0]
<1>1. CASE program' = program
  <2>1. group' = group /\ Tiles' = Tiles /\ N' = N
    BY <1>1 DEF Tiles, N
  <2>2. /\ DOMAIN entered = Tiles
        /\ \A t \in Tiles : entered[t] = Entered(t)
    BY DEF Entered
  <2>3. waiting \subseteq Tiles /\ round \in [Tiles -> 0..Len(program.patterns)]
    BY DEF IInv, TypeOK
  <2>4. \A t \in Tiles : round[t] \in Nat
    BY Rounds
  <2>5. ASSUME NEW t \in Tiles, Call(t)
        PROVE  Promise!Enter(t)
    <3>1. t \notin waiting /\ waiting' = waiting \cup {t} /\ round' = round
      BY <2>5 DEF Call
    <3>2. entered[t] = round[t]
      BY <2>4, <3>1
    <3>3. entered' = [entered EXCEPT ![t] = @ + 1]
      <4>1. \A v \in Tiles : round'[v] + (IF v \in waiting' THEN 1 ELSE 0) =
                               IF v = t THEN entered[v] + 1 ELSE entered[v]
        BY <2>4, <3>1
      <4> QED
        BY <2>1, <4>1
    <3> QED
      BY <2>1, <3>1, <3>2, <3>3 DEF Promise!Enter
  <2>6. ASSUME NEW t \in Tiles, Return(t)
        PROVE  Promise!Leave(t)
    <3>1. /\ t \in waiting /\ t \in event /\ waiting' = waiting \ {t}
          /\ round' = [round EXCEPT ![t] = @ + 1]
      BY <2>6 DEF Return
    <3>2. entered[t] = round[t] + 1 /\ round[t] < entered[t]
      BY <2>4, <3>1
    <3>3. entered' = entered
      <4>1. \A v \in Tiles : round'[v] = IF v = t THEN round[v] + 1 ELSE round[v]
        BY <2>3, <3>1
      <4>2. \A v \in Tiles : round'[v] + (IF v \in waiting' THEN 1 ELSE 0) =
                               round[v] + (IF v \in waiting THEN 1 ELSE 0)
        BY <2>4, <3>1, <4>1
      <4> QED
        BY <2>1, <4>2
    <3>4. t \notin Sent
      <4>1. state[t] = "IDLE"
        BY <3>1 DEF IInv, StateInv
      <4> QED
        BY <4>1 DEF IInv, TypeOK, Sent
    <3>5. Answered(t) = round[t] + 1 /\ round[t] < Len(program.patterns)
      BY <3>1, <3>4, Rounds, Senders
    <3>6. Promise!Complete(t)
      <4> SUFFICES ASSUME NEW o \in Tiles, group[round[t] + 1][o] = group[round[t] + 1][t]
                   PROVE  entered[o] >= round[t] + 1
        BY <2>2, <3>2 DEF Promise!Complete, Promise!Members, Promise!Together
      <4>1. round[t] + 1 \in DOMAIN program.patterns
        <5>1. program.patterns \in Seq(Mesh(N)!Patterns)
          BY FSyncAssumption DEF IInv, TypeOK, Mesh!Patterns
        <5> QED
          BY <2>4, <3>5, <5>1
      <4>2. Mesh(N)!Group(Current(t), o) = Mesh(N)!Group(Current(t), t)
        BY <4>1 DEF Current
      <4>3. o \in Mesh(N)!Tiles
        BY FSyncAssumption DEF IInv, TypeOK, Tiles, N, Mesh!Tiles
      <4>4. o \in Mesh(N)!Peers(program.patterns[round[t] + 1], t)
        BY <4>2, <4>3 DEF Mesh!Peers, Current
      <4>5. round[t] + 1 \in 1..Answered(t)
        BY <2>4, <3>5
      <4>6. round[t] + 1 <= Entered(o) /\ Entered(o) \in Nat
        BY <4>4, <4>5, Rounds DEF BarrierInv, AnswerInv
      <4> QED
        BY <2>2, <2>4, <4>6
    <3> QED
      BY <2>1, <3>1, <3>2, <3>3, <3>6 DEF Promise!Leave
  <2>7. ASSUME UNCHANGED <<round, waiting>>
        PROVE  UNCHANGED Promise!vars
    BY <2>1, <2>7 DEF Promise!vars
  <2>8. ASSUME NEW t \in Tiles, Wake(t) \/ Done(t)
        PROVE  UNCHANGED Promise!vars
    BY <2>7, <2>8 DEF Wake, Done
  <2>9. ASSUME NEW a \in requests, NEW b \in requests, Join(a, b)
        PROVE  UNCHANGED Promise!vars
    BY <2>7, <2>9 DEF Join
  <2>10. CASE UNCHANGED vars
    BY <2>7, <2>10 DEF vars
  <2>11. Promise!Members = Tiles
    BY <2>2 DEF Promise!Members
  <2> QED
    BY <2>5, <2>6, <2>8, <2>9, <2>10, <2>11 DEF Next, Promise!Next
<1>2. program' = program
  BY DEF Next, Call, Wake, Done, Return, Join, vars
<1> QED
  BY <1>1, <1>2

\* Each pattern of fsync_mm_api.h is a barrier of the tiles its name says, for
\* any sequence of patterns and any set of tiles, on every mesh whose network
\* and lookups fit each other as Geometric says.
THEOREM PatternsAreBarriers ==
  ASSUME \A p \in Programs : Mesh(p.n)!Geometric
  PROVE  Spec => ImplementsBarrier
<1>1. Init => Promise!Init
  BY PromiseInit
<1>2. IInv /\ BarrierInv /\ [Next]_vars => [Promise!Next]_(Promise!vars)
  BY StepImplements
<1> QED
  BY <1>1, <1>2, InvariantHolds, TeamsGather, PTL DEF ImplementsBarrier, Promise!Safe, Spec
=============================================================================
