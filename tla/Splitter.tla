------------------------------ MODULE Splitter ------------------------------
(***************************************************************************)
(* A 64-bit memory port of the Spatz core complex on two 32-bit ports of   *)
(* the L1 memory (hw/tile/converters/tcdm64_to_dual_tcdm32.sv behind       *)
(* tcdm64_to_dual_hci32.sv, or tcdm64_to_dual_hci32_atomic.sv).            *)
(*                                                                         *)
(* A step is one cycle. Accesses are numbered from 1 in the order of       *)
(* issue; loads and stores are answered alike. The two halves are offered  *)
(* to their banks in every cycle until both are granted in the same one,   *)
(* so a half granted alone is carried out, answered, and offered again.    *)
(***************************************************************************)
EXTENDS Naturals, Sequences

CONSTANTS
  MaxIssue,      \* bound on the number of accesses
  FIFO_DEPTH,
  Kinds,         \* the sets of halves an access may need; {} is a store
                 \* without a byte to store
  Slow           \* the ports of the scalar core: behind their cuts the banks
                 \* answer when they will, otherwise in the cycle after a grant

Halves == {"lo", "hi"}

ASSUME SplitterAssumption ==
  /\ MaxIssue \in Nat /\ FIFO_DEPTH \in Nat \ {0}
  /\ Kinds \subseteq SUBSET Halves /\ Slow \in BOOLEAN

VARIABLES
  spill,     \* the spill register: accesses waiting to be granted
  fifo,      \* the accesses granted and not answered, with their halves
  lane,      \* half -> what its bank has been granted and not answered
  issued,    \* history: the access issued last
  answered   \* history: the access answered last, and what it was given

splitterVars == <<spill, fifo, lane, issued, answered>>

Nothing == [n |-> 0, whole |-> TRUE]

SplitterInit ==
  /\ spill = << >> /\ fifo = << >>
  /\ lane = [h \in Halves |-> << >>]
  /\ issued = 0
  /\ answered = [n |-> 0, data |-> [h \in Halves |-> Nothing]]

-----------------------------------------------------------------------------
(* The combinational part. gnt are the banks that grant in this cycle, rsp *)
(* those that answer.                                                      *)

Valid == spill # << >>          \* tcdm_req_int.q_valid
Full  == Len(fifo) = FIFO_DEPTH

\* Fault: one half is enough.
ReadyEither(gnt) ==
  Valid /\ ~Full /\ (Head(spill).halves = {} \/ Head(spill).halves \cap gnt # {})

\* fifo_push: the request is accepted.
Ready(gnt) == Valid /\ ~Full /\ Head(spill).halves \subseteq gnt

\* The FIFO falls through: what is pushed into the empty FIFO is its head.
Entries(gnt) == IF Ready(gnt) THEN Append(fifo, Head(spill)) ELSE fifo

\* Fault: waits for both banks, whatever the access.
ArrivingBoth(gnt, rsp) == Entries(gnt) # << >> /\ rsp = Halves

\* rsp_arriving, which is fifo_pop as well: all the halves of the oldest
\* access are answered in this very cycle.
Arriving(gnt, rsp) ==
  LET e == Entries(gnt) IN e # << >> /\ Head(e).halves # {} /\ Head(e).halves \subseteq rsp

-----------------------------------------------------------------------------
(* The clock edge.                                                         *)

\* What the core offers: the kind of an access, or nothing.
Requests == {<< >>} \cup {<<kind>> : kind \in Kinds}

\* A bank carries out what it grants, also when the other one does not.
Granted(h, gnt) ==
  IF Valid /\ h \in Head(spill).halves \cap gnt
  THEN <<[n |-> Head(spill).n, whole |-> Ready(gnt)]>>
  ELSE << >>

Cycle(req, gnt, rsp) ==
  /\ req = << >> \/ (issued < MaxIssue /\ Len(spill) < 2)
  /\ issued' = issued + Len(req)
  /\ spill' = (IF Ready(gnt) THEN Tail(spill) ELSE spill)
               \o [i \in DOMAIN req |-> [n |-> issued', halves |-> req[i]]]
  /\ lane' = [h \in Halves |->
                (IF h \in rsp THEN Tail(lane[h]) ELSE lane[h]) \o Granted(h, gnt)]
  /\ IF Arriving(gnt, rsp)
     THEN LET e == Head(Entries(gnt))
          IN  /\ fifo' = Tail(Entries(gnt))
              /\ answered' = [n |-> e.n, data |-> [h \in Halves |->
                                IF h \in e.halves THEN Head(lane[h]) ELSE Nothing]]
     ELSE fifo' = Entries(gnt) /\ UNCHANGED answered

\* What the banks do. A cut takes two requests.
Banks(gnt, rsp) ==
  LET busy == {h \in Halves : lane[h] # << >>}
  IN  IF Slow
      THEN rsp \subseteq busy /\ \A h \in gnt : Len(lane[h]) < 2
      ELSE rsp = busy

SplitterNext ==
  \E req \in Requests, gnt \in SUBSET Halves, rsp \in SUBSET Halves :
    Banks(gnt, rsp) /\ Cycle(req, gnt, rsp)

SplitterSpec == SplitterInit /\ [][SplitterNext]_splitterVars

-----------------------------------------------------------------------------
(* Properties.                                                             *)

\* Types; with prompt banks the FIFO never holds more than one access, and so
\* never stops the port.
SplitterTypeOK ==
  LET Accesses == [n : 1..MaxIssue, halves : Kinds]
      Grants   == [n : 1..MaxIssue, whole : BOOLEAN]
  IN  /\ spill \in Seq(Accesses) /\ Len(spill) <= 2
      /\ fifo \in Seq(Accesses) /\ Len(fifo) <= IF Slow THEN FIFO_DEPTH ELSE 1
      /\ lane \in [Halves -> Seq(Grants)]
      /\ issued \in 0..MaxIssue /\ answered.n \in 0..MaxIssue
      /\ answered.data \in [Halves -> Grants \cup {Nothing}]

\* The port answers the accesses in the order of issue, each of them once, and
\* gives both halves of one and the same access, carried out in the same cycle:
\* the answer of a half that was granted alone reaches nobody.
Paired ==
  [][answered' # answered =>
       /\ answered'.n = answered.n + 1
       /\ \A h \in Halves : answered'.data[h] \in {Nothing, [n |-> answered'.n, whole |-> TRUE]}]_splitterVars
=============================================================================
