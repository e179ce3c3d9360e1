------------------------- MODULE BssciSessionProofs -------------------------
(***************************************************************************)
(* Proofs about BssciSession, for any number of connections, session rows  *)
(* and operations.                                                         *)
(***************************************************************************)
EXTENDS BssciSession, TLAPS, WellFoundedInduction

-----------------------------------------------------------------------------
(* What the steps do to the connections.                                   *)

\* The connection c alone changes: its reader is at p, its other fields as given.
Effect(c, p, sock, resumed, prev, offer, row, last) ==
  /\ conn' \in [Conns -> ConnType]
  /\ \A d \in Conns : d # c => conn'[d] = conn[d]
  /\ conn'[c].pc = p /\ conn'[c].sock = sock /\ conn'[c].resumed = resumed /\ conn'[c].prev = prev
  /\ conn'[c].offer = offer /\ conn'[c].row = row /\ conn'[c].lastSc = last

\* The reader of c goes to p.
Moves(c, p) ==
  Effect(c, p, conn[c].sock, conn[c].resumed, conn[c].prev, conn[c].offer, conn[c].row, conn[c].lastSc)

\* The socket of c is closed.
Closes(c) ==
  Effect(c, conn[c].pc, FALSE, conn[c].resumed, conn[c].prev, conn[c].offer, conn[c].row, conn[c].lastSc)

\* A nonempty set of naturals has a least member.
LEMMA LeastExists ==
  ASSUME NEW S \in SUBSET Nat, S # {}
  PROVE  \E x \in S : \A y \in S : x <= y
<1> DEFINE Less == {p \in Nat \X Nat : p[1] < p[2]}
<1>1. IsWellFoundedOn(Less, Nat)
  BY NatLessThanWellFounded DEF OpToRel
<1>2. \E x \in S : \A y \in S : ~(<<y, x>> \in Less)
  <2> HIDE DEF Less
  <2> QED BY <1>1, WFMin
<1>3. PICK x \in S : \A y \in S : ~(<<y, x>> \in Less)
  BY <1>2
<1>4. ASSUME NEW y \in S PROVE x <= y
  <2>1. x \in Nat /\ y \in Nat /\ <<y, x>> \in Nat \X Nat
    OBVIOUS
  <2>2. ~(y < x)
    BY <1>3, <2>1
  <2> QED BY <2>1, <2>2
<1> QED BY <1>4

\* The newest of some rows (FindResumableSession orders by id).
LEMMA NewestRow ==
  ASSUME NEW R \in SUBSET Rows, R # {}
  PROVE  Max(R) \in R
<1> DEFINE S == {MaxRows - r : r \in R}
<1>0. MaxRows \in Nat /\ \A r \in R : r \in Nat /\ r <= MaxRows
  BY SessionAssumption DEF Rows
<1>1. S \in SUBSET Nat /\ S # {}
  BY <1>0
<1>2. PICK x \in S : \A y \in S : x <= y
  <2> HIDE DEF S
  <2> QED BY <1>1, LeastExists
<1>3. PICK r \in R : x = MaxRows - r
  OBVIOUS
<1>4. ASSUME NEW q \in R PROVE r >= q
  <2>1. MaxRows - r <= MaxRows - q
    BY <1>2, <1>3
  <2> QED BY <1>0, <2>1
<1> QED BY <1>4 DEF Max

\* The lowest id of some operations (floorServiceCenterCounter).
LEMMA LowestIdType ==
  ASSUME NEW s \in ScIds \cup {0}, NEW E \in SUBSET Ops
  PROVE  LowestId(s, E) \in ScIds \cup {0}
<1>0. MaxScOps \in Nat
  BY SessionAssumption
<1>1. CASE E = {}
  BY <1>1 DEF LowestId
<1>2. CASE E # {}
  <2> DEFINE I == {e.id : e \in E}
             S == {i + MaxScOps : i \in I}
  <2>1. I \subseteq ScIds /\ I # {}
    BY <1>2 DEF Ops
  <2> HIDE DEF I
  <2>2. S \in SUBSET Nat /\ S # {}
    <3>1. \A i \in I : i \in Int /\ i >= -MaxScOps
      BY <1>0, <2>1 DEF ScIds
    <3>2. \A i \in I : i + MaxScOps \in Nat
      BY <1>0, <3>1
    <3> QED BY <2>1, <3>2
  <2>3. PICK x \in S : \A y \in S : x <= y
    <3> HIDE DEF S
    <3> QED BY <2>2, LeastExists
  <2>4. PICK i \in I : x = i + MaxScOps
    OBVIOUS
  <2>5. ASSUME NEW k \in I PROVE i <= k
    <3>1. i + MaxScOps <= k + MaxScOps
      BY <2>3, <2>4
    <3> QED BY <1>0, <2>1, <3>1 DEF ScIds
  <2>6. Min(I) \in I
    BY <2>5 DEF Min
  <2>7. Lower(s, Min(I)) \in ScIds \cup {0}
    BY <2>1, <2>6 DEF Lower
  <2> QED BY <1>2, <2>7 DEF LowestId, I
<1> QED BY <1>1, <1>2

\* A connection's record keeps its type when one field of it is assigned.
LEMMA ConnFields ==
  ASSUME NEW x \in ConnType
  PROVE  /\ \A v \in Steps : [x EXCEPT !.pc = v] \in ConnType
         /\ \A v \in BOOLEAN : [x EXCEPT !.sock = v] \in ConnType
         /\ \A v \in Uuids : [x EXCEPT !.uuid = v] \in ConnType
         /\ \A v \in BOOLEAN : [x EXCEPT !.resumed = v] \in ConnType
         /\ \A v \in Rows \cup {NoRow} : [x EXCEPT !.prev = v] \in ConnType
         /\ \A v \in SUBSET Ops : [x EXCEPT !.offer = v] \in ConnType
         /\ \A v \in Rows \cup {NoRow} : [x EXCEPT !.row = v] \in ConnType
         /\ \A v \in ScIds \cup {0} : [x EXCEPT !.lastSc = v] \in ConnType
  BY DEF ConnType

\* The assignments of the handlers, field by field.
LEMMA Assignments ==
  ASSUME TypeOK, NEW c \in Conns, NEW p \in Steps, NEW u \in Uuids, NEW v \in Rows \cup {NoRow},
         NEW o \in SUBSET Ops, NEW r \in Rows \cup {NoRow}, NEW l \in ScIds \cup {0}
  PROVE  /\ conn' = [conn EXCEPT ![c].pc = p] =>
              Moves(c, p)
         /\ conn' = [conn EXCEPT ![c].pc = p, ![c].sock = TRUE] =>
              Effect(c, p, TRUE, conn[c].resumed, conn[c].prev, conn[c].offer, conn[c].row, conn[c].lastSc)
         /\ conn' = [conn EXCEPT ![c].pc = p, ![c].uuid = u] =>
              Moves(c, p)
         /\ conn' = [conn EXCEPT ![c].pc = p, ![c].uuid = u, ![c].prev = v] =>
              Effect(c, p, conn[c].sock, conn[c].resumed, v, conn[c].offer, conn[c].row, conn[c].lastSc)
         /\ conn' = [conn EXCEPT ![c].pc = p, ![c].prev = v] =>
              Effect(c, p, conn[c].sock, conn[c].resumed, v, conn[c].offer, conn[c].row, conn[c].lastSc)
         /\ conn' = [conn EXCEPT ![c].pc = p, ![c].resumed = TRUE, ![c].offer = o, ![c].lastSc = l] =>
              Effect(c, p, conn[c].sock, TRUE, conn[c].prev, o, conn[c].row, l)
         /\ conn' = [conn EXCEPT ![c].pc = p, ![c].lastSc = l] =>
              Effect(c, p, conn[c].sock, conn[c].resumed, conn[c].prev, conn[c].offer, conn[c].row, l)
         /\ conn' = [conn EXCEPT ![c].pc = p, ![c].row = r] =>
              Effect(c, p, conn[c].sock, conn[c].resumed, conn[c].prev, conn[c].offer, r, conn[c].lastSc)
         /\ conn' = [conn EXCEPT ![c].pc = p, ![c].row = r, ![c].lastSc = l] =>
              Effect(c, p, conn[c].sock, conn[c].resumed, conn[c].prev, conn[c].offer, r, l)
         /\ conn' = [conn EXCEPT ![c].sock = FALSE] =>
              Closes(c)
         /\ conn' = [conn EXCEPT ![c].lastSc = l] =>
              Effect(c, conn[c].pc, conn[c].sock, conn[c].resumed, conn[c].prev, conn[c].offer, conn[c].row, l)
<1>0. conn \in [Conns -> ConnType] /\ conn[c] \in ConnType
  BY DEF TypeOK
<1>00. ASSUME NEW x \in ConnType, conn' = [conn EXCEPT ![c] = x]
       PROVE  conn' \in [Conns -> ConnType] /\ \A d \in Conns : d # c => conn'[d] = conn[d]
  BY <1>0, <1>00
<1>1. ASSUME conn' = [conn EXCEPT ![c].pc = p]
      PROVE  Moves(c, p)
  <2> DEFINE x1 == [conn[c] EXCEPT !.pc = p]
  <2>1. conn' = [conn EXCEPT ![c] = x1]
    BY <1>0, <1>1 DEF ConnType
  <2>2. x1 \in ConnType
    BY <1>0, ConnFields
  <2> HIDE DEF x1
  <2>3. conn' \in [Conns -> ConnType] /\ \A d \in Conns : d # c => conn'[d] = conn[d]
    BY <1>00, <2>1, <2>2
  <2> QED BY <1>0, <1>1, <2>3 DEF ConnType, Effect, Moves, Closes
<1>2. ASSUME conn' = [conn EXCEPT ![c].pc = p, ![c].sock = TRUE]
      PROVE  Effect(c, p, TRUE, conn[c].resumed, conn[c].prev, conn[c].offer, conn[c].row, conn[c].lastSc)
  <2> DEFINE x1 == [conn[c] EXCEPT !.pc = p]
             x2 == [x1 EXCEPT !.sock = TRUE]
  <2>1. conn' = [conn EXCEPT ![c] = x2]
    BY <1>0, <1>2 DEF ConnType
  <2>2. x1 \in ConnType
    BY <1>0, ConnFields
  <2> HIDE DEF x1
  <2>3. x2 \in ConnType
    BY <2>2, ConnFields
  <2> HIDE DEF x2
  <2>4. conn' \in [Conns -> ConnType] /\ \A d \in Conns : d # c => conn'[d] = conn[d]
    BY <1>00, <2>1, <2>3
  <2> QED BY <1>0, <1>2, <2>4 DEF ConnType, Effect, Moves, Closes
<1>3. ASSUME conn' = [conn EXCEPT ![c].pc = p, ![c].uuid = u]
      PROVE  Moves(c, p)
  <2> DEFINE x1 == [conn[c] EXCEPT !.pc = p]
             x2 == [x1 EXCEPT !.uuid = u]
  <2>1. conn' = [conn EXCEPT ![c] = x2]
    BY <1>0, <1>3 DEF ConnType
  <2>2. x1 \in ConnType
    BY <1>0, ConnFields
  <2> HIDE DEF x1
  <2>3. x2 \in ConnType
    BY <2>2, ConnFields
  <2> HIDE DEF x2
  <2>4. conn' \in [Conns -> ConnType] /\ \A d \in Conns : d # c => conn'[d] = conn[d]
    BY <1>00, <2>1, <2>3
  <2> QED BY <1>0, <1>3, <2>4 DEF ConnType, Effect, Moves, Closes
<1>4. ASSUME conn' = [conn EXCEPT ![c].pc = p, ![c].uuid = u, ![c].prev = v]
      PROVE  Effect(c, p, conn[c].sock, conn[c].resumed, v, conn[c].offer, conn[c].row, conn[c].lastSc)
  <2> DEFINE x1 == [conn[c] EXCEPT !.pc = p]
             x2 == [x1 EXCEPT !.uuid = u]
             x3 == [x2 EXCEPT !.prev = v]
  <2>1. conn' = [conn EXCEPT ![c] = x3]
    BY <1>0, <1>4 DEF ConnType
  <2>2. x1 \in ConnType
    BY <1>0, ConnFields
  <2> HIDE DEF x1
  <2>3. x2 \in ConnType
    BY <2>2, ConnFields
  <2> HIDE DEF x2
  <2>4. x3 \in ConnType
    BY <2>3, ConnFields
  <2> HIDE DEF x3
  <2>5. conn' \in [Conns -> ConnType] /\ \A d \in Conns : d # c => conn'[d] = conn[d]
    BY <1>00, <2>1, <2>4
  <2> QED BY <1>0, <1>4, <2>5 DEF ConnType, Effect, Moves, Closes
<1>5. ASSUME conn' = [conn EXCEPT ![c].pc = p, ![c].prev = v]
      PROVE  Effect(c, p, conn[c].sock, conn[c].resumed, v, conn[c].offer, conn[c].row, conn[c].lastSc)
  <2> DEFINE x1 == [conn[c] EXCEPT !.pc = p]
             x2 == [x1 EXCEPT !.prev = v]
  <2>1. conn' = [conn EXCEPT ![c] = x2]
    BY <1>0, <1>5 DEF ConnType
  <2>2. x1 \in ConnType
    BY <1>0, ConnFields
  <2> HIDE DEF x1
  <2>3. x2 \in ConnType
    BY <2>2, ConnFields
  <2> HIDE DEF x2
  <2>4. conn' \in [Conns -> ConnType] /\ \A d \in Conns : d # c => conn'[d] = conn[d]
    BY <1>00, <2>1, <2>3
  <2> QED BY <1>0, <1>5, <2>4 DEF ConnType, Effect, Moves, Closes
<1>6. ASSUME conn' = [conn EXCEPT ![c].pc = p, ![c].resumed = TRUE, ![c].offer = o, ![c].lastSc = l]
      PROVE  Effect(c, p, conn[c].sock, TRUE, conn[c].prev, o, conn[c].row, l)
  <2> DEFINE x1 == [conn[c] EXCEPT !.pc = p]
             x2 == [x1 EXCEPT !.resumed = TRUE]
             x3 == [x2 EXCEPT !.offer = o]
             x4 == [x3 EXCEPT !.lastSc = l]
  <2>1. conn' = [conn EXCEPT ![c] = x4]
    BY <1>0, <1>6 DEF ConnType
  <2>2. x1 \in ConnType
    BY <1>0, ConnFields
  <2> HIDE DEF x1
  <2>3. x2 \in ConnType
    BY <2>2, ConnFields
  <2> HIDE DEF x2
  <2>4. x3 \in ConnType
    BY <2>3, ConnFields
  <2> HIDE DEF x3
  <2>5. x4 \in ConnType
    BY <2>4, ConnFields
  <2> HIDE DEF x4
  <2>6. conn' \in [Conns -> ConnType] /\ \A d \in Conns : d # c => conn'[d] = conn[d]
    BY <1>00, <2>1, <2>5
  <2> QED BY <1>0, <1>6, <2>6 DEF ConnType, Effect, Moves, Closes
<1>7. ASSUME conn' = [conn EXCEPT ![c].pc = p, ![c].lastSc = l]
      PROVE  Effect(c, p, conn[c].sock, conn[c].resumed, conn[c].prev, conn[c].offer, conn[c].row, l)
  <2> DEFINE x1 == [conn[c] EXCEPT !.pc = p]
             x2 == [x1 EXCEPT !.lastSc = l]
  <2>1. conn' = [conn EXCEPT ![c] = x2]
    BY <1>0, <1>7 DEF ConnType
  <2>2. x1 \in ConnType
    BY <1>0, ConnFields
  <2> HIDE DEF x1
  <2>3. x2 \in ConnType
    BY <2>2, ConnFields
  <2> HIDE DEF x2
  <2>4. conn' \in [Conns -> ConnType] /\ \A d \in Conns : d # c => conn'[d] = conn[d]
    BY <1>00, <2>1, <2>3
  <2> QED BY <1>0, <1>7, <2>4 DEF ConnType, Effect, Moves, Closes
<1>8. ASSUME conn' = [conn EXCEPT ![c].pc = p, ![c].row = r]
      PROVE  Effect(c, p, conn[c].sock, conn[c].resumed, conn[c].prev, conn[c].offer, r, conn[c].lastSc)
  <2> DEFINE x1 == [conn[c] EXCEPT !.pc = p]
             x2 == [x1 EXCEPT !.row = r]
  <2>1. conn' = [conn EXCEPT ![c] = x2]
    BY <1>0, <1>8 DEF ConnType
  <2>2. x1 \in ConnType
    BY <1>0, ConnFields
  <2> HIDE DEF x1
  <2>3. x2 \in ConnType
    BY <2>2, ConnFields
  <2> HIDE DEF x2
  <2>4. conn' \in [Conns -> ConnType] /\ \A d \in Conns : d # c => conn'[d] = conn[d]
    BY <1>00, <2>1, <2>3
  <2> QED BY <1>0, <1>8, <2>4 DEF ConnType, Effect, Moves, Closes
<1>9. ASSUME conn' = [conn EXCEPT ![c].pc = p, ![c].row = r, ![c].lastSc = l]
      PROVE  Effect(c, p, conn[c].sock, conn[c].resumed, conn[c].prev, conn[c].offer, r, l)
  <2> DEFINE x1 == [conn[c] EXCEPT !.pc = p]
             x2 == [x1 EXCEPT !.row = r]
             x3 == [x2 EXCEPT !.lastSc = l]
  <2>1. conn' = [conn EXCEPT ![c] = x3]
    BY <1>0, <1>9 DEF ConnType
  <2>2. x1 \in ConnType
    BY <1>0, ConnFields
  <2> HIDE DEF x1
  <2>3. x2 \in ConnType
    BY <2>2, ConnFields
  <2> HIDE DEF x2
  <2>4. x3 \in ConnType
    BY <2>3, ConnFields
  <2> HIDE DEF x3
  <2>5. conn' \in [Conns -> ConnType] /\ \A d \in Conns : d # c => conn'[d] = conn[d]
    BY <1>00, <2>1, <2>4
  <2> QED BY <1>0, <1>9, <2>5 DEF ConnType, Effect, Moves, Closes
<1>10. ASSUME conn' = [conn EXCEPT ![c].sock = FALSE]
      PROVE  Closes(c)
  <2> DEFINE x1 == [conn[c] EXCEPT !.sock = FALSE]
  <2>1. conn' = [conn EXCEPT ![c] = x1]
    BY <1>0, <1>10 DEF ConnType
  <2>2. x1 \in ConnType
    BY <1>0, ConnFields
  <2> HIDE DEF x1
  <2>3. conn' \in [Conns -> ConnType] /\ \A d \in Conns : d # c => conn'[d] = conn[d]
    BY <1>00, <2>1, <2>2
  <2> QED BY <1>0, <1>10, <2>3 DEF ConnType, Effect, Moves, Closes
<1>11. ASSUME conn' = [conn EXCEPT ![c].lastSc = l]
      PROVE  Effect(c, conn[c].pc, conn[c].sock, conn[c].resumed, conn[c].prev, conn[c].offer, conn[c].row, l)
  <2> DEFINE x1 == [conn[c] EXCEPT !.lastSc = l]
  <2>1. conn' = [conn EXCEPT ![c] = x1]
    BY <1>0, <1>11 DEF ConnType
  <2>2. x1 \in ConnType
    BY <1>0, ConnFields
  <2> HIDE DEF x1
  <2>3. conn' \in [Conns -> ConnType] /\ \A d \in Conns : d # c => conn'[d] = conn[d]
    BY <1>00, <2>1, <2>2
  <2> QED BY <1>0, <1>11, <2>3 DEF ConnType, Effect, Moves, Closes
<1> QED BY <1>1, <1>2, <1>3, <1>4, <1>5, <1>6, <1>7, <1>8, <1>9, <1>10, <1>11

\* What each step of a connection does to the connections.
LEMMA ConnSteps ==
  ASSUME TypeOK, NEW c \in Conns, conn[c].pc = "loading" => conn[c].prev \in Rows
  PROVE  /\ Accept(c) => Effect(c, "connecting", TRUE, conn[c].resumed, conn[c].prev, conn[c].offer, conn[c].row, conn[c].lastSc)
         /\ RejectConnect(c) => Moves(c, "closing")
         /\ Connect(c) =>
              \/ Moves(c, "offered")
              \/ \E r \in Rows, p \in {"loading", "retiring"} :
                   Effect(c, p, conn[c].sock, conn[c].resumed, r, conn[c].offer, conn[c].row, conn[c].lastSc)
         /\ RetireInconsistent(c) =>
              \/ Moves(c, "closing")
              \/ Effect(c, "offered", conn[c].sock, conn[c].resumed, NoRow, conn[c].offer, conn[c].row, conn[c].lastSc)
         /\ OfferResume(c) =>
              \/ Moves(c, "closing") /\ journal' = journal /\ open' = open
              \/ \E p \in {"offered", "closing"} : \E K \in SUBSET Lost(conn[c].prev) :
                   /\ Effect(c, p, conn[c].sock, TRUE, conn[c].prev, journal[conn[c].prev] \ Lost(conn[c].prev),
                             conn[c].row, LowestId(rows[conn[c].prev].scOp, journal[conn[c].prev] \ Lost(conn[c].prev)))
                   /\ journal' = [journal EXCEPT ![conn[c].prev] = @ \ (Lost(conn[c].prev) \ K)]
                   /\ open' = {w \in open : ~(w.row = conn[c].prev /\ \E e \in Lost(conn[c].prev) : e.id = w.id)}
         /\ RefuseConnect(c) => Moves(c, "closing")
         /\ ConnectComplete(c) =>
              \/ /\ conn[c].resumed
                 /\ conn[c].prev \in Rows =>
                      Effect(c, "claiming", conn[c].sock, conn[c].resumed, conn[c].prev, conn[c].offer, conn[c].row,
                             rows[conn[c].prev].scOp)
              \/ /\ ~conn[c].resumed
                 /\ Effect(c, "discarding", conn[c].sock, conn[c].resumed, conn[c].prev, conn[c].offer, conn[c].row, 0)
         /\ ClaimRow(c) =>
              \/ Moves(c, "closing") /\ rows' = rows
              \/ /\ Resumable(conn[c].prev) /\ Active \subseteq {conn[c].prev}
                 /\ rows' = [rows EXCEPT ![conn[c].prev].status = "active", ![conn[c].prev].conn = c,
                                         ![conn[c].prev].scOp = conn[c].lastSc]
                 /\ Effect(c, "registering", conn[c].sock, conn[c].resumed, conn[c].prev, conn[c].offer,
                           conn[c].prev, conn[c].lastSc)
         /\ DiscardActive(c) => \E p \in {"closing", "retiring rows"} : Moves(c, p)
         /\ DiscardResumable(c) => \E p \in {"closing", "creating"} : Moves(c, p)
         /\ CreateRow(c) =>
              \/ Moves(c, "closing") /\ rows' = rows
              \/ \E r \in Rows, p \in {"registering", "closing"} :
                   /\ rows[r].status = "absent" /\ Active = {}
                   /\ rows' = [rows EXCEPT ![r] = [status |-> "active", conn |-> c, uuid |-> conn[c].uuid, scOp |-> 0]]
                   /\ Effect(c, p, conn[c].sock, conn[c].resumed, conn[c].prev, conn[c].offer, r, 0)
         /\ Register(c) => \E p \in {"closing", "publishing"} : Moves(c, p)
         /\ CompleteHandshake(c) => \E p \in {"closing", "complete"} : Moves(c, p)
         /\ Break(c) => Closes(c)
         /\ EndReading(c) => Moves(c, "closing")
         /\ Unpublish(c) => Moves(c, IF conn[c].row = NoRow THEN "evicting" ELSE "counting")
         /\ WriteFinalCounters(c) => Moves(c, "handing back")
         /\ HandBack(c) => Moves(c, "evicting")
<1>0. conn \in [Conns -> ConnType] /\ conn[c] \in ConnType
  BY DEF TypeOK
<1>u. conn[c].uuid \in Uuids /\ conn[c].prev \in Rows \cup {NoRow} /\ conn[c].lastSc \in ScIds \cup {0}
  BY <1>0 DEF ConnType
<1>p. \A p \in Steps : conn' = [conn EXCEPT ![c].pc = p] => Moves(c, p)
  BY Assignments, <1>u, Zenon
<1>l. \A p \in Steps, l \in ScIds \cup {0} : conn' = [conn EXCEPT ![c].pc = p, ![c].lastSc = l] =>
        Effect(c, p, conn[c].sock, conn[c].resumed, conn[c].prev, conn[c].offer, conn[c].row, l)
  BY Assignments, <1>u, Zenon
<1>b. conn' = [conn EXCEPT ![c].sock = FALSE] => Closes(c)
  <2>1. "closing" \in Steps /\ {} \in SUBSET Ops /\ 0 \in ScIds \cup {0}
    BY DEF Steps
  <2> QED BY Assignments, <1>u, <2>1, Zenon
<1>s. /\ "connecting" \in Steps /\ "closing" \in Steps /\ "offered" \in Steps /\ "loading" \in Steps /\ "retiring" \in Steps
      /\ "claiming" \in Steps /\ "discarding" \in Steps /\ "retiring rows" \in Steps /\ "creating" \in Steps
      /\ "registering" \in Steps /\ "publishing" \in Steps /\ "completing" \in Steps /\ "complete" \in Steps
      /\ "counting" \in Steps /\ "handing back" \in Steps /\ "evicting" \in Steps /\ 0 \in ScIds \cup {0}
      /\ {} \in SUBSET Ops
  BY DEF Steps
<1>1. Accept(c) => Effect(c, "connecting", TRUE, conn[c].resumed, conn[c].prev, conn[c].offer, conn[c].row, conn[c].lastSc)
  BY <1>u, <1>s, Assignments, Zenon DEF Accept
<1>2. RejectConnect(c) => Moves(c, "closing")
  BY <1>p, <1>s, Zenon DEF RejectConnect, Goto
<1>3. ASSUME Connect(c)
      PROVE  \/ Moves(c, "offered")
             \/ \E r \in Rows, p \in {"loading", "retiring"} :
                  Effect(c, p, conn[c].sock, conn[c].resumed, r, conn[c].offer, conn[c].row, conn[c].lastSc)
  <2>1. PICK u \in Uuids :
          \/ conn' = [conn EXCEPT ![c].pc = "offered", ![c].uuid = u]
          \/ /\ FindResumable(u) # {}
             /\ \E p \in {"loading", "retiring"} :
                  conn' = [conn EXCEPT ![c].pc = p, ![c].uuid = u, ![c].prev = Max(FindResumable(u))]
    BY <1>3, Zenon DEF Connect
  <2>2. CASE conn' = [conn EXCEPT ![c].pc = "offered", ![c].uuid = u]
    BY <2>2, <1>u, <1>s, Assignments, Zenon
  <2>3. ASSUME FindResumable(u) # {}, NEW p \in {"loading", "retiring"},
               conn' = [conn EXCEPT ![c].pc = p, ![c].uuid = u, ![c].prev = Max(FindResumable(u))]
        PROVE  \E r \in Rows : Effect(c, p, conn[c].sock, conn[c].resumed, r, conn[c].offer, conn[c].row, conn[c].lastSc)
    <3>1. FindResumable(u) \in SUBSET Rows
      BY DEF FindResumable
    <3>2. Max(FindResumable(u)) \in Rows
      BY <2>3, <3>1, NewestRow
    <3> DEFINE r == Max(FindResumable(u))
    <3>3. conn' = [conn EXCEPT ![c].pc = p, ![c].uuid = u, ![c].prev = r] /\ r \in Rows
      BY <2>3, <3>2
    <3> HIDE DEF r
    <3>4. p \in Steps
      BY <1>s, Zenon
    <3> QED BY <3>3, <3>4, <1>u, <1>s, Assignments, Zenon
  <2> QED BY <2>1, <2>2, <2>3
<1>4. RetireInconsistent(c) =>
        \/ Moves(c, "closing")
        \/ Effect(c, "offered", conn[c].sock, conn[c].resumed, NoRow, conn[c].offer, conn[c].row, conn[c].lastSc)
  BY <1>p, <1>u, <1>s, Assignments, Zenon DEF RetireInconsistent, Goto
<1>5. ASSUME OfferResume(c)
      PROVE  \/ Moves(c, "closing") /\ journal' = journal /\ open' = open
             \/ \E p \in {"offered", "closing"} : \E K \in SUBSET Lost(conn[c].prev) :
                  /\ Effect(c, p, conn[c].sock, TRUE, conn[c].prev, journal[conn[c].prev] \ Lost(conn[c].prev),
                            conn[c].row, LowestId(rows[conn[c].prev].scOp, journal[conn[c].prev] \ Lost(conn[c].prev)))
                  /\ journal' = [journal EXCEPT ![conn[c].prev] = @ \ (Lost(conn[c].prev) \ K)]
                  /\ open' = {w \in open : ~(w.row = conn[c].prev /\ \E e \in Lost(conn[c].prev) : e.id = w.id)}
  <2> DEFINE r == conn[c].prev
             o == journal[r] \ Lost(r)
             l == LowestId(rows[r].scOp, o)
             p == IF conn[c].sock THEN "offered" ELSE "closing"
  <2>1. r \in Rows
    BY <1>5 DEF OfferResume
  <2>2. o \in SUBSET Ops /\ rows[r].scOp \in ScIds \cup {0}
    BY <2>1 DEF TypeOK, RowType
  <2>3. l \in ScIds \cup {0}
    <3> HIDE DEF o, r
    <3> QED BY <2>2, LowestIdType
  <2>4. p \in Steps /\ p \in {"offered", "closing"}
    BY <1>s, Zenon
  <2>5. \/ Goto(c, "closing") /\ UNCHANGED <<journal, open>>
        \/ \E K \in SUBSET Lost(r) :
             /\ conn' = [conn EXCEPT ![c].pc = p, ![c].resumed = TRUE, ![c].offer = o, ![c].lastSc = l]
             /\ journal' = [journal EXCEPT ![r] = @ \ (Lost(r) \ K)]
             /\ open' = {w \in open : ~(w.row = r /\ \E e \in Lost(r) : e.id = w.id)}
    BY <1>5 DEF OfferResume
  <2>6. CASE Goto(c, "closing") /\ UNCHANGED <<journal, open>>
    BY <2>6, <1>p, <1>s, Zenon DEF Goto
  <2>7. CASE \E K \in SUBSET Lost(r) :
             /\ conn' = [conn EXCEPT ![c].pc = p, ![c].resumed = TRUE, ![c].offer = o, ![c].lastSc = l]
             /\ journal' = [journal EXCEPT ![r] = @ \ (Lost(r) \ K)]
             /\ open' = {w \in open : ~(w.row = r /\ \E e \in Lost(r) : e.id = w.id)}
    <3>1. conn' = [conn EXCEPT ![c].pc = p, ![c].resumed = TRUE, ![c].offer = o, ![c].lastSc = l]
      BY <2>7
    <3>2. Effect(c, p, conn[c].sock, TRUE, conn[c].prev, o, conn[c].row, l)
      <4> HIDE DEF o, l, p
      <4> QED BY <3>1, <2>2, <2>3, <2>4, <1>u, Assignments, Zenon
    <3> QED BY <2>7, <3>2, <2>4
  <2> QED BY <2>5, <2>6, <2>7
<1>6. RefuseConnect(c) => Moves(c, "closing")
  BY <1>p, <1>s, Zenon DEF RefuseConnect, Goto
<1>7. ASSUME ConnectComplete(c)
      PROVE  \/ /\ conn[c].resumed
                /\ conn[c].prev \in Rows =>
                     Effect(c, "claiming", conn[c].sock, conn[c].resumed, conn[c].prev, conn[c].offer, conn[c].row,
                            rows[conn[c].prev].scOp)
             \/ /\ ~conn[c].resumed
                /\ Effect(c, "discarding", conn[c].sock, conn[c].resumed, conn[c].prev, conn[c].offer, conn[c].row, 0)
  <2>1. CASE conn[c].resumed
    <3>1. ASSUME conn[c].prev \in Rows
          PROVE  Effect(c, "claiming", conn[c].sock, conn[c].resumed, conn[c].prev, conn[c].offer, conn[c].row,
                        rows[conn[c].prev].scOp)
      <4> DEFINE l == rows[conn[c].prev].scOp
      <4>1. l \in ScIds \cup {0}
        BY <3>1 DEF TypeOK, RowType
      <4>2. conn' = [conn EXCEPT ![c].pc = "claiming", ![c].lastSc = l]
        BY <1>7, <2>1 DEF ConnectComplete, PersistedCounter
      <4>3. Effect(c, "claiming", conn[c].sock, conn[c].resumed, conn[c].prev, conn[c].offer, conn[c].row, l)
        <5> HIDE DEF l
        <5> QED BY <4>1, <4>2, <1>s, <1>l, Zenon
      <4> QED BY <4>3
    <3> QED BY <2>1, <3>1
  <2>2. CASE ~conn[c].resumed
    <3>1. conn' = [conn EXCEPT ![c].pc = "discarding", ![c].lastSc = 0]
      BY <1>7, <2>2 DEF ConnectComplete
    <3> QED BY <2>2, <3>1, <1>u, <1>s, Assignments, Zenon
  <2> QED BY <2>1, <2>2
<1>8. ASSUME ClaimRow(c)
      PROVE  \/ Moves(c, "closing") /\ rows' = rows
             \/ /\ Resumable(conn[c].prev) /\ Active \subseteq {conn[c].prev}
                /\ rows' = [rows EXCEPT ![conn[c].prev].status = "active", ![conn[c].prev].conn = c,
                                        ![conn[c].prev].scOp = conn[c].lastSc]
                /\ Effect(c, "registering", conn[c].sock, conn[c].resumed, conn[c].prev, conn[c].offer,
                          conn[c].prev, conn[c].lastSc)
  <2>1. \/ Goto(c, "closing") /\ UNCHANGED rows
        \/ /\ Resumable(conn[c].prev) /\ Active \subseteq {conn[c].prev}
           /\ rows' = [rows EXCEPT ![conn[c].prev].status = "active", ![conn[c].prev].conn = c,
                                   ![conn[c].prev].scOp = conn[c].lastSc]
           /\ conn' = [conn EXCEPT ![c].pc = "registering", ![c].row = conn[c].prev]
    BY <1>8 DEF ClaimRow
  <2> DEFINE v == conn[c].prev
  <2>2. conn' = [conn EXCEPT ![c].pc = "registering", ![c].row = v] =>
          Effect(c, "registering", conn[c].sock, conn[c].resumed, conn[c].prev, conn[c].offer, v, conn[c].lastSc)
    <3>1. v \in Rows \cup {NoRow}
      BY <1>u
    <3> HIDE DEF v
    <3> QED BY <3>1, <1>u, <1>s, Assignments, Zenon
  <2> QED BY <2>1, <2>2, <1>p, <1>s, Zenon DEF Goto
<1>9. DiscardActive(c) => \E p \in {"closing", "retiring rows"} : Moves(c, p)
  BY <1>p, <1>s, Zenon DEF DiscardActive, Goto
<1>10. DiscardResumable(c) => \E p \in {"closing", "creating"} : Moves(c, p)
  BY <1>p, <1>s, Zenon DEF DiscardResumable, Goto
<1>11. ASSUME CreateRow(c)
       PROVE  \/ Moves(c, "closing") /\ rows' = rows
              \/ \E r \in Rows, p \in {"registering", "closing"} :
                   /\ rows[r].status = "absent" /\ Active = {}
                   /\ rows' = [rows EXCEPT ![r] = [status |-> "active", conn |-> c, uuid |-> conn[c].uuid, scOp |-> 0]]
                   /\ Effect(c, p, conn[c].sock, conn[c].resumed, conn[c].prev, conn[c].offer, r, 0)
  <2>1. \/ Goto(c, "closing") /\ UNCHANGED rows
        \/ \E r \in Rows, p \in {"registering", "closing"} :
             /\ rows[r].status = "absent" /\ Active = {}
             /\ rows' = [rows EXCEPT ![r] = [status |-> "active", conn |-> c, uuid |-> conn[c].uuid, scOp |-> 0]]
             /\ conn' = [conn EXCEPT ![c].pc = p, ![c].row = r, ![c].lastSc = 0]
    BY <1>11, Zenon DEF CreateRow
  <2>2. ASSUME NEW r \in Rows, NEW p \in {"registering", "closing"},
               conn' = [conn EXCEPT ![c].pc = p, ![c].row = r, ![c].lastSc = 0]
        PROVE  Effect(c, p, conn[c].sock, conn[c].resumed, conn[c].prev, conn[c].offer, r, 0)
    <3>1. p \in Steps
      BY <1>s, Zenon
    <3> QED BY <2>2, <3>1, <1>u, <1>s, Assignments, Zenon
  <2> QED BY <2>1, <2>2, <1>p, <1>s, Zenon DEF Goto
<1>12. Register(c) => \E p \in {"closing", "publishing"} : Moves(c, p)
  BY <1>p, <1>s, Zenon DEF Register, Goto
<1>13. CompleteHandshake(c) => \E p \in {"closing", "complete"} : Moves(c, p)
  BY <1>p, <1>s, Zenon DEF CompleteHandshake, Goto
<1>14. Break(c) => Closes(c)
  BY <1>b DEF Break
<1>15. EndReading(c) => Moves(c, "closing")
  BY <1>p, <1>s, Zenon DEF EndReading, Goto
<1>16. Unpublish(c) => Moves(c, IF conn[c].row = NoRow THEN "evicting" ELSE "counting")
  BY <1>p, <1>s, Zenon DEF Unpublish, Goto
<1>17. WriteFinalCounters(c) => Moves(c, "handing back")
  BY <1>p, <1>s, Zenon DEF WriteFinalCounters, Goto
<1>18. HandBack(c) => Moves(c, "evicting")
  BY <1>p, <1>s, Zenon DEF HandBack, Goto
<1> QED BY Zenon, <1>1, <1>2, <1>3, <1>4, <1>5, <1>6, <1>7, <1>8, <1>9, <1>10, <1>11, <1>12, <1>13, <1>14, <1>15, <1>16,
           <1>17, <1>18

\* A session whose reader is gone: the type of what is left of it.
LEMMA GoneFields ==
  ASSUME NEW x \in ConnType
  PROVE  /\ Gone(x) \in ConnType
         /\ Gone(x).pc = "gone" /\ Gone(x).sock = FALSE /\ Gone(x).resumed = FALSE /\ Gone(x).prev = NoRow
         /\ Gone(x).offer = {} /\ Gone(x).row = x.row /\ Gone(x).lastSc = x.lastSc
<1>1. (CHOOSE u \in Uuids : TRUE) \in Uuids
  BY SessionAssumption
<1>2. Unconnected \in ConnType
  BY <1>1, Zenon DEF Unconnected, ConnType, Steps
<1> DEFINE x1 == [Unconnected EXCEPT !.pc = "gone"]
           x2 == [x1 EXCEPT !.row = x.row]
           x3 == [x2 EXCEPT !.lastSc = x.lastSc]
<1>3. Gone(x) = x3
  BY <1>2 DEF Gone, ConnType
<1>4. "gone" \in Steps /\ x.row \in Rows \cup {NoRow} /\ x.lastSc \in ScIds \cup {0}
  BY Zenon DEF Steps, ConnType
<1>5. x1 \in ConnType
  BY <1>2, <1>4, ConnFields
<1>6. x1.pc = "gone" /\ x1.sock = FALSE /\ x1.resumed = FALSE /\ x1.prev = NoRow /\ x1.offer = {}
  BY <1>2 DEF ConnType, Unconnected
<1> HIDE DEF x1
<1>7. x2 \in ConnType
  BY <1>4, <1>5, ConnFields
<1>8. x2.pc = x1.pc /\ x2.sock = x1.sock /\ x2.resumed = x1.resumed /\ x2.prev = x1.prev /\ x2.offer = x1.offer
      /\ x2.row = x.row
  BY <1>5 DEF ConnType
<1> HIDE DEF x2
<1>9. x3 \in ConnType
  BY <1>4, <1>7, ConnFields
<1>10. x3.pc = x2.pc /\ x3.sock = x2.sock /\ x3.resumed = x2.resumed /\ x3.prev = x2.prev /\ x3.offer = x2.offer
       /\ x3.row = x2.row /\ x3.lastSc = x.lastSc
  BY <1>7 DEF ConnType
<1> HIDE DEF x3
<1> QED BY <1>3, <1>6, <1>8, <1>9, <1>10

\* What publishing, sending and losing connections do to them.
LEMMA MoreConnSteps ==
  ASSUME TypeOK
  PROVE  /\ \A c \in Conns : Publish(c) =>
              /\ conn' \in [Conns -> ConnType]
              /\ conn'[c].pc = "completing"
              /\ \A d \in Conns :
                   /\ d # c => conn'[d].pc = conn[d].pc
                   /\ conn'[d].sock = (conn[d].sock /\ d \notin live \ {c})
                   /\ conn'[d].resumed = conn[d].resumed /\ conn'[d].prev = conn[d].prev
                   /\ conn'[d].offer = conn[d].offer /\ conn'[d].row = conn[d].row /\ conn'[d].lastSc = conn[d].lastSc
         /\ \A c \in Conns : Evict(c) => Effect(c, "gone", FALSE, FALSE, NoRow, {}, conn[c].row, conn[c].lastSc)
         /\ Crash =>
              /\ conn' \in [Conns -> ConnType]
              /\ \A d \in Conns :
                   \/ conn[d].pc = "idle" /\ conn'[d] = conn[d]
                   \/ /\ conn[d].pc # "idle" /\ conn'[d].pc = "gone" /\ conn'[d].sock = FALSE
                      /\ conn'[d].resumed = FALSE /\ conn'[d].prev = NoRow /\ conn'[d].offer = {}
                      /\ conn'[d].row = conn[d].row /\ conn'[d].lastSc = conn[d].lastSc
         /\ \A t \in senders : Allocate(t) =>
              /\ conn[t.conn].lastSc - 1 \in ScIds
              /\ Effect(t.conn, conn[t.conn].pc, conn[t.conn].sock, conn[t.conn].resumed, conn[t.conn].prev,
                        conn[t.conn].offer, conn[t.conn].row, conn[t.conn].lastSc - 1)
         /\ \A t \in senders : Send(t) => conn' = conn \/ Closes(t.conn)
         /\ \A c \in Conns : conn' = [conn EXCEPT ![c].sock = FALSE] => Closes(c)
<1>0. conn \in [Conns -> ConnType] /\ live \subseteq Conns /\ \A t \in senders : t.conn \in Conns
  BY DEF TypeOK, SenderType
<1>s. "completing" \in Steps /\ "gone" \in Steps
  BY DEF Steps
<1>1. ASSUME NEW c \in Conns, Publish(c)
      PROVE  /\ conn' \in [Conns -> ConnType]
             /\ conn'[c].pc = "completing"
             /\ \A d \in Conns :
                  /\ d # c => conn'[d].pc = conn[d].pc
                  /\ conn'[d].sock = (conn[d].sock /\ d \notin live \ {c})
                  /\ conn'[d].resumed = conn[d].resumed /\ conn'[d].prev = conn[d].prev
                  /\ conn'[d].offer = conn[d].offer /\ conn'[d].row = conn[d].row /\ conn'[d].lastSc = conn[d].lastSc
  <2> DEFINE D == Displaced(c)
             y == [D[c] EXCEPT !.pc = "completing"]
  <2>0. D = [d \in Conns |-> IF d \in live \ {c} THEN [conn[d] EXCEPT !.sock = FALSE] ELSE conn[d]]
    BY DEF Displaced
  <2>1. \A d \in Conns : [conn[d] EXCEPT !.sock = FALSE] \in ConnType
    BY <1>0, ConnFields
  <2>2. D \in [Conns -> ConnType]
    BY <1>0, <2>0, <2>1
  <2>3. \A d \in Conns :
          /\ D[d].sock = (conn[d].sock /\ d \notin live \ {c})
          /\ D[d].pc = conn[d].pc
          /\ D[d].resumed = conn[d].resumed /\ D[d].prev = conn[d].prev
          /\ D[d].offer = conn[d].offer /\ D[d].row = conn[d].row /\ D[d].lastSc = conn[d].lastSc
    <3> TAKE d \in Conns
    <3>1. CASE d \in live \ {c}
      <4>1. D[d] = [conn[d] EXCEPT !.sock = FALSE]
        BY <2>0, <3>1
      <4>2. D[d].sock = FALSE
        BY <4>1, <1>0 DEF ConnType
      <4> QED BY <3>1, <4>1, <4>2, <1>0 DEF ConnType
    <3>2. CASE d \notin live \ {c}
      <4>1. D[d] = conn[d]
        BY <2>0, <3>2
      <4>2. conn[d].sock = (conn[d].sock /\ d \notin live \ {c})
        <5>1. conn[d].sock \in BOOLEAN
          BY <1>0 DEF ConnType
        <5> QED BY <5>1, <3>2
      <4> QED BY <3>2, <4>1, <4>2
    <3> QED BY <3>1, <3>2
  <2>4. conn' = [D EXCEPT ![c].pc = "completing"]
    BY <1>1 DEF Publish
  <2> HIDE DEF D
  <2>5. conn' = [D EXCEPT ![c] = y]
    BY <2>2, <2>4 DEF ConnType
  <2>6. y \in ConnType
    BY <2>2, <1>s, ConnFields
  <2>7. y.pc = "completing" /\ y.sock = D[c].sock /\ y.resumed = D[c].resumed /\ y.prev = D[c].prev
        /\ y.offer = D[c].offer /\ y.row = D[c].row /\ y.lastSc = D[c].lastSc
    BY <2>2 DEF ConnType
  <2> HIDE DEF y
  <2>8. conn' \in [Conns -> ConnType] /\ conn'[c] = y /\ \A d \in Conns : d # c => conn'[d] = D[d]
    BY <2>2, <2>5, <2>6
  <2>9. conn'[c].sock = (conn[c].sock /\ c \notin live \ {c})
    BY <2>3, <2>7, <2>8
  <2>10. \A d \in Conns : d # c => conn'[d].sock = (conn[d].sock /\ d \notin live \ {c})
    BY <2>3, <2>8
  <2> QED BY <2>3, <2>7, <2>8, <2>9, <2>10
<1>2. ASSUME NEW c \in Conns, Evict(c)
      PROVE  Effect(c, "gone", FALSE, FALSE, NoRow, {}, conn[c].row, conn[c].lastSc)
  <2> DEFINE y == Gone(conn[c])
  <2>1. conn' = [conn EXCEPT ![c] = y]
    BY <1>2 DEF Evict
  <2>2. y \in ConnType /\ y.pc = "gone" /\ y.sock = FALSE /\ y.resumed = FALSE /\ y.prev = NoRow
        /\ y.offer = {} /\ y.row = conn[c].row /\ y.lastSc = conn[c].lastSc
    BY <1>0, GoneFields
  <2> HIDE DEF y
  <2> QED BY <1>0, <2>1, <2>2 DEF Effect
<1>3. ASSUME Crash
      PROVE  /\ conn' \in [Conns -> ConnType]
             /\ \A d \in Conns :
                  \/ conn[d].pc = "idle" /\ conn'[d] = conn[d]
                  \/ /\ conn[d].pc # "idle" /\ conn'[d].pc = "gone" /\ conn'[d].sock = FALSE
                     /\ conn'[d].resumed = FALSE /\ conn'[d].prev = NoRow /\ conn'[d].offer = {}
                     /\ conn'[d].row = conn[d].row /\ conn'[d].lastSc = conn[d].lastSc
  <2>1. conn' = [d \in Conns |-> IF conn[d].pc = "idle" THEN conn[d] ELSE Gone(conn[d])]
    BY <1>3 DEF Crash
  <2> QED BY <1>0, <2>1, GoneFields
<1>4. ASSUME NEW t \in senders, Allocate(t)
      PROVE  /\ conn[t.conn].lastSc - 1 \in ScIds
             /\ Effect(t.conn, conn[t.conn].pc, conn[t.conn].sock, conn[t.conn].resumed, conn[t.conn].prev,
                       conn[t.conn].offer, conn[t.conn].row, conn[t.conn].lastSc - 1)
  <2> DEFINE c == t.conn
             l == conn[c].lastSc - 1
             y == [conn[c] EXCEPT !.lastSc = l]
  <2>1. c \in Conns /\ conn' = [conn EXCEPT ![c].lastSc = l] /\ conn[c].lastSc > -MaxScOps
    BY <1>0, <1>4 DEF Allocate
  <2>2. conn[c] \in ConnType /\ conn[c].lastSc \in ScIds \cup {0}
    BY <1>0, <2>1 DEF ConnType
  <2>3. l \in ScIds
    BY <2>1, <2>2, SessionAssumption DEF ScIds
  <2> HIDE DEF l
  <2>4. conn' = [conn EXCEPT ![c] = y]
    BY <2>1, <1>0 DEF ConnType
  <2>5. y \in ConnType
    BY <2>2, <2>3, ConnFields
  <2>6. y.pc = conn[c].pc /\ y.sock = conn[c].sock /\ y.resumed = conn[c].resumed /\ y.prev = conn[c].prev
        /\ y.offer = conn[c].offer /\ y.row = conn[c].row /\ y.lastSc = l
    BY <2>2 DEF ConnType
  <2> HIDE DEF y
  <2>7. Effect(c, conn[c].pc, conn[c].sock, conn[c].resumed, conn[c].prev, conn[c].offer, conn[c].row, l)
    <3> HIDE DEF c
    <3> QED BY <1>0, <2>1, <2>4, <2>5, <2>6 DEF Effect
  <2> QED BY <2>3, <2>7 DEF l
<1>6. ASSUME NEW c \in Conns, conn' = [conn EXCEPT ![c].sock = FALSE]
      PROVE  Closes(c)
  <2>1. "closing" \in Steps /\ {} \in SUBSET Ops /\ 0 \in ScIds \cup {0} /\ conn[c].uuid \in Uuids
    BY <1>0, Zenon DEF Steps, ConnType
  <2> QED BY Assignments, <1>6, <2>1, Zenon
<1>5. ASSUME NEW t \in senders, Send(t)
      PROVE  conn' = conn \/ Closes(t.conn)
  BY <1>0, <1>5, <1>6 DEF Send
<1> QED BY <1>1, <1>2, <1>3, <1>4, <1>5, <1>6

-----------------------------------------------------------------------------
(* What the statements do to the session rows.                             *)

\* The row r alone changes: its status, its connection and its counter.
RowEffect(r, status, holder, counter) ==
  /\ rows' \in [Rows -> RowType]
  /\ \A q \in Rows : q # r => rows'[q] = rows[q]
  /\ rows'[r].status = status /\ rows'[r].conn = holder /\ rows'[r].scOp = counter

\* The rows of R are given the status s.
Marked(R, s) ==
  /\ rows' \in [Rows -> RowType]
  /\ \A q \in Rows : /\ rows'[q].status = IF q \in R THEN s ELSE rows[q].status
                     /\ rows'[q].conn = rows[q].conn /\ rows'[q].scOp = rows[q].scOp

\* A row keeps its type when one field of it is assigned.
LEMMA RowFields ==
  ASSUME NEW x \in RowType
  PROVE  /\ \A v \in {"absent", "active", "disconnected", "terminated"} : [x EXCEPT !.status = v] \in RowType
         /\ \A v \in Conns \cup {NoConn} : [x EXCEPT !.conn = v] \in RowType
         /\ \A v \in ScIds \cup {0} : [x EXCEPT !.scOp = v] \in RowType
  BY DEF RowType

\* The statements that write the rows, column by column.
LEMMA RowAssignments ==
  ASSUME TypeOK, NEW c \in Conns, NEW r \in Rows, NEW u \in Uuids, NEW l \in ScIds \cup {0},
         NEW R \in SUBSET Rows
  PROVE  /\ rows' = Terminated(R) => Marked(R, "terminated")
         /\ rows' = Reconciled => Marked(Active, "disconnected")
         /\ rows' = [rows EXCEPT ![r].status = "active", ![r].conn = c, ![r].scOp = l] => RowEffect(r, "active", c, l)
         /\ rows' = [rows EXCEPT ![r] = [status |-> "active", conn |-> c, uuid |-> u, scOp |-> 0]] =>
              RowEffect(r, "active", c, 0)
         /\ rows' = [rows EXCEPT ![r].scOp = Lower(@, l)] =>
              RowEffect(r, rows[r].status, rows[r].conn, Lower(rows[r].scOp, l))
         /\ rows' = [rows EXCEPT ![r].status = "disconnected"] =>
              RowEffect(r, "disconnected", rows[r].conn, rows[r].scOp)
<1>0. rows \in [Rows -> RowType] /\ rows[r] \in RowType /\ \A q \in Rows : rows[q] \in RowType
  BY DEF TypeOK
<1>00. ASSUME NEW x \in RowType, rows' = [rows EXCEPT ![r] = x]
       PROVE  rows' \in [Rows -> RowType] /\ rows'[r] = x /\ \A q \in Rows : q # r => rows'[q] = rows[q]
  BY <1>0, <1>00
<1>1. \A q \in Rows, s \in {"terminated", "disconnected"} :
        LET y == [rows[q] EXCEPT !.status = s] IN
        y \in RowType /\ y.status = s /\ y.conn = rows[q].conn /\ y.scOp = rows[q].scOp
  BY <1>0 DEF RowType
<1>2. ASSUME rows' = Terminated(R) PROVE Marked(R, "terminated")
  <2>1. rows' = [q \in Rows |-> IF q \in R THEN [rows[q] EXCEPT !.status = "terminated"] ELSE rows[q]]
    BY <1>2 DEF Terminated
  <2> QED BY <2>1, <1>0, <1>1 DEF Marked
<1>3. ASSUME rows' = Reconciled PROVE Marked(Active, "disconnected")
  <2>1. rows' = [q \in Rows |-> IF q \in Active THEN [rows[q] EXCEPT !.status = "disconnected"] ELSE rows[q]]
    BY <1>3 DEF Reconciled
  <2> QED BY <2>1, <1>0, <1>1 DEF Marked
<1>4. ASSUME rows' = [rows EXCEPT ![r].status = "active", ![r].conn = c, ![r].scOp = l]
      PROVE  RowEffect(r, "active", c, l)
  <2> DEFINE x1 == [rows[r] EXCEPT !.status = "active"]
             x2 == [x1 EXCEPT !.conn = c]
             x3 == [x2 EXCEPT !.scOp = l]
  <2>1. rows' = [rows EXCEPT ![r] = x3]
    BY <1>0, <1>4 DEF RowType
  <2>2. x1 \in RowType /\ x1.status = "active"
    BY <1>0 DEF RowType
  <2> HIDE DEF x1
  <2>3. x2 \in RowType /\ x2.status = x1.status /\ x2.conn = c
    BY <2>2 DEF RowType
  <2> HIDE DEF x2
  <2>4. x3 \in RowType /\ x3.status = x2.status /\ x3.conn = x2.conn /\ x3.scOp = l
    BY <2>3 DEF RowType
  <2> HIDE DEF x3
  <2> QED BY <1>00, <2>1, <2>2, <2>3, <2>4 DEF RowEffect
<1>5. ASSUME rows' = [rows EXCEPT ![r] = [status |-> "active", conn |-> c, uuid |-> u, scOp |-> 0]]
      PROVE  RowEffect(r, "active", c, 0)
  <2> DEFINE x == [status |-> "active", conn |-> c, uuid |-> u, scOp |-> 0]
  <2>1. x \in RowType /\ x.status = "active" /\ x.conn = c /\ x.scOp = 0
    BY DEF RowType
  <2>2. rows' = [rows EXCEPT ![r] = x]
    BY <1>5
  <2> HIDE DEF x
  <2> QED BY <1>00, <2>1, <2>2 DEF RowEffect
<1>6. ASSUME rows' = [rows EXCEPT ![r].scOp = Lower(@, l)]
      PROVE  RowEffect(r, rows[r].status, rows[r].conn, Lower(rows[r].scOp, l))
  <2> DEFINE m == Lower(rows[r].scOp, l)
             x == [rows[r] EXCEPT !.scOp = m]
  <2>1. m \in ScIds \cup {0}
    BY <1>0 DEF Lower, RowType
  <2>2. rows' = [rows EXCEPT ![r] = x]
    BY <1>0, <1>6 DEF RowType
  <2> HIDE DEF m
  <2>3. x \in RowType /\ x.status = rows[r].status /\ x.conn = rows[r].conn /\ x.scOp = m
    BY <1>0, <2>1 DEF RowType
  <2> HIDE DEF x
  <2>4. RowEffect(r, rows[r].status, rows[r].conn, m)
    BY <1>00, <2>2, <2>3 DEF RowEffect
  <2> QED BY <2>4 DEF m
<1>7. ASSUME rows' = [rows EXCEPT ![r].status = "disconnected"]
      PROVE  RowEffect(r, "disconnected", rows[r].conn, rows[r].scOp)
  <2> DEFINE x == [rows[r] EXCEPT !.status = "disconnected"]
  <2>1. rows' = [rows EXCEPT ![r] = x]
    BY <1>0, <1>7 DEF RowType
  <2>2. x \in RowType /\ x.status = "disconnected" /\ x.conn = rows[r].conn /\ x.scOp = rows[r].scOp
    BY <1>0 DEF RowType
  <2> HIDE DEF x
  <2> QED BY <1>00, <2>1, <2>2 DEF RowEffect
<1> QED BY <1>2, <1>3, <1>4, <1>5, <1>6, <1>7

-----------------------------------------------------------------------------
(* The inductive invariant.  Ownership: who has a row, and who can be      *)
(* written to.                                                             *)

\* The steps before a connection has a row, the steps in which it holds one
\* and the steps from which its operations can be sent.
Early    == {"idle", "connecting", "loading", "retiring", "offered", "claiming", "discarding",
             "retiring rows", "creating"}
Holding  == {"registering", "publishing", "completing", "complete", "closing", "counting", "handing back"}
Departed == {"complete", "closing", "counting", "handing back", "evicting", "gone"}

\* Nothing of a dead process lives on.
Quiescent == ~up => live = {} /\ senders = {} /\ \A c \in Conns : conn[c].pc \in {"idle", "gone"}

\* A connection in the registry has passed its activation.
LiveHolds == \A c \in live : conn[c].pc \in {"completing", "complete", "closing"} /\ conn[c].row # NoRow

\* No row before the claim or the creation; from then on a row that exists.
RowLater == \A c \in Conns : conn[c].pc \in Early => conn[c].row = NoRow
RowThere == \A c \in Conns : conn[c].row # NoRow => rows[conn[c].row].status # "absent"
PastHandshake ==
  \A c \in Conns : conn[c].pc \in {"registering", "publishing", "completing", "complete", "counting", "handing back"} =>
    conn[c].row # NoRow

\* The row of a connection names it until it is handed back or ended.
RowKept ==
  \A c \in Conns : conn[c].pc \in Holding /\ conn[c].row # NoRow =>
    rows[conn[c].row].status = "terminated" \/ HeldBy(conn[c].row, c)
OneHolder ==
  \A c, d \in Conns : conn[c].pc \in Holding /\ conn[d].pc \in Holding /\ conn[c].row # NoRow
                      /\ conn[c].row = conn[d].row => c = d
HolderRow == \A r \in Rows, c \in Conns : HeldBy(r, c) => conn[c].row = r

\* A socket that is still open after the activation is the registry's.
SockLive == \A c \in Conns : conn[c].pc \in {"completing", "complete"} /\ conn[c].sock => c \in live

OwnInv ==
  /\ Quiescent /\ LiveHolds /\ RowLater /\ RowThere /\ PastHandshake
  /\ RowKept /\ OneHolder /\ HolderRow /\ SockLive

\* What a connection remembers of the session it resumes.
ResumingAt(c) ==
  /\ conn[c].pc \in {"loading", "retiring", "claiming"} => conn[c].prev \in Rows
  /\ conn[c].pc = "claiming" => conn[c].resumed
  /\ conn[c].resumed => conn[c].prev \in Rows
  /\ conn[c].offer # {} => conn[c].resumed
  /\ conn[c].pc \in {"idle", "connecting", "loading", "retiring", "discarding", "retiring rows", "creating", "gone"} =>
       ~conn[c].resumed
  /\ conn[c].resumed /\ conn[c].row # NoRow => conn[c].row = conn[c].prev
Resuming == \A c \in Conns : ResumingAt(c)

\* Operations are sent on sessions that have a row, each under an id of its own.
SendersLate ==
  \A t \in senders :
    /\ conn[t.conn].pc \in Departed /\ conn[t.conn].row # NoRow
    /\ t.pc = "found" <=> t.id = 0
    /\ t.id # 0 => conn[t.conn].lastSc <= t.id
SendersApart == \A t, u \in senders : t.conn = u.conn /\ t.id = u.id => t = u

-----------------------------------------------------------------------------
(* Types and sessions.                                                     *)

\* What the steps do to the rows.
LEMMA RowSteps ==
  ASSUME TypeOK, Resuming, PastHandshake, SendersLate, LiveHolds
  PROVE  /\ \A c \in Conns : RetireInconsistent(c) => rows' = rows \/ Marked({conn[c].prev}, "terminated")
         /\ \A c \in Conns : RefuseConnect(c) =>
              rows' = rows \/ (conn[c].resumed /\ Marked({conn[c].prev}, "terminated"))
         /\ \A c \in Conns : ClaimRow(c) =>
              \/ rows' = rows /\ Moves(c, "closing")
              \/ /\ rows[conn[c].prev].status = "disconnected" /\ Active \subseteq {conn[c].prev}
                 /\ RowEffect(conn[c].prev, "active", c, conn[c].lastSc)
                 /\ Effect(c, "registering", conn[c].sock, conn[c].resumed, conn[c].prev, conn[c].offer,
                           conn[c].prev, conn[c].lastSc)
         /\ \A c \in Conns : DiscardActive(c) => rows' = rows \/ Marked(Active, "terminated")
         /\ \A c \in Conns : DiscardResumable(c) => rows' = rows \/ Marked(Disconnected, "terminated")
         /\ \A c \in Conns : CreateRow(c) =>
              \/ rows' = rows /\ Moves(c, "closing")
              \/ \E r \in Rows, p \in {"registering", "closing"} :
                   /\ rows[r].status = "absent" /\ Active = {}
                   /\ RowEffect(r, "active", c, 0)
                   /\ Effect(c, p, conn[c].sock, conn[c].resumed, conn[c].prev, conn[c].offer, r, 0)
         /\ \A c \in Conns : WriteFinalCounters(c) =>
              \/ rows' = rows
              \/ RowEffect(conn[c].row, rows[conn[c].row].status, rows[conn[c].row].conn,
                           Lower(rows[conn[c].row].scOp, conn[c].lastSc))
         /\ \A c \in Conns : HandBack(c) =>
              \/ rows' = rows
              \/ HeldBy(conn[c].row, c) /\ RowEffect(conn[c].row, "disconnected", c, rows[conn[c].row].scOp)
         /\ \A t \in senders : WriteCounter(t) =>
              \/ rows' = rows /\ senders' = senders \ {t}
              \/ /\ senders' = Moved(t, "counted")
                 /\ RowEffect(conn[t.conn].row, rows[conn[t.conn].row].status, rows[conn[t.conn].row].conn,
                              Lower(rows[conn[t.conn].row].scOp, conn[t.conn].lastSc))
         /\ Start => Marked(Active, "disconnected")
         /\ \A c \in live : rows' = Terminated({conn[c].row}) => Marked({conn[c].row}, "terminated")
<1>0. conn \in [Conns -> ConnType] /\ live \subseteq Conns /\ \A t \in senders : t.conn \in Conns
  BY DEF TypeOK, SenderType
<1>c. \A c \in Conns : /\ conn[c].uuid \in Uuids /\ conn[c].prev \in Rows \cup {NoRow}
                       /\ conn[c].row \in Rows \cup {NoRow} /\ conn[c].lastSc \in ScIds \cup {0}
  BY <1>0 DEF ConnType
<1>t. \A R \in SUBSET Rows : Conns # {} /\ Rows # {} /\ rows' = Terminated(R) => Marked(R, "terminated")
  <2>1. (CHOOSE u \in Uuids : TRUE) \in Uuids /\ 0 \in ScIds \cup {0}
    BY SessionAssumption
  <2> QED BY <2>1, RowAssignments, Zenon
<1>r. Active \in SUBSET Rows /\ Disconnected \in SUBSET Rows
  BY DEF Active, Disconnected
<1>e. ASSUME Rows = {}, NEW R \in SUBSET Rows, rows' = Terminated(R)
      PROVE  Marked(R, "terminated")
  BY <1>e DEF Marked, Terminated
<1>1. ASSUME NEW c \in Conns, RetireInconsistent(c)
      PROVE  rows' = rows \/ Marked({conn[c].prev}, "terminated")
  <2>1. conn[c].prev \in Rows
    BY <1>1, Zenon DEF RetireInconsistent, Resuming, ResumingAt
  <2>2. rows' = rows \/ rows' = Terminated({conn[c].prev})
    BY <1>1 DEF RetireInconsistent, dbVars
  <2> QED BY <2>1, <2>2, <1>t
<1>2. ASSUME NEW c \in Conns, RefuseConnect(c)
      PROVE  rows' = rows \/ (conn[c].resumed /\ Marked({conn[c].prev}, "terminated"))
  <2>1. rows' = rows \/ (conn[c].resumed /\ rows' = Terminated({conn[c].prev}))
    BY <1>2 DEF RefuseConnect, dbVars
  <2>2. conn[c].resumed => conn[c].prev \in Rows
    BY Zenon DEF Resuming, ResumingAt
  <2> QED BY <2>1, <2>2, <1>t
<1>3. ASSUME NEW c \in Conns, ClaimRow(c)
      PROVE  \/ rows' = rows /\ Moves(c, "closing")
             \/ /\ rows[conn[c].prev].status = "disconnected" /\ Active \subseteq {conn[c].prev}
                /\ RowEffect(conn[c].prev, "active", c, conn[c].lastSc)
                /\ Effect(c, "registering", conn[c].sock, conn[c].resumed, conn[c].prev, conn[c].offer,
                          conn[c].prev, conn[c].lastSc)
  <2>1. conn[c].prev \in Rows /\ conn[c].pc # "loading"
    BY <1>3, Zenon DEF ClaimRow, Resuming, ResumingAt
  <2>2. \/ rows' = rows /\ Moves(c, "closing")
        \/ /\ Resumable(conn[c].prev) /\ Active \subseteq {conn[c].prev}
           /\ rows' = [rows EXCEPT ![conn[c].prev].status = "active", ![conn[c].prev].conn = c,
                                   ![conn[c].prev].scOp = conn[c].lastSc]
           /\ Effect(c, "registering", conn[c].sock, conn[c].resumed, conn[c].prev, conn[c].offer,
                     conn[c].prev, conn[c].lastSc)
    BY <1>3, <2>1, ConnSteps, Zenon
  <2> DEFINE r == conn[c].prev
             l == conn[c].lastSc
  <2>3. rows' = [rows EXCEPT ![r].status = "active", ![r].conn = c, ![r].scOp = l] => RowEffect(r, "active", c, l)
    <3>1. r \in Rows /\ l \in ScIds \cup {0}
      BY <2>1, <1>c
    <3> HIDE DEF r, l
    <3> QED BY <3>1, <1>c, RowAssignments, Zenon
  <2> QED BY <2>2, <2>3 DEF Resumable
<1>4. ASSUME NEW c \in Conns, DiscardActive(c)
      PROVE  rows' = rows \/ Marked(Active, "terminated")
  <2>1. rows' = rows \/ rows' = Terminated(Active)
    BY <1>4, Zenon DEF DiscardActive, dbVars
  <2> QED BY <2>1, <1>t, <1>r, <1>e
<1>5. ASSUME NEW c \in Conns, DiscardResumable(c)
      PROVE  rows' = rows \/ Marked(Disconnected, "terminated")
  <2>1. rows' = rows \/ rows' = Terminated(Disconnected)
    BY <1>5, Zenon DEF DiscardResumable, dbVars
  <2> QED BY <2>1, <1>t, <1>r, <1>e
<1>6. ASSUME NEW c \in Conns, CreateRow(c)
      PROVE  \/ rows' = rows /\ Moves(c, "closing")
             \/ \E r \in Rows, p \in {"registering", "closing"} :
                  /\ rows[r].status = "absent" /\ Active = {}
                  /\ RowEffect(r, "active", c, 0)
                  /\ Effect(c, p, conn[c].sock, conn[c].resumed, conn[c].prev, conn[c].offer, r, 0)
  <2>1. conn[c].pc # "loading"
    BY <1>6, Zenon DEF CreateRow
  <2>2. \/ Moves(c, "closing") /\ rows' = rows
        \/ \E r \in Rows, p \in {"registering", "closing"} :
             /\ rows[r].status = "absent" /\ Active = {}
             /\ rows' = [rows EXCEPT ![r] = [status |-> "active", conn |-> c, uuid |-> conn[c].uuid, scOp |-> 0]]
             /\ Effect(c, p, conn[c].sock, conn[c].resumed, conn[c].prev, conn[c].offer, r, 0)
    BY <1>6, <2>1, ConnSteps, Zenon
  <2> DEFINE u == conn[c].uuid
  <2>3. \A r \in Rows : rows' = [rows EXCEPT ![r] = [status |-> "active", conn |-> c, uuid |-> u, scOp |-> 0]]
                          => RowEffect(r, "active", c, 0)
    <3>1. u \in Uuids
      BY <1>c
    <3> HIDE DEF u
    <3> QED BY <3>1, <1>c, RowAssignments, Zenon
  <2> QED BY <2>2, <2>3
<1>7. ASSUME NEW c \in Conns, conn[c].row # NoRow,
             rows' = [rows EXCEPT ![conn[c].row].scOp = Lower(@, conn[c].lastSc)]
      PROVE  RowEffect(conn[c].row, rows[conn[c].row].status, rows[conn[c].row].conn,
                       Lower(rows[conn[c].row].scOp, conn[c].lastSc))
  <2> DEFINE r == conn[c].row
             l == conn[c].lastSc
  <2>1. r \in Rows /\ l \in ScIds \cup {0} /\ rows' = [rows EXCEPT ![r].scOp = Lower(@, l)]
    BY <1>c, <1>7
  <2>2. RowEffect(r, rows[r].status, rows[r].conn, Lower(rows[r].scOp, l))
    <3> HIDE DEF r, l
    <3> QED BY <2>1, <1>c, RowAssignments, Zenon
  <2> QED BY <2>2
<1>8. ASSUME NEW c \in Conns, WriteFinalCounters(c)
      PROVE  \/ rows' = rows
             \/ RowEffect(conn[c].row, rows[conn[c].row].status, rows[conn[c].row].conn,
                          Lower(rows[conn[c].row].scOp, conn[c].lastSc))
  <2>1. conn[c].row # NoRow
    BY <1>8, Zenon DEF WriteFinalCounters, PastHandshake
  <2>2. rows' = rows \/ rows' = [rows EXCEPT ![conn[c].row].scOp = Lower(@, conn[c].lastSc)]
    BY <1>8, Zenon DEF WriteFinalCounters
  <2> QED BY <2>1, <2>2, <1>7
<1>9. ASSUME NEW c \in Conns, HandBack(c)
      PROVE  \/ rows' = rows
             \/ HeldBy(conn[c].row, c) /\ RowEffect(conn[c].row, "disconnected", c, rows[conn[c].row].scOp)
  <2>1. conn[c].row \in Rows
    BY <1>9, <1>c, Zenon DEF HandBack, PastHandshake
  <2>2. rows' = rows \/ (HeldBy(conn[c].row, c) /\ rows' = [rows EXCEPT ![conn[c].row].status = "disconnected"])
    BY <1>9, Zenon DEF HandBack
  <2> DEFINE r == conn[c].row
  <2>3. rows' = [rows EXCEPT ![r].status = "disconnected"] => RowEffect(r, "disconnected", rows[r].conn, rows[r].scOp)
    <3>1. r \in Rows
      BY <2>1
    <3> HIDE DEF r
    <3> QED BY <3>1, <1>c, RowAssignments, Zenon
  <2> QED BY <2>2, <2>3 DEF HeldBy
<1>10. ASSUME NEW t \in senders, WriteCounter(t)
       PROVE  \/ rows' = rows /\ senders' = senders \ {t}
              \/ /\ senders' = Moved(t, "counted")
                 /\ RowEffect(conn[t.conn].row, rows[conn[t.conn].row].status, rows[conn[t.conn].row].conn,
                              Lower(rows[conn[t.conn].row].scOp, conn[t.conn].lastSc))
  <2>1. conn[t.conn].row # NoRow /\ t.conn \in Conns
    BY <1>0 DEF SendersLate
  <2>2. \/ rows' = rows /\ senders' = senders \ {t}
        \/ senders' = Moved(t, "counted") /\ rows' = [rows EXCEPT ![conn[t.conn].row].scOp = Lower(@, conn[t.conn].lastSc)]
    BY <1>10 DEF WriteCounter
  <2> QED BY <2>1, <2>2, <1>7
<1>11. ASSUME Start PROVE Marked(Active, "disconnected")
  <2>1. rows' = [q \in Rows |-> IF q \in Active THEN [rows[q] EXCEPT !.status = "disconnected"] ELSE rows[q]]
    BY <1>11 DEF Start, Reconciled
  <2>2. \A q \in Rows : LET y == [rows[q] EXCEPT !.status = "disconnected"] IN
          y \in RowType /\ y.status = "disconnected" /\ y.conn = rows[q].conn /\ y.scOp = rows[q].scOp
    BY DEF TypeOK, RowType
  <2>3. rows \in [Rows -> RowType]
    BY DEF TypeOK
  <2> QED BY <2>1, <2>2, <2>3 DEF Marked
<1>12. ASSUME NEW c \in live, rows' = Terminated({conn[c].row})
       PROVE  Marked({conn[c].row}, "terminated")
  <2>1. conn[c].row \in Rows
    BY <1>0, <1>c DEF LiveHolds
  <2> QED BY <2>1, <1>12, <1>t, <1>0
<1> QED BY <1>1, <1>2, <1>3, <1>4, <1>5, <1>6, <1>8, <1>9, <1>10, <1>11, <1>12

\* Every step keeps the types of the connections.
LEMMA ConnTypes ==
  ASSUME TypeOK, Resuming, Next
  PROVE  conn' \in [Conns -> ConnType]
<1>0. conn \in [Conns -> ConnType] /\ live \subseteq Conns /\ \A t \in senders : t.conn \in Conns
  BY DEF TypeOK, SenderType
<1>l. \A c \in Conns : conn[c].pc = "loading" => conn[c].prev \in Rows
  BY Zenon DEF Resuming, ResumingAt
<1>r. \A c \in Conns : conn[c].resumed => conn[c].prev \in Rows
  BY Zenon DEF Resuming, ResumingAt
<1>1. ASSUME NEW c \in Conns, Accept(c) PROVE conn' \in [Conns -> ConnType]
  BY <1>1, <1>l, <1>r, ConnSteps, Zenon DEF Effect, Moves, Closes
<1>2. ASSUME NEW c \in Conns, RejectConnect(c) PROVE conn' \in [Conns -> ConnType]
  BY <1>2, <1>l, <1>r, ConnSteps, Zenon DEF Effect, Moves, Closes
<1>3. ASSUME NEW c \in Conns, Connect(c) PROVE conn' \in [Conns -> ConnType]
  BY <1>3, <1>l, <1>r, ConnSteps, Zenon DEF Effect, Moves, Closes
<1>4. ASSUME NEW c \in Conns, RetireInconsistent(c) PROVE conn' \in [Conns -> ConnType]
  BY <1>4, <1>l, <1>r, ConnSteps, Zenon DEF Effect, Moves, Closes
<1>5. ASSUME NEW c \in Conns, OfferResume(c) PROVE conn' \in [Conns -> ConnType]
  BY <1>5, <1>l, <1>r, ConnSteps, Zenon DEF Effect, Moves, Closes
<1>6. ASSUME NEW c \in Conns, RefuseConnect(c) PROVE conn' \in [Conns -> ConnType]
  BY <1>6, <1>l, <1>r, ConnSteps, Zenon DEF Effect, Moves, Closes
<1>7. ASSUME NEW c \in Conns, ConnectComplete(c) PROVE conn' \in [Conns -> ConnType]
  BY <1>7, <1>l, <1>r, ConnSteps, Zenon DEF Effect, Moves, Closes
<1>8. ASSUME NEW c \in Conns, ClaimRow(c) PROVE conn' \in [Conns -> ConnType]
  BY <1>8, <1>l, <1>r, ConnSteps, Zenon DEF Effect, Moves, Closes
<1>9. ASSUME NEW c \in Conns, DiscardActive(c) PROVE conn' \in [Conns -> ConnType]
  BY <1>9, <1>l, <1>r, ConnSteps, Zenon DEF Effect, Moves, Closes
<1>10. ASSUME NEW c \in Conns, DiscardResumable(c) PROVE conn' \in [Conns -> ConnType]
  BY <1>10, <1>l, <1>r, ConnSteps, Zenon DEF Effect, Moves, Closes
<1>11. ASSUME NEW c \in Conns, CreateRow(c) PROVE conn' \in [Conns -> ConnType]
  BY <1>11, <1>l, <1>r, ConnSteps, Zenon DEF Effect, Moves, Closes
<1>12. ASSUME NEW c \in Conns, Register(c) PROVE conn' \in [Conns -> ConnType]
  BY <1>12, <1>l, <1>r, ConnSteps, Zenon DEF Effect, Moves, Closes
<1>13. ASSUME NEW c \in Conns, Publish(c) PROVE conn' \in [Conns -> ConnType]
  BY <1>13, MoreConnSteps DEF Effect
<1>14. ASSUME NEW c \in Conns, CompleteHandshake(c) PROVE conn' \in [Conns -> ConnType]
  BY <1>14, <1>l, <1>r, ConnSteps, Zenon DEF Effect, Moves, Closes
<1>15. ASSUME NEW c \in Conns, Lookup(c) PROVE conn' \in [Conns -> ConnType]
  BY <1>15, <1>0 DEF Lookup
<1>16. ASSUME NEW c \in Conns, Answer(c) PROVE conn' \in [Conns -> ConnType]
  BY <1>16, <1>0 DEF Answer
<1>17. ASSUME NEW c \in Conns, Break(c) PROVE conn' \in [Conns -> ConnType]
  BY <1>17, <1>l, <1>r, ConnSteps, Zenon DEF Effect, Moves, Closes
<1>18. ASSUME NEW c \in Conns, EndReading(c) PROVE conn' \in [Conns -> ConnType]
  BY <1>18, <1>l, <1>r, ConnSteps, Zenon DEF Effect, Moves, Closes
<1>19. ASSUME NEW c \in Conns, Unpublish(c) PROVE conn' \in [Conns -> ConnType]
  BY <1>19, <1>l, <1>r, ConnSteps, Zenon DEF Effect, Moves, Closes
<1>20. ASSUME NEW c \in Conns, WriteFinalCounters(c) PROVE conn' \in [Conns -> ConnType]
  BY <1>20, <1>l, <1>r, ConnSteps, Zenon DEF Effect, Moves, Closes
<1>21. ASSUME NEW c \in Conns, HandBack(c) PROVE conn' \in [Conns -> ConnType]
  BY <1>21, <1>l, <1>r, ConnSteps, Zenon DEF Effect, Moves, Closes
<1>22. ASSUME NEW c \in Conns, Evict(c) PROVE conn' \in [Conns -> ConnType]
  BY <1>22, MoreConnSteps DEF Effect
<1>23. ASSUME NEW t \in senders, Allocate(t) PROVE conn' \in [Conns -> ConnType]
  BY <1>23, <1>0, MoreConnSteps DEF Effect, Closes
<1>24. ASSUME NEW t \in senders, WriteCounter(t) PROVE conn' \in [Conns -> ConnType]
  BY <1>24, <1>0 DEF WriteCounter
<1>25. ASSUME NEW t \in senders, Record(t) PROVE conn' \in [Conns -> ConnType]
  BY <1>25, <1>0 DEF Record
<1>26. ASSUME NEW t \in senders, Send(t) PROVE conn' \in [Conns -> ConnType]
  BY <1>26, <1>0, MoreConnSteps DEF Effect, Closes
<1>27. ASSUME CloseSessionByEUI PROVE conn' \in [Conns -> ConnType]
  BY <1>27, <1>0, MoreConnSteps DEF CloseSessionByEUI, Effect, Closes
<1>28. ASSUME Crash PROVE conn' \in [Conns -> ConnType]
  BY <1>28, <1>0, MoreConnSteps DEF Crash, Effect, Closes
<1>29. ASSUME Start PROVE conn' \in [Conns -> ConnType]
  BY <1>29, <1>0, MoreConnSteps DEF Start, Effect, Closes
<1> QED BY <1>1, <1>2, <1>3, <1>4, <1>5, <1>6, <1>7, <1>8, <1>9, <1>10, <1>11, <1>12, <1>13, <1>14, <1>15, <1>16, <1>17, <1>18, <1>19, <1>20, <1>21, <1>22, <1>23, <1>24, <1>25, <1>26, <1>27, <1>28, <1>29
        DEF Next, Activate, Teardown, Sending

\* Every step keeps the types of the rows.
LEMMA RowTypes ==
  ASSUME TypeOK, Resuming, PastHandshake, SendersLate, LiveHolds, Next
  PROVE  rows' \in [Rows -> RowType]
<1>0. rows \in [Rows -> RowType]
  BY DEF TypeOK
<1>1. ASSUME NEW c \in Conns, Accept(c) PROVE rows' \in [Rows -> RowType]
  BY <1>1, <1>0 DEF Accept, dbVars
<1>2. ASSUME NEW c \in Conns, RejectConnect(c) PROVE rows' \in [Rows -> RowType]
  BY <1>2, <1>0 DEF RejectConnect, dbVars
<1>3. ASSUME NEW c \in Conns, Connect(c) PROVE rows' \in [Rows -> RowType]
  BY <1>3, <1>0 DEF Connect, dbVars
<1>4. ASSUME NEW c \in Conns, RetireInconsistent(c) PROVE rows' \in [Rows -> RowType]
  BY <1>4, <1>0, RowSteps DEF RowEffect, Marked
<1>5. ASSUME NEW c \in Conns, OfferResume(c) PROVE rows' \in [Rows -> RowType]
  BY <1>5, <1>0 DEF OfferResume, dbVars
<1>6. ASSUME NEW c \in Conns, RefuseConnect(c) PROVE rows' \in [Rows -> RowType]
  BY <1>6, <1>0, RowSteps DEF RowEffect, Marked
<1>7. ASSUME NEW c \in Conns, ConnectComplete(c) PROVE rows' \in [Rows -> RowType]
  BY <1>7, <1>0 DEF ConnectComplete, dbVars
<1>8. ASSUME NEW c \in Conns, ClaimRow(c) PROVE rows' \in [Rows -> RowType]
  BY <1>8, <1>0, RowSteps DEF RowEffect, Marked
<1>9. ASSUME NEW c \in Conns, DiscardActive(c) PROVE rows' \in [Rows -> RowType]
  BY <1>9, <1>0, RowSteps DEF RowEffect, Marked
<1>10. ASSUME NEW c \in Conns, DiscardResumable(c) PROVE rows' \in [Rows -> RowType]
  BY <1>10, <1>0, RowSteps DEF RowEffect, Marked
<1>11. ASSUME NEW c \in Conns, CreateRow(c) PROVE rows' \in [Rows -> RowType]
  BY <1>11, <1>0, RowSteps DEF RowEffect, Marked
<1>12. ASSUME NEW c \in Conns, Register(c) PROVE rows' \in [Rows -> RowType]
  BY <1>12, <1>0 DEF Register, dbVars
<1>13. ASSUME NEW c \in Conns, Publish(c) PROVE rows' \in [Rows -> RowType]
  BY <1>13, <1>0 DEF Publish, dbVars
<1>14. ASSUME NEW c \in Conns, CompleteHandshake(c) PROVE rows' \in [Rows -> RowType]
  BY <1>14, <1>0 DEF CompleteHandshake, dbVars
<1>15. ASSUME NEW c \in Conns, Lookup(c) PROVE rows' \in [Rows -> RowType]
  BY <1>15, <1>0 DEF Lookup, dbVars
<1>16. ASSUME NEW c \in Conns, Answer(c) PROVE rows' \in [Rows -> RowType]
  BY <1>16, <1>0 DEF Answer, dbVars
<1>17. ASSUME NEW c \in Conns, Break(c) PROVE rows' \in [Rows -> RowType]
  BY <1>17, <1>0 DEF Break, dbVars
<1>18. ASSUME NEW c \in Conns, EndReading(c) PROVE rows' \in [Rows -> RowType]
  BY <1>18, <1>0 DEF EndReading, dbVars
<1>19. ASSUME NEW c \in Conns, Unpublish(c) PROVE rows' \in [Rows -> RowType]
  BY <1>19, <1>0 DEF Unpublish, dbVars
<1>20. ASSUME NEW c \in Conns, WriteFinalCounters(c) PROVE rows' \in [Rows -> RowType]
  BY <1>20, <1>0, RowSteps DEF RowEffect, Marked
<1>21. ASSUME NEW c \in Conns, HandBack(c) PROVE rows' \in [Rows -> RowType]
  BY <1>21, <1>0, RowSteps DEF RowEffect, Marked
<1>22. ASSUME NEW c \in Conns, Evict(c) PROVE rows' \in [Rows -> RowType]
  BY <1>22, <1>0 DEF Evict, dbVars
<1>23. ASSUME NEW t \in senders, Allocate(t) PROVE rows' \in [Rows -> RowType]
  BY <1>23, <1>0 DEF Allocate, dbVars
<1>24. ASSUME NEW t \in senders, WriteCounter(t) PROVE rows' \in [Rows -> RowType]
  BY <1>24, <1>0, RowSteps DEF RowEffect, Marked
<1>25. ASSUME NEW t \in senders, Record(t) PROVE rows' \in [Rows -> RowType]
  BY <1>25, <1>0 DEF Record, dbVars
<1>26. ASSUME NEW t \in senders, Send(t) PROVE rows' \in [Rows -> RowType]
  BY <1>26, <1>0 DEF Send, dbVars
<1>27. ASSUME CloseSessionByEUI PROVE rows' \in [Rows -> RowType]
  BY <1>27, <1>0, RowSteps DEF CloseSessionByEUI, Marked
<1>28. ASSUME Crash PROVE rows' \in [Rows -> RowType]
  BY <1>28, <1>0 DEF Crash, dbVars
<1>29. ASSUME Start PROVE rows' \in [Rows -> RowType]
  BY <1>29, <1>0, RowSteps DEF RowEffect, Marked
<1> QED BY <1>1, <1>2, <1>3, <1>4, <1>5, <1>6, <1>7, <1>8, <1>9, <1>10, <1>11, <1>12, <1>13, <1>14, <1>15, <1>16, <1>17, <1>18, <1>19, <1>20, <1>21, <1>22, <1>23, <1>24, <1>25, <1>26, <1>27, <1>28, <1>29
        DEF Next, Activate, Teardown, Sending

\* The other variables' types.
RestType ==
  /\ journal \in [Rows -> SUBSET Ops] /\ live \subseteq Conns /\ cache \in [Conns -> SUBSET ScIds]
  /\ senders \subseteq SenderType /\ up \in BOOLEAN /\ unreadable \subseteq IssueType
  /\ faults \in 0..MaxFaults /\ crashes \in 0..MaxCrashes /\ issued \subseteq IssueType
  /\ open \subseteq IssueType /\ contested \subseteq Rows

\* Every step keeps the types of the other variables.
LEMMA RestTypes ==
  ASSUME TypeOK, Resuming, SendersLate, PastHandshake, Next
  PROVE  RestType'
<1>0. RestType
  BY DEF RestType, TypeOK
<1>b. MaxFaults \in Nat /\ MaxCrashes \in Nat
  BY SessionAssumption
<1>f. faults' = faults \/ Fault => faults' \in 0..MaxFaults
  BY <1>0, <1>b DEF RestType, Fault
<1>c. \A c \in Conns : conn[c].row \in Rows /\ Contending(c) => contested' \subseteq Rows
  BY <1>0 DEF RestType, Contending
<1>d. ASSUME NEW R \in SUBSET Rows, journal' = Discarded(R) \/ journal' = journal PROVE journal' \in [Rows -> SUBSET Ops]
  BY <1>0, <1>d DEF RestType, Discarded
<1>r. \A c \in Conns : /\ conn[c].row \in Rows \cup {NoRow} /\ conn[c].prev \in Rows \cup {NoRow}
                       /\ conn[c].offer \in SUBSET Ops /\ conn[c].lastSc \in ScIds \cup {0}
  BY DEF TypeOK, ConnType
<1>t. \A t \in senders : t.conn \in Conns /\ conn[t.conn].row \in Rows /\ (t.pc # "found" => t.id \in ScIds)
  BY <1>r DEF TypeOK, SenderType, SendersLate
<1>1. ASSUME NEW c \in Conns, Accept(c) PROVE RestType'
  BY <1>0, <1>f, <1>1 DEF Accept, RestType, dbVars, ghostVars
<1>2. ASSUME NEW c \in Conns, RejectConnect(c) PROVE RestType'
  BY <1>0, <1>f, <1>2 DEF RejectConnect, RestType, dbVars, ghostVars
<1>3. ASSUME NEW c \in Conns, Connect(c) PROVE RestType'
  BY <1>0, <1>f, <1>3 DEF Connect, RestType, dbVars, ghostVars
<1>4. ASSUME NEW c \in Conns, RetireInconsistent(c) PROVE RestType'
  <2>1. journal' = journal \/ ({conn[c].prev} \in SUBSET Rows /\ journal' = Discarded({conn[c].prev}))
    BY <1>4, Zenon DEF RetireInconsistent, dbVars, Resuming, ResumingAt, Active, Disconnected
  <2>2. UNCHANGED <<live, cache, senders, up, unreadable, crashes, issued, open, contested>> /\ (faults' = faults \/ Fault)
    BY <1>4 DEF RetireInconsistent
  <2>3. journal' \in [Rows -> SUBSET Ops]
    BY <2>1, <1>d
  <2> QED BY <1>0, <1>f, <2>2, <2>3 DEF RestType
<1>5. ASSUME NEW c \in Conns, OfferResume(c) PROVE RestType'
  <2>1. conn[c].prev \in Rows /\ conn[c].pc = "loading"
    BY <1>5, Zenon DEF OfferResume, Resuming, ResumingAt
  <2>2. journal' \in [Rows -> SUBSET Ops] /\ open' \subseteq IssueType
    BY <1>0, <1>5, <2>1 DEF OfferResume, RestType
  <2>3. UNCHANGED <<live, cache, senders, up, unreadable, crashes, issued, contested>> /\ (faults' = faults \/ Fault)
    BY <1>5 DEF OfferResume
  <2> QED BY <1>0, <1>f, <2>2, <2>3 DEF RestType
<1>6. ASSUME NEW c \in Conns, RefuseConnect(c) PROVE RestType'
  <2>1. journal' = journal \/ ({conn[c].prev} \in SUBSET Rows /\ journal' = Discarded({conn[c].prev}))
    BY <1>6, Zenon DEF RefuseConnect, dbVars, Resuming, ResumingAt, Active, Disconnected
  <2>2. UNCHANGED <<live, cache, senders, up, unreadable, crashes, issued, open, contested>> /\ (faults' = faults \/ Fault)
    BY <1>6 DEF RefuseConnect
  <2>3. journal' \in [Rows -> SUBSET Ops]
    BY <2>1, <1>d
  <2> QED BY <1>0, <1>f, <2>2, <2>3 DEF RestType
<1>7. ASSUME NEW c \in Conns, ConnectComplete(c) PROVE RestType'
  BY <1>0, <1>f, <1>7 DEF ConnectComplete, RestType, dbVars, ghostVars
<1>8. ASSUME NEW c \in Conns, ClaimRow(c) PROVE RestType'
  BY <1>0, <1>f, <1>8 DEF ClaimRow, RestType, dbVars, ghostVars
<1>9. ASSUME NEW c \in Conns, DiscardActive(c) PROVE RestType'
  <2>1. journal' = journal \/ (Active \in SUBSET Rows /\ journal' = Discarded(Active))
    BY <1>9, Zenon DEF DiscardActive, dbVars, Resuming, ResumingAt, Active, Disconnected
  <2>2. UNCHANGED <<live, cache, senders, up, unreadable, crashes, issued, open, contested>> /\ (faults' = faults \/ Fault)
    BY <1>9, Zenon DEF DiscardActive
  <2>3. journal' \in [Rows -> SUBSET Ops]
    BY <2>1, <1>d
  <2> QED BY <1>0, <1>f, <2>2, <2>3 DEF RestType
<1>10. ASSUME NEW c \in Conns, DiscardResumable(c) PROVE RestType'
  <2>1. journal' = journal \/ (Disconnected \in SUBSET Rows /\ journal' = Discarded(Disconnected))
    BY <1>10, Zenon DEF DiscardResumable, dbVars, Resuming, ResumingAt, Active, Disconnected
  <2>2. UNCHANGED <<live, cache, senders, up, unreadable, crashes, issued, open, contested>> /\ (faults' = faults \/ Fault)
    BY <1>10, Zenon DEF DiscardResumable
  <2>3. journal' \in [Rows -> SUBSET Ops]
    BY <2>1, <1>d
  <2> QED BY <1>0, <1>f, <2>2, <2>3 DEF RestType
<1>11. ASSUME NEW c \in Conns, CreateRow(c) PROVE RestType'
  <2>1. faults' \in 0..MaxFaults
    <3>1. \/ faults' = faults \/ Fault
          \/ \E next \in {"registering", "closing"} :
               /\ next = "closing" => faults < MaxFaults
               /\ faults' = faults + (IF next = "closing" THEN 1 ELSE 0)
      BY <1>11, Zenon DEF CreateRow
    <3>2. faults \in 0..MaxFaults
      BY <1>0 DEF RestType
    <3> QED BY <1>b, <1>f, <3>1, <3>2
  <2> QED BY <1>0, <1>11, <2>1, Zenon DEF CreateRow, RestType, ghostVars
<1>12. ASSUME NEW c \in Conns, Register(c) PROVE RestType'
  BY <1>0, <1>f, <1>12 DEF Register, RestType, dbVars, ghostVars
<1>13. ASSUME NEW c \in Conns, Publish(c) PROVE RestType'
  BY <1>0, <1>f, <1>13 DEF Publish, RestType, dbVars, ghostVars
<1>14. ASSUME NEW c \in Conns, CompleteHandshake(c) PROVE RestType'
  <2>1. conn[c].row \in Rows
    BY <1>14, <1>r, Zenon DEF CompleteHandshake, PastHandshake
  <2>2. cache' \in [Conns -> SUBSET ScIds]
    BY <1>0, <1>r, <1>14 DEF CompleteHandshake, Hydrated, Ops, RestType
  <2>3. open' \subseteq IssueType
    <3>1. \A e \in conn[c].offer : [row |-> conn[c].row, id |-> e.id, by |-> e.by] \in IssueType
      BY <1>r, <2>1 DEF Ops, IssueType
    <3> QED BY <1>0, <1>14, <3>1 DEF CompleteHandshake, RestType
  <2> QED BY <1>0, <1>14, <2>2, <2>3 DEF CompleteHandshake, RestType, dbVars
<1>15. ASSUME NEW c \in Conns, Lookup(c) PROVE RestType'
  BY <1>0, <1>15 DEF Lookup, RestType, SenderType, ScIds, dbVars, ghostVars
<1>16. ASSUME NEW c \in Conns, Answer(c) PROVE RestType'
  <2>1. conn[c].row \in Rows
    BY <1>16, <1>r, Zenon DEF Answer, PastHandshake
  <2>2. contested' \subseteq Rows /\ (faults' = faults \/ Fault)
    BY <1>16, <2>1, <1>c DEF Answer
  <2>3. journal' \in [Rows -> SUBSET Ops]
    BY <1>0, <1>16 DEF Answer, Without, RestType
  <2>4. cache' \in [Conns -> SUBSET ScIds] /\ open' \subseteq IssueType
    BY <1>0, <1>16 DEF Answer, RestType
  <2> QED BY <1>0, <1>f, <1>16, <2>2, <2>3, <2>4 DEF Answer, RestType
<1>17. ASSUME NEW c \in Conns, Break(c) PROVE RestType'
  BY <1>0, <1>f, <1>17 DEF Break, RestType, dbVars, ghostVars
<1>18. ASSUME NEW c \in Conns, EndReading(c) PROVE RestType'
  BY <1>0, <1>f, <1>18 DEF EndReading, RestType, dbVars, ghostVars
<1>19. ASSUME NEW c \in Conns, Unpublish(c) PROVE RestType'
  BY <1>0, <1>f, <1>19 DEF Unpublish, RestType, dbVars, ghostVars
<1>20. ASSUME NEW c \in Conns, WriteFinalCounters(c) PROVE RestType'
  BY <1>0, <1>f, <1>20, Zenon DEF WriteFinalCounters, RestType, dbVars, ghostVars
<1>21. ASSUME NEW c \in Conns, HandBack(c) PROVE RestType'
  BY <1>0, <1>f, <1>21, Zenon DEF HandBack, RestType, dbVars, ghostVars
<1>22. ASSUME NEW c \in Conns, Evict(c) PROVE RestType'
  BY <1>0, <1>f, <1>22 DEF Evict, RestType, dbVars, ghostVars
<1>23. ASSUME NEW t \in senders, Allocate(t) PROVE RestType'
  <2>1. contested' \subseteq Rows
    BY <1>23, <1>t, <1>c DEF Allocate
  <2>2. senders' = (senders \ {t}) \cup {[conn |-> t.conn, id |-> conn[t.conn].lastSc - 1, pc |-> "allocated"]}
    BY <1>23 DEF Allocate
  <2>3. senders' \subseteq SenderType
    BY <1>0, <1>23, <1>t, <2>2, MoreConnSteps DEF RestType, SenderType
  <2> QED BY <1>0, <1>23, <2>1, <2>3 DEF Allocate, RestType, dbVars
<1>24. ASSUME NEW t \in senders, WriteCounter(t) PROVE RestType'
  <2>1. \A p \in {"counted", "recorded"} : Moved(t, p) \subseteq SenderType
    BY <1>0 DEF Moved, RestType, SenderType
  <2>2. senders' \subseteq SenderType /\ (faults' = faults \/ Fault)
    BY <1>0, <1>24, <2>1 DEF WriteCounter, RestType
  <2> QED BY <1>0, <1>f, <1>24, <2>2 DEF WriteCounter, RestType, ghostVars
<1>25. ASSUME NEW t \in senders, Record(t) PROVE RestType'
  <2>0. t.id \in ScIds /\ t.conn \in Conns /\ conn[t.conn].row \in Rows
    BY <1>25, <1>t DEF Record
  <2>1. \A p \in {"counted", "recorded"} : Moved(t, p) \subseteq SenderType
    BY <1>0 DEF Moved, RestType, SenderType
  <2>2. senders' \subseteq SenderType /\ (faults' = faults \/ Fault)
    BY <1>0, <1>25, <2>1 DEF Record, RestType
  <2>3. contested' \subseteq Rows
    BY <1>25, <1>t, <1>c DEF Record
  <2>4. journal' \in [Rows -> SUBSET Ops]
    BY <1>0, <1>25, <2>0 DEF Record, Recorded, Upsert, RestType, Ops
  <2>5. cache' \in [Conns -> SUBSET ScIds] /\ issued' \subseteq IssueType
    BY <1>0, <1>25, <2>0 DEF Record, RestType, IssueType
  <2> QED BY <1>0, <1>f, <1>25, <2>2, <2>3, <2>4, <2>5 DEF Record, RestType
<1>26. ASSUME NEW t \in senders, Send(t) PROVE RestType'
  <2>0. t.id \in ScIds /\ t.conn \in Conns /\ conn[t.conn].row \in Rows
    BY <1>26, <1>t DEF Send
  <2>2. senders' \subseteq SenderType /\ (faults' = faults \/ Fault)
    BY <1>0, <1>26 DEF Send, RestType
  <2>3. contested' \subseteq Rows
    BY <1>26, <1>t, <1>c DEF Send
  <2>4. journal' \in [Rows -> SUBSET Ops]
    BY <1>0, <1>26 DEF Send, Without, RestType
  <2>5. cache' \in [Conns -> SUBSET ScIds]
    BY <1>0, <1>26 DEF Send, RestType
  <2>6. open' \subseteq IssueType
    BY <1>0, <1>26, <2>0 DEF Send, RestType, IssueType
  <2> QED BY <1>0, <1>f, <1>26, <2>2, <2>3, <2>4, <2>5, <2>6 DEF Send, RestType
<1>27. ASSUME CloseSessionByEUI PROVE RestType'
  BY <1>0, <1>b, <1>f, <1>27 DEF CloseSessionByEUI, RestType, dbVars, ghostVars
<1>28. ASSUME Crash PROVE RestType'
  <2>1. crashes' \in 0..MaxCrashes
    BY <1>0, <1>b, <1>28 DEF Crash, RestType
  <2>2. cache' \in [Conns -> SUBSET ScIds] /\ live' \subseteq Conns /\ senders' \subseteq SenderType /\ up' \in BOOLEAN
    BY <1>28 DEF Crash
  <2>3. UNCHANGED <<journal, unreadable, faults, issued, open, contested>>
    BY <1>28 DEF Crash, dbVars, ghostVars
  <2> QED BY <1>0, <2>1, <2>2, <2>3 DEF RestType
<1>29. ASSUME Start PROVE RestType'
  <2>1. Pending \subseteq IssueType
    BY <1>0 DEF Pending, RestType, Ops, IssueType
  <2> QED BY <1>0, <1>29, <2>1 DEF Start, RestType, ghostVars
<1> QED BY <1>1, <1>2, <1>3, <1>4, <1>5, <1>6, <1>7, <1>8, <1>9, <1>10, <1>11, <1>12, <1>13, <1>14,
           <1>15, <1>16, <1>17, <1>18, <1>19, <1>20, <1>21, <1>22, <1>23, <1>24, <1>25, <1>26,
           <1>27, <1>28, <1>29
        DEF Next, Activate, Teardown, Sending

-----------------------------------------------------------------------------
(* Ownership.                                                              *)

\* A row is ended or stays with its connection.
RowsStay ==
  \A r \in Rows : \/ rows'[r].status = "terminated"
                  \/ rows'[r].status = rows[r].status /\ rows'[r].conn = rows[r].conn

\* One connection moves and keeps its row.
Shifts(c) ==
  /\ \A d \in Conns : d # c => conn'[d] = conn[d]
  /\ conn'[c].row = conn[c].row
  /\ up' = up /\ live' \subseteq live /\ live \ live' \subseteq {c}
  /\ up \/ (conn'[c].pc = conn[c].pc /\ senders' = senders)
  /\ conn'[c].pc \in Early => conn[c].row = NoRow
  /\ conn'[c].pc \in Holding => conn[c].pc \in Holding \/ conn[c].row = NoRow
  /\ conn'[c].pc \in {"registering", "publishing", "completing", "complete", "counting", "handing back"} =>
       conn[c].row # NoRow
  /\ c \in live' => conn'[c].pc \in {"completing", "complete", "closing"}
  /\ conn'[c].pc \in {"completing", "complete"} /\ conn'[c].sock => c \in live'

\* Most steps move one connection, which keeps its row, and at most end rows:
\* then what matters is where the reader goes.
LEMMA MoveKeeps ==
  ASSUME TypeOK, OwnInv, RowsStay, NEW c \in Conns, Shifts(c)
  PROVE  OwnInv'
<1>i. Quiescent /\ LiveHolds /\ RowLater /\ RowThere /\ PastHandshake /\ RowKept /\ OneHolder /\ HolderRow /\ SockLive
  BY DEF OwnInv
<1>0. /\ \A d \in Conns : conn[d].row \in Rows \cup {NoRow}
      /\ NoRow \notin Rows /\ live \subseteq Conns
  BY SessionAssumption DEF TypeOK, ConnType
<1>r. \A d \in Conns : conn'[d].row = conn[d].row
  BY Zenon DEF Shifts
<1>h. \A d \in Conns : conn'[d].pc \in Holding /\ conn[d].row # NoRow => conn[d].pc \in Holding
  BY Zenon DEF Shifts
<1>1. Quiescent'
  <2> SUFFICES ASSUME ~up' PROVE live' = {} /\ senders' = {} /\ \A d \in Conns : conn'[d].pc \in {"idle", "gone"}
    BY DEF Quiescent
  <2>1. ~up /\ live = {} /\ senders = {} /\ \A d \in Conns : conn[d].pc \in {"idle", "gone"}
    BY <1>i, Zenon DEF Quiescent, Shifts
  <2> QED BY <2>1, Zenon DEF Shifts
<1>2. LiveHolds'
  <2> SUFFICES ASSUME NEW d \in live' PROVE conn'[d].pc \in {"completing", "complete", "closing"} /\ conn'[d].row # NoRow
    BY DEF LiveHolds
  <2> QED BY <1>0, <1>r, <1>i, Zenon DEF LiveHolds, Shifts
<1>3. RowLater'
  <2> SUFFICES ASSUME NEW d \in Conns, conn'[d].pc \in Early PROVE conn'[d].row = NoRow
    BY DEF RowLater
  <2>1. conn[d].row = NoRow
    <3>1. CASE d = c
      BY <3>1, Zenon DEF Shifts
    <3>2. CASE d # c
      <4>1. conn[d].pc \in Early
        BY <3>2, Zenon DEF Shifts
      <4> QED BY <4>1, <1>i DEF RowLater
    <3> QED BY <3>1, <3>2
  <2> QED BY <2>1, <1>r
<1>4. RowThere'
  <2> SUFFICES ASSUME NEW d \in Conns, conn[d].row \in Rows PROVE rows'[conn[d].row].status # "absent"
    BY <1>0, <1>r DEF RowThere
  <2>1. rows[conn[d].row].status # "absent"
    BY <1>0, <1>i DEF RowThere
  <2> QED BY <2>1 DEF RowsStay
<1>5. PastHandshake'
  <2> SUFFICES ASSUME NEW d \in Conns,
                      conn'[d].pc \in {"registering", "publishing", "completing", "complete", "counting", "handing back"}
               PROVE  conn'[d].row # NoRow
    BY Zenon DEF PastHandshake
  <2> QED BY <1>r, <1>i, Zenon DEF PastHandshake, Shifts
<1>6. RowKept'
  <2> SUFFICES ASSUME NEW d \in Conns, conn[d].pc \in Holding, conn[d].row \in Rows
               PROVE  rows'[conn[d].row].status = "terminated" \/ HeldBy(conn[d].row, d)'
    BY <1>0, <1>r, <1>h DEF RowKept, HeldBy
  <2>2. rows[conn[d].row].status = "terminated" \/ HeldBy(conn[d].row, d)
    BY <1>0, <1>i DEF RowKept
  <2> QED BY <2>2, <1>r DEF RowsStay, HeldBy
<1>7. OneHolder'
  BY <1>r, <1>h, <1>i DEF OneHolder
<1>8. HolderRow'
  <2> SUFFICES ASSUME NEW r \in Rows, NEW d \in Conns, rows'[r].status = "active", rows'[r].conn = d
               PROVE  conn'[d].row = r
    BY DEF HolderRow, HeldBy
  <2>1. HeldBy(r, d)
    BY DEF RowsStay, HeldBy
  <2> QED BY <2>1, <1>r, <1>i DEF HolderRow
<1>9. SockLive'
  <2> SUFFICES ASSUME NEW d \in Conns, conn'[d].pc \in {"completing", "complete"}, conn'[d].sock
               PROVE  d \in live'
    BY DEF SockLive
  <2>1. CASE d = c
    BY <2>1, Zenon DEF Shifts
  <2>2. CASE d # c
    BY <2>2, <1>i, Zenon DEF SockLive, Shifts
  <2> QED BY <2>1, <2>2
<1> QED BY <1>1, <1>2, <1>3, <1>4, <1>5, <1>6, <1>7, <1>8, <1>9 DEF OwnInv

\* A connection takes a row that no connection holds: the row is new, or it
\* was disconnected.
LEMMA TakeKeeps ==
  ASSUME TypeOK, OwnInv, NEW c \in Conns, NEW r \in Rows, up, up' = up, live' = live, c \notin live, conn[c].row = NoRow,
         rows[r].status \in {"absent", "disconnected"},
         rows'[r].status = "active", rows'[r].conn = c, \A q \in Rows : q # r => rows'[q] = rows[q],
         conn'[c].pc \in {"registering", "closing"}, conn'[c].row = r, \A d \in Conns : d # c => conn'[d] = conn[d]
  PROVE  OwnInv'
<1>i. Quiescent /\ LiveHolds /\ RowLater /\ RowThere /\ PastHandshake /\ RowKept /\ OneHolder /\ HolderRow /\ SockLive
  BY DEF OwnInv
<1>0. /\ \A d \in Conns : conn[d].row \in Rows \cup {NoRow}
      /\ NoRow \notin Rows /\ live \subseteq Conns
  BY SessionAssumption DEF TypeOK, ConnType
<1>1. \A d \in Conns : conn[d].pc \in Holding => conn[d].row # r
  BY <1>0, <1>i DEF RowKept, HeldBy
<1>2. Quiescent' /\ LiveHolds'
  BY <1>0, <1>i DEF Quiescent, LiveHolds
<1>3. RowLater'
  BY <1>i, Zenon DEF RowLater, Early
<1>4. RowThere'
  BY <1>0, <1>i DEF RowThere
<1>5. PastHandshake'
  BY <1>0, <1>i, Zenon DEF PastHandshake
<1>6. RowKept'
  BY <1>0, <1>1, <1>i DEF RowKept, HeldBy
<1>7. OneHolder'
  BY <1>0, <1>1, <1>i DEF OneHolder
<1>8. HolderRow'
  <2> SUFFICES ASSUME NEW q \in Rows, NEW d \in Conns, rows'[q].status = "active", rows'[q].conn = d
               PROVE  conn'[d].row = q
    BY DEF HolderRow, HeldBy
  <2>1. CASE q = r
    BY <2>1
  <2>2. CASE q # r
    <3>1. HeldBy(q, d)
      BY <2>2 DEF HeldBy
    <3>2. conn[d].row = q
      BY <3>1, <1>i DEF HolderRow
    <3> QED BY <3>2, <1>0
  <2> QED BY <2>1, <2>2
<1>9. SockLive'
  BY <1>i DEF SockLive
<1> QED BY <1>2, <1>3, <1>4, <1>5, <1>6, <1>7, <1>8, <1>9 DEF OwnInv

\* Every step keeps the rows with their connections.
LEMMA OwnStep ==
  ASSUME TypeOK, OwnInv, Resuming, SendersLate, Next
  PROVE  OwnInv'
<1>0. /\ conn \in [Conns -> ConnType] /\ live \subseteq Conns /\ \A t \in senders : t.conn \in Conns
      /\ \A c \in Conns : conn[c].row \in Rows \cup {NoRow}
      /\ NoRow \notin Rows
  BY SessionAssumption DEF TypeOK, SenderType, ConnType
<1>i. Quiescent /\ LiveHolds /\ RowLater /\ RowThere /\ PastHandshake /\ RowKept /\ OneHolder /\ HolderRow /\ SockLive
  BY DEF OwnInv
<1>l. \A c \in Conns : /\ conn[c].pc \in {"loading", "retiring", "claiming"} => conn[c].prev \in Rows
                       /\ conn[c].resumed => conn[c].prev \in Rows
  BY Zenon DEF Resuming, ResumingAt
<1>u. \A c \in Conns : conn[c].pc \notin {"idle", "gone"} => up
  BY <1>i DEF Quiescent
<1>v. \A c \in Conns : c \in live => conn[c].pc \in {"completing", "complete", "closing"} /\ conn[c].row # NoRow
  BY <1>i DEF LiveHolds
<1>k. rows' = rows => RowsStay
  BY DEF RowsStay
<1>m. \A R : Marked(R, "terminated") => RowsStay
  BY DEF RowsStay, Marked
<1>1. ASSUME NEW c \in Conns, Accept(c) PROVE OwnInv'
  <2>1. conn[c].pc \in {"idle"} /\ up' = up /\ live' = live /\ up
    BY <1>1, <1>u DEF Accept
  <2>2. /\ \A d \in Conns : d # c => conn'[d] = conn[d]
        /\ conn'[c].row = conn[c].row /\ conn'[c].pc \in {"connecting"}
    BY <1>1, <1>l, ConnSteps, Zenon DEF Effect, Moves, Closes
  <2>3. RowsStay
    BY <1>1, <1>k DEF Accept, dbVars
  <2>4. conn[c].row = NoRow /\ c \notin live
    BY <2>1, <1>i, <1>v, Zenon DEF RowLater, Early
  <2> QED BY <2>1, <2>2, <2>3, <2>4, MoveKeeps, Zenon DEF Shifts
<1>2. ASSUME NEW c \in Conns, RejectConnect(c) PROVE OwnInv'
  <2>1. conn[c].pc \in {"connecting"} /\ up' = up /\ live' = live /\ up
    BY <1>2, <1>u DEF RejectConnect
  <2>2. /\ \A d \in Conns : d # c => conn'[d] = conn[d]
        /\ conn'[c].row = conn[c].row /\ conn'[c].pc \in {"closing"}
    BY <1>2, <1>l, ConnSteps, Zenon DEF Effect, Moves, Closes
  <2>3. RowsStay
    BY <1>2, <1>k DEF RejectConnect, dbVars
  <2>4. conn[c].row = NoRow /\ c \notin live
    BY <2>1, <1>i, <1>v, Zenon DEF RowLater, Early
  <2> QED BY <2>1, <2>2, <2>3, <2>4, MoveKeeps, Zenon DEF Shifts
<1>3. ASSUME NEW c \in Conns, Connect(c) PROVE OwnInv'
  <2>1. conn[c].pc \in {"connecting"} /\ up' = up /\ live' = live /\ up
    BY <1>3, <1>u DEF Connect
  <2>2. /\ \A d \in Conns : d # c => conn'[d] = conn[d]
        /\ conn'[c].row = conn[c].row /\ conn'[c].pc \in {"offered", "loading", "retiring"}
    BY <1>3, <1>l, ConnSteps, Zenon DEF Effect, Moves, Closes
  <2>3. RowsStay
    BY <1>3, <1>k DEF Connect, dbVars
  <2>4. conn[c].row = NoRow /\ c \notin live
    BY <2>1, <1>i, <1>v, Zenon DEF RowLater, Early
  <2> QED BY <2>1, <2>2, <2>3, <2>4, MoveKeeps, Zenon DEF Shifts
<1>4. ASSUME NEW c \in Conns, RetireInconsistent(c) PROVE OwnInv'
  <2>1. conn[c].pc \in {"retiring"} /\ up' = up /\ live' = live /\ up
    BY <1>4, <1>u DEF RetireInconsistent
  <2>2. /\ \A d \in Conns : d # c => conn'[d] = conn[d]
        /\ conn'[c].row = conn[c].row /\ conn'[c].pc \in {"offered", "closing"}
    BY <1>4, <1>l, ConnSteps, Zenon DEF Effect, Moves, Closes
  <2>3. RowsStay
    BY <1>4, <1>i, <1>k, <1>m, RowSteps
  <2>4. conn[c].row = NoRow /\ c \notin live
    BY <2>1, <1>i, <1>v, Zenon DEF RowLater, Early
  <2> QED BY <2>1, <2>2, <2>3, <2>4, MoveKeeps, Zenon DEF Shifts
<1>5. ASSUME NEW c \in Conns, OfferResume(c) PROVE OwnInv'
  <2>1. conn[c].pc \in {"loading"} /\ up' = up /\ live' = live /\ up
    BY <1>5, <1>u DEF OfferResume
  <2>2. /\ \A d \in Conns : d # c => conn'[d] = conn[d]
        /\ conn'[c].row = conn[c].row /\ conn'[c].pc \in {"offered", "closing"}
    BY <1>5, <1>l, ConnSteps, Zenon DEF Effect, Moves, Closes
  <2>3. RowsStay
    BY <1>5, <1>k DEF OfferResume, dbVars
  <2>4. conn[c].row = NoRow /\ c \notin live
    BY <2>1, <1>i, <1>v, Zenon DEF RowLater, Early
  <2> QED BY <2>1, <2>2, <2>3, <2>4, MoveKeeps, Zenon DEF Shifts
<1>6. ASSUME NEW c \in Conns, RefuseConnect(c) PROVE OwnInv'
  <2>1. conn[c].pc \in {"offered"} /\ up' = up /\ live' = live /\ up
    BY <1>6, <1>u DEF RefuseConnect
  <2>2. /\ \A d \in Conns : d # c => conn'[d] = conn[d]
        /\ conn'[c].row = conn[c].row /\ conn'[c].pc \in {"closing"}
    BY <1>6, <1>l, ConnSteps, Zenon DEF Effect, Moves, Closes
  <2>3. RowsStay
    BY <1>6, <1>i, <1>k, <1>m, RowSteps
  <2>4. conn[c].row = NoRow /\ c \notin live
    BY <2>1, <1>i, <1>v, Zenon DEF RowLater, Early
  <2> QED BY <2>1, <2>2, <2>3, <2>4, MoveKeeps, Zenon DEF Shifts
<1>7. ASSUME NEW c \in Conns, ConnectComplete(c) PROVE OwnInv'
  <2>1. conn[c].pc \in {"offered"} /\ up' = up /\ live' = live /\ up
    BY <1>7, <1>u DEF ConnectComplete
  <2>2. /\ \A d \in Conns : d # c => conn'[d] = conn[d]
        /\ conn'[c].row = conn[c].row /\ conn'[c].pc \in {"claiming", "discarding"}
    BY <1>7, <1>l, ConnSteps, Zenon DEF Effect, Moves, Closes
  <2>3. RowsStay
    BY <1>7, <1>k DEF ConnectComplete, dbVars
  <2>4. conn[c].row = NoRow /\ c \notin live
    BY <2>1, <1>i, <1>v, Zenon DEF RowLater, Early
  <2> QED BY <2>1, <2>2, <2>3, <2>4, MoveKeeps, Zenon DEF Shifts
<1>8. ASSUME NEW c \in Conns, ClaimRow(c) PROVE OwnInv'
  <2>1. conn[c].pc = "claiming" /\ up' = up /\ live' = live /\ up
    BY <1>8, <1>u DEF ClaimRow
  <2>2. conn[c].row = NoRow /\ c \notin live
    BY <2>1, <1>i, <1>v, Zenon DEF RowLater, Early
  <2>3. CASE rows' = rows /\ Moves(c, "closing")
    <3>1. /\ \A d \in Conns : d # c => conn'[d] = conn[d]
          /\ conn'[c].pc = "closing" /\ conn'[c].row = conn[c].row
      BY <2>3 DEF Moves, Effect
    <3> QED BY <2>1, <2>2, <2>3, <3>1, <1>k, MoveKeeps, Zenon DEF Shifts
  <2>4. CASE ~(rows' = rows /\ Moves(c, "closing"))
    <3>1. PICK r \in Rows : 
            /\ rows[r].status \in {"absent", "disconnected"}
            /\ rows'[r].status = "active" /\ rows'[r].conn = c /\ \A q \in Rows : q # r => rows'[q] = rows[q]
            /\ conn'[c].pc \in {"registering", "closing"} /\ conn'[c].row = r
            /\ \A d \in Conns : d # c => conn'[d] = conn[d]
      BY <1>8, <2>1, <2>4, <1>i, <1>l, RowSteps DEF RowEffect, Effect
    <3> QED BY <2>1, <2>2, <3>1, TakeKeeps
  <2> QED BY <2>3, <2>4
<1>9. ASSUME NEW c \in Conns, DiscardActive(c) PROVE OwnInv'
  <2>1. conn[c].pc \in {"discarding"} /\ up' = up /\ live' = live /\ up
    BY <1>9, <1>u, Zenon DEF DiscardActive
  <2>2. /\ \A d \in Conns : d # c => conn'[d] = conn[d]
        /\ conn'[c].row = conn[c].row /\ conn'[c].pc \in {"retiring rows", "closing"}
    BY <1>9, <1>l, ConnSteps, Zenon DEF Effect, Moves, Closes
  <2>3. RowsStay
    BY <1>9, <1>i, <1>k, <1>m, RowSteps
  <2>4. conn[c].row = NoRow /\ c \notin live
    BY <2>1, <1>i, <1>v, Zenon DEF RowLater, Early
  <2> QED BY <2>1, <2>2, <2>3, <2>4, MoveKeeps, Zenon DEF Shifts
<1>10. ASSUME NEW c \in Conns, DiscardResumable(c) PROVE OwnInv'
  <2>1. conn[c].pc \in {"retiring rows"} /\ up' = up /\ live' = live /\ up
    BY <1>10, <1>u, Zenon DEF DiscardResumable
  <2>2. /\ \A d \in Conns : d # c => conn'[d] = conn[d]
        /\ conn'[c].row = conn[c].row /\ conn'[c].pc \in {"creating", "closing"}
    BY <1>10, <1>l, ConnSteps, Zenon DEF Effect, Moves, Closes
  <2>3. RowsStay
    BY <1>10, <1>i, <1>k, <1>m, RowSteps
  <2>4. conn[c].row = NoRow /\ c \notin live
    BY <2>1, <1>i, <1>v, Zenon DEF RowLater, Early
  <2> QED BY <2>1, <2>2, <2>3, <2>4, MoveKeeps, Zenon DEF Shifts
<1>11. ASSUME NEW c \in Conns, CreateRow(c) PROVE OwnInv'
  <2>1. conn[c].pc = "creating" /\ up' = up /\ live' = live /\ up
    BY <1>11, <1>u, Zenon DEF CreateRow
  <2>2. conn[c].row = NoRow /\ c \notin live
    BY <2>1, <1>i, <1>v, Zenon DEF RowLater, Early
  <2>3. CASE rows' = rows /\ Moves(c, "closing")
    <3>1. /\ \A d \in Conns : d # c => conn'[d] = conn[d]
          /\ conn'[c].pc = "closing" /\ conn'[c].row = conn[c].row
      BY <2>3 DEF Moves, Effect
    <3> QED BY <2>1, <2>2, <2>3, <3>1, <1>k, MoveKeeps, Zenon DEF Shifts
  <2>4. CASE ~(rows' = rows /\ Moves(c, "closing"))
    <3>1. PICK r \in Rows : 
            /\ rows[r].status \in {"absent", "disconnected"}
            /\ rows'[r].status = "active" /\ rows'[r].conn = c /\ \A q \in Rows : q # r => rows'[q] = rows[q]
            /\ conn'[c].pc \in {"registering", "closing"} /\ conn'[c].row = r
            /\ \A d \in Conns : d # c => conn'[d] = conn[d]
      BY <1>11, <2>1, <2>4, <1>i, <1>l, RowSteps DEF RowEffect, Effect
    <3> QED BY <2>1, <2>2, <3>1, TakeKeeps
  <2> QED BY <2>3, <2>4
<1>12. ASSUME NEW c \in Conns, Register(c) PROVE OwnInv'
  <2>1. conn[c].pc \in {"registering"} /\ up' = up /\ live' = live /\ up
    BY <1>12, <1>u DEF Register
  <2>2. /\ \A d \in Conns : d # c => conn'[d] = conn[d]
        /\ conn'[c].row = conn[c].row /\ conn'[c].pc \in {"publishing", "closing"}
    BY <1>12, <1>l, ConnSteps, Zenon DEF Effect, Moves, Closes
  <2>3. RowsStay
    BY <1>12, <1>k DEF Register, dbVars
  <2>4. conn[c].row # NoRow /\ (c \in live => conn[c].pc \in {"completing", "complete", "closing"})
    BY <2>1, <1>i, <1>v, Zenon DEF PastHandshake
  <2>5. conn'[c].pc \notin Early /\ conn[c].pc \in Holding
    BY <2>1, <2>2, Zenon DEF Early, Holding
  <2>6. conn[c].pc = "completing" /\ conn[c].sock => c \in live
    BY <1>i DEF SockLive
  <2> QED BY <2>1, <2>2, <2>3, <2>4, <2>5, <2>6, MoveKeeps, Zenon DEF Shifts
<1>13. ASSUME NEW c \in Conns, Publish(c) PROVE OwnInv'
  <2>1. conn[c].pc = "publishing" /\ live' = {c} /\ rows' = rows /\ up' = up /\ up /\ senders' = senders
    BY <1>13, <1>u DEF Publish, dbVars
  <2>2. /\ conn'[c].pc = "completing" /\ \A d \in Conns : d # c => conn'[d].pc = conn[d].pc
        /\ \A d \in Conns : conn'[d].row = conn[d].row /\ conn'[d].sock = (conn[d].sock /\ d \notin live \ {c})
    BY <1>13, MoreConnSteps
  <2>3. c \notin live /\ conn[c].row # NoRow /\ conn[c].pc \in Holding
    BY <2>1, <1>v, <1>i, Zenon DEF PastHandshake, Holding
  <2>4. \A d \in Conns : /\ conn'[d].pc \in Holding => conn[d].pc \in Holding
                         /\ conn'[d].pc \in Early => conn[d].pc \in Early
    BY <2>2, <2>3, Zenon DEF Early, Holding
  <2>5. Quiescent' /\ LiveHolds'
    BY <2>1, <2>2, <2>3 DEF Quiescent, LiveHolds
  <2>6. RowLater' /\ RowThere'
    BY <2>1, <2>2, <2>4, <1>i DEF RowLater, RowThere
  <2>7. PastHandshake'
    BY <2>1, <2>2, <2>3, <1>i, Zenon DEF PastHandshake
  <2>8. RowKept' /\ OneHolder'
    BY <2>1, <2>2, <2>4, <1>i DEF RowKept, OneHolder, HeldBy
  <2>9. HolderRow'
    BY <2>1, <2>2, <1>i DEF HolderRow, HeldBy
  <2>10. SockLive'
    <3> SUFFICES ASSUME NEW d \in Conns, conn'[d].pc \in {"completing", "complete"}, conn'[d].sock PROVE d = c
      BY <2>1 DEF SockLive
    <3>1. d # c => conn[d].pc \in {"completing", "complete"} /\ conn[d].sock /\ d \notin live
      BY <2>2
    <3> QED BY <3>1, <1>i DEF SockLive
  <2> QED BY <2>5, <2>6, <2>7, <2>8, <2>9, <2>10 DEF OwnInv
<1>14. ASSUME NEW c \in Conns, CompleteHandshake(c) PROVE OwnInv'
  <2>1. conn[c].pc \in {"completing"} /\ up' = up /\ live' = live /\ up
    BY <1>14, <1>u DEF CompleteHandshake
  <2>2. /\ \A d \in Conns : d # c => conn'[d] = conn[d]
        /\ conn'[c].row = conn[c].row /\ conn'[c].pc \in {"complete", "closing"}
        /\ conn'[c].sock = conn[c].sock
    BY <1>14, <1>l, ConnSteps, Zenon DEF Effect, Moves, Closes
  <2>3. RowsStay
    BY <1>14, <1>k DEF CompleteHandshake, dbVars
  <2>4. conn[c].row # NoRow /\ (c \in live => conn[c].pc \in {"completing", "complete", "closing"})
    BY <2>1, <1>i, <1>v, Zenon DEF PastHandshake
  <2>5. conn'[c].pc \notin Early /\ conn[c].pc \in Holding
    BY <2>1, <2>2, Zenon DEF Early, Holding
  <2>6. conn[c].pc = "completing" /\ conn[c].sock => c \in live
    BY <1>i DEF SockLive
  <2> QED BY <2>1, <2>2, <2>3, <2>4, <2>5, <2>6, MoveKeeps, Zenon DEF Shifts
<1>15. ASSUME NEW c \in Conns, Lookup(c) PROVE OwnInv'
  <2>1. conn' = conn /\ rows' = rows /\ live' = live /\ up' = up /\ up
    BY <1>15, <1>u DEF Lookup, dbVars
  <2>2. /\ conn[c].pc \in Early => conn[c].row = NoRow
        /\ conn[c].pc \in {"registering", "publishing", "completing", "complete", "counting", "handing back"} => conn[c].row # NoRow
        /\ conn[c].pc \in {"completing", "complete"} /\ conn[c].sock => c \in live
    BY <1>i, Zenon DEF RowLater, PastHandshake, SockLive
  <2> QED BY <2>1, <2>2, <1>k, <1>v, MoveKeeps, Zenon DEF Shifts
<1>16. ASSUME NEW c \in Conns, Answer(c) PROVE OwnInv'
  <2>1. conn' = conn /\ rows' = rows /\ live' = live /\ up' = up /\ up
    BY <1>16, <1>u DEF Answer, dbVars
  <2>2. /\ conn[c].pc \in Early => conn[c].row = NoRow
        /\ conn[c].pc \in {"registering", "publishing", "completing", "complete", "counting", "handing back"} => conn[c].row # NoRow
        /\ conn[c].pc \in {"completing", "complete"} /\ conn[c].sock => c \in live
    BY <1>i, Zenon DEF RowLater, PastHandshake, SockLive
  <2> QED BY <2>1, <2>2, <1>k, <1>v, MoveKeeps, Zenon DEF Shifts
<1>17. ASSUME NEW c \in Conns, Break(c) PROVE OwnInv'
  <2>1. Closes(c) /\ rows' = rows /\ live' = live /\ up' = up /\ senders' = senders
    BY <1>17, <1>l, ConnSteps, Zenon DEF Break, dbVars
  <2>2. /\ conn[c].pc \in Early => conn[c].row = NoRow
        /\ conn[c].pc \in {"registering", "publishing", "completing", "complete", "counting", "handing back"} => conn[c].row # NoRow
    BY <1>i, Zenon DEF RowLater, PastHandshake
  <2>3. /\ \A d \in Conns : d # c => conn'[d] = conn[d]
        /\ conn'[c].pc = conn[c].pc /\ conn'[c].row = conn[c].row /\ conn'[c].sock = FALSE
    BY <2>1 DEF Closes, Effect
  <2> QED BY <2>1, <2>2, <2>3, <1>k, <1>v, MoveKeeps, Zenon DEF Shifts
<1>18. ASSUME NEW c \in Conns, EndReading(c) PROVE OwnInv'
  <2>1. conn[c].pc \in Reading /\ up' = up /\ live' = live /\ up
    BY <1>18, <1>u DEF EndReading, Reading
  <2>2. /\ \A d \in Conns : d # c => conn'[d] = conn[d]
        /\ conn'[c].row = conn[c].row /\ conn'[c].pc \in {"closing"}
    BY <1>18, <1>l, ConnSteps, Zenon DEF Effect, Moves, Closes
  <2>3. RowsStay
    BY <1>18, <1>k DEF EndReading, dbVars
  <2>4. conn'[c].pc \notin Early /\ (conn'[c].pc \in Holding => conn[c].pc \in Holding \/ conn[c].row = NoRow)
    BY <2>1, <2>2, <1>i, Zenon DEF Early, Holding, Reading, RowLater
  <2> QED BY <2>1, <2>2, <2>3, <2>4, <1>v, MoveKeeps, Zenon DEF Shifts
<1>19. ASSUME NEW c \in Conns, Unpublish(c) PROVE OwnInv'
  <2>1. conn[c].pc \in {"closing"} /\ up' = up /\ live' = live \ {c} /\ up
    BY <1>19, <1>u DEF Unpublish
  <2>2. /\ \A d \in Conns : d # c => conn'[d] = conn[d]
        /\ conn'[c].row = conn[c].row /\ conn'[c].pc \in {"evicting", "counting"} /\ (conn'[c].pc = "counting" => conn[c].row # NoRow)
    BY <1>19, <1>l, ConnSteps, Zenon DEF Effect, Moves, Closes
  <2>3. RowsStay
    BY <1>19, <1>k DEF Unpublish, dbVars
  <2>4. conn'[c].pc \notin Early /\ (conn'[c].pc \in Holding => conn[c].pc \in Holding \/ conn[c].row = NoRow)
    BY <2>1, <2>2, <1>i, Zenon DEF Early, Holding, Reading, RowLater
  <2> QED BY <2>1, <2>2, <2>3, <2>4, <1>v, MoveKeeps, Zenon DEF Shifts
<1>20. ASSUME NEW c \in Conns, WriteFinalCounters(c) PROVE OwnInv'
  <2>1. conn[c].pc \in {"counting"} /\ up' = up /\ live' = live /\ up
    BY <1>20, <1>u, Zenon DEF WriteFinalCounters
  <2>2. /\ \A d \in Conns : d # c => conn'[d] = conn[d]
        /\ conn'[c].row = conn[c].row /\ conn'[c].pc \in {"handing back"}
    BY <1>20, <1>l, ConnSteps, Zenon DEF Effect, Moves, Closes
  <2>3. RowsStay
    BY <1>20, <1>i, <1>k, <1>m, RowSteps DEF RowEffect, RowsStay
  <2>4. conn[c].row # NoRow /\ (c \in live => conn[c].pc \in {"completing", "complete", "closing"})
    BY <2>1, <1>i, <1>v, Zenon DEF PastHandshake
  <2>5. conn'[c].pc \notin Early /\ conn[c].pc \in Holding
    BY <2>1, <2>2, Zenon DEF Early, Holding
  <2>6. conn[c].pc = "completing" /\ conn[c].sock => c \in live
    BY <1>i DEF SockLive
  <2> QED BY <2>1, <2>2, <2>3, <2>4, <2>5, <2>6, MoveKeeps, Zenon DEF Shifts
<1>21. ASSUME NEW c \in Conns, HandBack(c) PROVE OwnInv'
  <2>1. conn[c].pc = "handing back" /\ up' = up /\ live' = live /\ up
    BY <1>21, <1>u, Zenon DEF HandBack
  <2>2. conn[c].row \in Rows /\ c \notin live /\ conn[c].pc \in Holding
    BY <2>1, <1>0, <1>i, <1>v, Zenon DEF PastHandshake, Holding
  <2>3. /\ \A d \in Conns : d # c => conn'[d] = conn[d]
        /\ conn'[c].pc = "evicting" /\ conn'[c].row = conn[c].row
    BY <1>21, <2>1, ConnSteps, Zenon DEF Moves, Effect
  <2>4. CASE rows' = rows
    <3>1. "evicting" \notin Early /\ "evicting" \notin Holding
      BY DEF Early, Holding
    <3> QED BY <2>1, <2>2, <2>3, <2>4, <3>1, <1>k, MoveKeeps, Zenon DEF Shifts
  <2>5. CASE rows' # rows
    <3> DEFINE r == conn[c].row
    <3>1. rows'[r].status = "disconnected" /\ \A q \in Rows : q # r => rows'[q] = rows[q]
      BY <1>21, <2>5, <1>i, RowSteps DEF RowEffect
    <3>2. \A d \in Conns : d # c /\ conn[d].pc \in Holding => conn[d].row # r
      BY <2>2, <1>0, <1>i DEF OneHolder
    <3>3. "evicting" \notin Early /\ "evicting" \notin Holding
      BY DEF Early, Holding
    <3>4. \A d \in Conns : conn'[d].row = conn[d].row
      BY <2>3
    <3> HIDE DEF r
    <3>5. Quiescent' /\ LiveHolds'
      BY <2>1, <2>2, <2>3, <1>0, <1>i, Zenon DEF Quiescent, LiveHolds
    <3>6. RowLater' /\ PastHandshake'
      BY <2>3, <3>3, <3>4, <1>i, Zenon DEF RowLater, PastHandshake
    <3>7. RowThere'
      BY <3>1, <3>4, <1>0, <1>i DEF RowThere
    <3>8. RowKept'
      BY <2>3, <3>1, <3>2, <3>3, <3>4, <1>0, <1>i DEF RowKept, HeldBy
    <3>9. OneHolder'
      BY <2>3, <3>3, <3>4, <1>i DEF OneHolder
    <3>10. HolderRow'
      BY <3>1, <3>4, <1>i DEF HolderRow, HeldBy
    <3>11. SockLive'
      BY <2>1, <2>3, <1>i, Zenon DEF SockLive
    <3> QED BY <3>5, <3>6, <3>7, <3>8, <3>9, <3>10, <3>11 DEF OwnInv
  <2> QED BY <2>4, <2>5
<1>22. ASSUME NEW c \in Conns, Evict(c) PROVE OwnInv'
  <2>1. conn[c].pc \in {"evicting"} /\ up' = up /\ live' = live /\ up
    BY <1>22, <1>u DEF Evict
  <2>2. /\ \A d \in Conns : d # c => conn'[d] = conn[d]
        /\ conn'[c].row = conn[c].row /\ conn'[c].pc \in {"gone"}
    BY <1>22, <1>l, MoreConnSteps DEF Effect, Moves, Closes
  <2>3. RowsStay
    BY <1>22, <1>k DEF Evict, dbVars
  <2>4. conn'[c].pc \notin Early /\ (conn'[c].pc \in Holding => conn[c].pc \in Holding \/ conn[c].row = NoRow)
    BY <2>1, <2>2, <1>i, Zenon DEF Early, Holding, Reading, RowLater
  <2> QED BY <2>1, <2>2, <2>3, <2>4, <1>v, MoveKeeps, Zenon DEF Shifts
<1>23. ASSUME NEW t \in senders, Allocate(t) PROVE OwnInv'
  <2> DEFINE c == t.conn
  <2>0. c \in Conns /\ conn[c].row # NoRow /\ conn[c].pc \in Departed
    BY <1>0 DEF SendersLate
  <2>1. /\ \A d \in Conns : conn'[d].pc = conn[d].pc /\ conn'[d].row = conn[d].row
        /\ \A d \in Conns : d # c => conn'[d] = conn[d]
        /\ conn'[c].sock => conn[c].sock
    BY <1>23, <1>0, MoreConnSteps DEF Effect, Closes
  <2>2. RowsStay
    BY <1>23, <1>k DEF Allocate, dbVars
  <2>3. UNCHANGED <<live, up>> /\ up
    BY <1>23, <1>i DEF Allocate, Quiescent
  <2>4. conn[c].pc \in {"completing", "complete"} /\ conn[c].sock => c \in live
    BY <2>0, <1>i DEF SockLive
  <2>5. (conn[c].pc \in Early => conn[c].row = NoRow) /\ (c \in live => conn[c].pc \in {"completing", "complete", "closing"})
    BY <2>0, <1>i, <1>v DEF RowLater
  <2> HIDE DEF c
  <2> QED BY <2>0, <2>1, <2>2, <2>3, <2>4, <2>5, MoveKeeps, Zenon DEF Shifts
<1>24. ASSUME NEW t \in senders, WriteCounter(t) PROVE OwnInv'
  <2> DEFINE c == t.conn
  <2>0. c \in Conns /\ conn[c].row # NoRow /\ conn[c].pc \in Departed
    BY <1>0 DEF SendersLate
  <2>1. /\ \A d \in Conns : conn'[d].pc = conn[d].pc /\ conn'[d].row = conn[d].row
        /\ \A d \in Conns : d # c => conn'[d] = conn[d]
        /\ conn'[c].sock => conn[c].sock
    BY <1>24 DEF WriteCounter
  <2>2. RowsStay
    BY <1>24, <1>0, <1>i, <1>k, RowSteps DEF RowsStay, RowEffect
  <2>3. UNCHANGED <<live, up>> /\ up
    BY <1>24, <1>i DEF WriteCounter, Quiescent
  <2>4. conn[c].pc \in {"completing", "complete"} /\ conn[c].sock => c \in live
    BY <2>0, <1>i DEF SockLive
  <2>5. (conn[c].pc \in Early => conn[c].row = NoRow) /\ (c \in live => conn[c].pc \in {"completing", "complete", "closing"})
    BY <2>0, <1>i, <1>v DEF RowLater
  <2> HIDE DEF c
  <2> QED BY <2>0, <2>1, <2>2, <2>3, <2>4, <2>5, MoveKeeps, Zenon DEF Shifts
<1>25. ASSUME NEW t \in senders, Record(t) PROVE OwnInv'
  <2> DEFINE c == t.conn
  <2>0. c \in Conns /\ conn[c].row # NoRow /\ conn[c].pc \in Departed
    BY <1>0 DEF SendersLate
  <2>1. /\ \A d \in Conns : conn'[d].pc = conn[d].pc /\ conn'[d].row = conn[d].row
        /\ \A d \in Conns : d # c => conn'[d] = conn[d]
        /\ conn'[c].sock => conn[c].sock
    BY <1>25 DEF Record
  <2>2. RowsStay
    BY <1>25, <1>k DEF Record, dbVars
  <2>3. UNCHANGED <<live, up>> /\ up
    BY <1>25, <1>i DEF Record, Quiescent
  <2>4. conn[c].pc \in {"completing", "complete"} /\ conn[c].sock => c \in live
    BY <2>0, <1>i DEF SockLive
  <2>5. (conn[c].pc \in Early => conn[c].row = NoRow) /\ (c \in live => conn[c].pc \in {"completing", "complete", "closing"})
    BY <2>0, <1>i, <1>v DEF RowLater
  <2> HIDE DEF c
  <2> QED BY <2>0, <2>1, <2>2, <2>3, <2>4, <2>5, MoveKeeps, Zenon DEF Shifts
<1>26. ASSUME NEW t \in senders, Send(t) PROVE OwnInv'
  <2> DEFINE c == t.conn
  <2>0. c \in Conns /\ conn[c].row # NoRow /\ conn[c].pc \in Departed
    BY <1>0 DEF SendersLate
  <2>1. /\ \A d \in Conns : conn'[d].pc = conn[d].pc /\ conn'[d].row = conn[d].row
        /\ \A d \in Conns : d # c => conn'[d] = conn[d]
        /\ conn'[c].sock => conn[c].sock
    BY <1>26, <1>0, MoreConnSteps, Zenon DEF Effect, Closes
  <2>2. RowsStay
    BY <1>26, <1>k DEF Send, dbVars
  <2>3. UNCHANGED <<live, up>> /\ up
    BY <1>26, <1>i DEF Send, Quiescent
  <2>4. conn[c].pc \in {"completing", "complete"} /\ conn[c].sock => c \in live
    BY <2>0, <1>i DEF SockLive
  <2>5. (conn[c].pc \in Early => conn[c].row = NoRow) /\ (c \in live => conn[c].pc \in {"completing", "complete", "closing"})
    BY <2>0, <1>i, <1>v DEF RowLater
  <2> HIDE DEF c
  <2> QED BY <2>0, <2>1, <2>2, <2>3, <2>4, <2>5, MoveKeeps, Zenon DEF Shifts
<1>27. ASSUME CloseSessionByEUI PROVE OwnInv'
  <2>1. PICK c \in live : /\ rows' = rows \/ rows' = Terminated({conn[c].row})
                          /\ live' = live \ {c} /\ conn' = [conn EXCEPT ![c].sock = FALSE]
    BY <1>27 DEF CloseSessionByEUI
  <2>2. up /\ up' = up /\ senders' = senders /\ c \in Conns
    BY <1>27, <1>0 DEF CloseSessionByEUI
  <2>3. /\ \A d \in Conns : d # c => conn'[d] = conn[d]
        /\ conn'[c].pc = conn[c].pc /\ conn'[c].row = conn[c].row /\ conn'[c].sock = FALSE
    BY <2>1, <2>2, MoreConnSteps DEF Closes, Effect
  <2>4. RowsStay
    BY <2>1, <1>i, <1>k, <1>m, RowSteps
  <2>5. conn[c].pc \in Early => conn[c].row = NoRow
    BY <2>2, <1>i DEF RowLater
  <2>6. conn[c].row # NoRow
    BY <2>1, <1>i DEF LiveHolds
  <2> QED BY <2>1, <2>2, <2>3, <2>4, <2>5, <2>6, MoveKeeps, Zenon DEF Shifts
<1>28. ASSUME Crash PROVE OwnInv'
  <2>1. live' = {} /\ senders' = {} /\ rows' = rows /\ up' = FALSE
    BY <1>28 DEF Crash, dbVars
  <2>2. \A d \in Conns : conn'[d].row = conn[d].row /\ conn'[d].pc \in {"idle", "gone"} /\ (conn'[d].pc = "idle" => conn[d].pc = "idle")
    BY <1>28, MoreConnSteps
  <2>3. Quiescent' /\ LiveHolds' /\ PastHandshake' /\ SockLive'
    BY <2>1, <2>2, Zenon DEF Quiescent, LiveHolds, PastHandshake, SockLive
  <2>4. RowLater'
    BY <2>2, <1>i, Zenon DEF RowLater, Early
  <2>5. RowThere' /\ HolderRow'
    BY <2>1, <2>2, <1>i DEF RowThere, HolderRow, HeldBy
  <2>6. RowKept' /\ OneHolder'
    BY <2>2, Zenon DEF RowKept, OneHolder, Holding
  <2> QED BY <2>3, <2>4, <2>5, <2>6 DEF OwnInv
<1>29. ASSUME Start PROVE OwnInv'
  <2>1. live' = live /\ senders' = senders /\ conn' = conn /\ up' /\ ~up
    BY <1>29 DEF Start
  <2>2. live = {} /\ \A d \in Conns : conn[d].pc \in {"idle", "gone"}
    BY <2>1, <1>i DEF Quiescent
  <2>3. \A r \in Rows : /\ rows'[r].status # "active" /\ (rows'[r].status = "absent" => rows[r].status = "absent")
    BY <1>29, <1>i, RowSteps DEF Marked, Active
  <2>4. Quiescent' /\ LiveHolds' /\ PastHandshake' /\ SockLive' /\ RowLater'
    BY <2>1, <2>2, <1>i, Zenon DEF Quiescent, LiveHolds, PastHandshake, SockLive, RowLater
  <2>5. RowThere' /\ HolderRow'
    BY <2>1, <2>3, <1>0, <1>i DEF RowThere, HolderRow, HeldBy
  <2>6. RowKept' /\ OneHolder'
    BY <2>1, <2>2, Zenon DEF RowKept, OneHolder, Holding
  <2> QED BY <2>4, <2>5, <2>6 DEF OwnInv
<1> QED BY <1>1, <1>2, <1>3, <1>4, <1>5, <1>6, <1>7, <1>8, <1>9, <1>10, <1>11, <1>12, <1>13, <1>14,
           <1>15, <1>16, <1>17, <1>18, <1>19, <1>20, <1>21, <1>22, <1>23, <1>24, <1>25, <1>26,
           <1>27, <1>28, <1>29
        DEF Next, Activate, Teardown, Sending

-----------------------------------------------------------------------------
(* Resumed sessions and operations being sent.                             *)

\* What a connection is after its activation, it stays: its operations stay
\* with its row, and its counter only descends.
DepartedStays ==
  \A d \in Conns : conn[d].pc \in Departed =>
    /\ conn'[d].pc \in Departed /\ conn'[d].row = conn[d].row /\ conn'[d].lastSc <= conn[d].lastSc
    /\ conn[d].pc = "gone" => conn'[d].pc = "gone"

\* Every step leaves the sessions after their activation as they are.
LEMMA DepartedStep ==
  ASSUME TypeOK, Resuming, PastHandshake, SendersLate, LiveHolds, Next
  PROVE  DepartedStays
<1>0. /\ live \subseteq Conns /\ \A t \in senders : t.conn \in Conns
      /\ \A c \in Conns : conn[c].lastSc \in Int
  BY DEF TypeOK, SenderType, ConnType, ScIds
<1>l. \A c \in Conns : /\ conn[c].pc \in {"loading", "retiring", "claiming"} => conn[c].prev \in Rows
                       /\ conn[c].resumed => conn[c].prev \in Rows
  BY Zenon DEF Resuming, ResumingAt
<1>k. ASSUME NEW c \in Conns, \A d \in Conns : d # c => conn'[d] = conn[d],
             conn[c].pc \in Departed =>
               /\ conn'[c].pc \in Departed /\ conn'[c].row = conn[c].row /\ conn'[c].lastSc = conn[c].lastSc
               /\ conn[c].pc = "gone" => conn'[c].pc = "gone"
      PROVE  DepartedStays
  BY <1>k, <1>0 DEF DepartedStays
<1>s. conn' = conn => DepartedStays
  BY <1>0 DEF DepartedStays
<1>1. ASSUME NEW c \in Conns, Accept(c) PROVE DepartedStays
  <2>1. conn[c].pc \notin Departed
    BY <1>1 DEF Accept, Departed
  <2>2. \A d \in Conns : d # c => conn'[d] = conn[d]
    BY <1>1, <1>l, ConnSteps, Zenon DEF Effect, Moves
  <2> QED BY <2>1, <2>2, <1>k
<1>2. ASSUME NEW c \in Conns, RejectConnect(c) PROVE DepartedStays
  <2>1. conn[c].pc \notin Departed
    BY <1>2 DEF RejectConnect, Departed
  <2>2. \A d \in Conns : d # c => conn'[d] = conn[d]
    BY <1>2, <1>l, ConnSteps, Zenon DEF Effect, Moves
  <2> QED BY <2>1, <2>2, <1>k
<1>3. ASSUME NEW c \in Conns, Connect(c) PROVE DepartedStays
  <2>1. conn[c].pc \notin Departed
    BY <1>3 DEF Connect, Departed
  <2>2. \A d \in Conns : d # c => conn'[d] = conn[d]
    BY <1>3, <1>l, ConnSteps, Zenon DEF Effect, Moves
  <2> QED BY <2>1, <2>2, <1>k
<1>4. ASSUME NEW c \in Conns, RetireInconsistent(c) PROVE DepartedStays
  <2>1. conn[c].pc \notin Departed
    BY <1>4 DEF RetireInconsistent, Departed
  <2>2. \A d \in Conns : d # c => conn'[d] = conn[d]
    BY <1>4, <1>l, ConnSteps, Zenon DEF Effect, Moves
  <2> QED BY <2>1, <2>2, <1>k
<1>5. ASSUME NEW c \in Conns, OfferResume(c) PROVE DepartedStays
  <2>1. conn[c].pc \notin Departed
    BY <1>5 DEF OfferResume, Departed
  <2>2. \A d \in Conns : d # c => conn'[d] = conn[d]
    BY <1>5, <1>l, ConnSteps, Zenon DEF Effect, Moves
  <2> QED BY <2>1, <2>2, <1>k
<1>6. ASSUME NEW c \in Conns, RefuseConnect(c) PROVE DepartedStays
  <2>1. conn[c].pc \notin Departed
    BY <1>6 DEF RefuseConnect, Departed
  <2>2. \A d \in Conns : d # c => conn'[d] = conn[d]
    BY <1>6, <1>l, ConnSteps, Zenon DEF Effect, Moves
  <2> QED BY <2>1, <2>2, <1>k
<1>7. ASSUME NEW c \in Conns, ConnectComplete(c) PROVE DepartedStays
  <2>1. conn[c].pc \notin Departed
    BY <1>7 DEF ConnectComplete, Departed
  <2>2. \A d \in Conns : d # c => conn'[d] = conn[d]
    BY <1>7, <1>l, ConnSteps, Zenon DEF Effect, Moves
  <2> QED BY <2>1, <2>2, <1>k
<1>8. ASSUME NEW c \in Conns, ClaimRow(c) PROVE DepartedStays
  <2>1. conn[c].pc \notin Departed
    BY <1>8 DEF ClaimRow, Departed
  <2>2. \A d \in Conns : d # c => conn'[d] = conn[d]
    BY <1>8, <1>l, RowSteps DEF Effect, Moves
  <2> QED BY <2>1, <2>2, <1>k
<1>9. ASSUME NEW c \in Conns, DiscardActive(c) PROVE DepartedStays
  <2>1. conn[c].pc \notin Departed
    BY <1>9, Zenon DEF DiscardActive, Departed
  <2>2. \A d \in Conns : d # c => conn'[d] = conn[d]
    BY <1>9, <1>l, ConnSteps, Zenon DEF Effect, Moves
  <2> QED BY <2>1, <2>2, <1>k
<1>10. ASSUME NEW c \in Conns, DiscardResumable(c) PROVE DepartedStays
  <2>1. conn[c].pc \notin Departed
    BY <1>10, Zenon DEF DiscardResumable, Departed
  <2>2. \A d \in Conns : d # c => conn'[d] = conn[d]
    BY <1>10, <1>l, ConnSteps, Zenon DEF Effect, Moves
  <2> QED BY <2>1, <2>2, <1>k
<1>11. ASSUME NEW c \in Conns, CreateRow(c) PROVE DepartedStays
  <2>1. conn[c].pc \notin Departed
    BY <1>11, Zenon DEF CreateRow, Departed
  <2>2. \A d \in Conns : d # c => conn'[d] = conn[d]
    BY <1>11, <1>l, RowSteps DEF Effect, Moves
  <2> QED BY <2>1, <2>2, <1>k
<1>12. ASSUME NEW c \in Conns, Register(c) PROVE DepartedStays
  <2>1. conn[c].pc \notin Departed
    BY <1>12 DEF Register, Departed
  <2>2. \A d \in Conns : d # c => conn'[d] = conn[d]
    BY <1>12, <1>l, ConnSteps, Zenon DEF Effect, Moves
  <2> QED BY <2>1, <2>2, <1>k
<1>13. ASSUME NEW c \in Conns, Publish(c) PROVE DepartedStays
  <2>1. conn[c].pc \notin Departed
    BY <1>13 DEF Publish, Departed
  <2> QED BY <1>13, <1>0, <2>1, MoreConnSteps DEF DepartedStays
<1>14. ASSUME NEW c \in Conns, CompleteHandshake(c) PROVE DepartedStays
  <2>1. conn[c].pc \notin Departed
    BY <1>14 DEF CompleteHandshake, Departed
  <2>2. \A d \in Conns : d # c => conn'[d] = conn[d]
    BY <1>14, <1>l, ConnSteps, Zenon DEF Effect, Moves
  <2> QED BY <2>1, <2>2, <1>k
<1>15. ASSUME NEW c \in Conns, Lookup(c) PROVE DepartedStays
  BY <1>15, <1>s DEF Lookup
<1>16. ASSUME NEW c \in Conns, Answer(c) PROVE DepartedStays
  BY <1>16, <1>s DEF Answer
<1>17. ASSUME NEW c \in Conns, Break(c) PROVE DepartedStays
  <2>1. Closes(c)
    BY <1>17, <1>l, ConnSteps, Zenon
  <2> QED BY <2>1, <1>k DEF Closes, Effect
<1>18. ASSUME NEW c \in Conns, EndReading(c) PROVE DepartedStays
  <2>1. conn[c].pc # "gone" /\ Moves(c, "closing") /\ "closing" \in Departed
    BY <1>18, <1>l, ConnSteps, Zenon DEF EndReading, Reading, Departed
  <2> QED BY <2>1, <1>k DEF Moves, Effect
<1>19. ASSUME NEW c \in Conns, Unpublish(c) PROVE DepartedStays
  <2>1. conn[c].pc = "closing" /\ \E p \in {"evicting", "counting", "handing back"} : Moves(c, p)
    BY <1>19, <1>l, ConnSteps, Zenon DEF Unpublish
  <2>2. {"evicting", "counting", "handing back"} \subseteq Departed
    BY DEF Departed
  <2> QED BY <2>1, <2>2, <1>k, Zenon DEF Moves, Effect
<1>20. ASSUME NEW c \in Conns, WriteFinalCounters(c) PROVE DepartedStays
  <2>1. conn[c].pc = "counting" /\ \E p \in {"evicting", "counting", "handing back"} : Moves(c, p)
    BY <1>20, <1>l, ConnSteps, Zenon DEF WriteFinalCounters
  <2>2. {"evicting", "counting", "handing back"} \subseteq Departed
    BY DEF Departed
  <2> QED BY <2>1, <2>2, <1>k, Zenon DEF Moves, Effect
<1>21. ASSUME NEW c \in Conns, HandBack(c) PROVE DepartedStays
  <2>1. conn[c].pc = "handing back" /\ \E p \in {"evicting", "counting", "handing back"} : Moves(c, p)
    BY <1>21, <1>l, ConnSteps, Zenon DEF HandBack
  <2>2. {"evicting", "counting", "handing back"} \subseteq Departed
    BY DEF Departed
  <2> QED BY <2>1, <2>2, <1>k, Zenon DEF Moves, Effect
<1>22. ASSUME NEW c \in Conns, Evict(c) PROVE DepartedStays
  <2>1. conn[c].pc = "evicting" /\ Effect(c, "gone", FALSE, FALSE, NoRow, {}, conn[c].row, conn[c].lastSc) /\ "gone" \in Departed
    BY <1>22, MoreConnSteps DEF Evict, Departed
  <2> QED BY <2>1, <1>k DEF Effect
<1>23. ASSUME NEW t \in senders, Allocate(t) PROVE DepartedStays
  <2>1. t.conn \in Conns /\ Effect(t.conn, conn[t.conn].pc, conn[t.conn].sock, conn[t.conn].resumed, conn[t.conn].prev,
                                      conn[t.conn].offer, conn[t.conn].row, conn[t.conn].lastSc - 1)
    BY <1>23, <1>0, MoreConnSteps
  <2> QED BY <2>1, <1>0 DEF DepartedStays, Effect
<1>24. ASSUME NEW t \in senders, WriteCounter(t) PROVE DepartedStays
  BY <1>24, <1>s DEF WriteCounter
<1>25. ASSUME NEW t \in senders, Record(t) PROVE DepartedStays
  BY <1>25, <1>s DEF Record
<1>26. ASSUME NEW t \in senders, Send(t) PROVE DepartedStays
  <2>1. t.conn \in Conns /\ (conn' = conn \/ Closes(t.conn))
    BY <1>26, <1>0, MoreConnSteps
  <2>2. ASSUME NEW c \in Conns, Closes(c) PROVE DepartedStays
    BY <2>2, <1>k DEF Closes, Effect
  <2> QED BY <2>1, <2>2, <1>s
<1>27. ASSUME CloseSessionByEUI PROVE DepartedStays
  <2>1. PICK c \in live : conn' = [conn EXCEPT ![c].sock = FALSE]
    BY <1>27 DEF CloseSessionByEUI
  <2> QED BY <2>1, <1>0, <1>k, MoreConnSteps DEF Closes, Effect
<1>28. ASSUME Crash PROVE DepartedStays
  <2>1. "gone" \in Departed /\ "idle" \notin Departed
    BY DEF Departed
  <2>2. \A d \in Conns :
          \/ conn[d].pc = "idle"
          \/ conn'[d].pc = "gone" /\ conn'[d].row = conn[d].row /\ conn'[d].lastSc = conn[d].lastSc
    BY <1>28, MoreConnSteps
  <2>3. \A d \in Conns : conn[d].lastSc <= conn[d].lastSc
    BY <1>0
  <2> QED BY <2>1, <2>2, <2>3 DEF DepartedStays
<1>29. ASSUME Start PROVE DepartedStays
  BY <1>29, <1>s DEF Start
<1> QED BY <1>1, <1>2, <1>3, <1>4, <1>5, <1>6, <1>7, <1>8, <1>9, <1>10, <1>11, <1>12, <1>13, <1>14,
           <1>15, <1>16, <1>17, <1>18, <1>19, <1>20, <1>21, <1>22, <1>23, <1>24, <1>25, <1>26,
           <1>27, <1>28, <1>29
        DEF Next, Activate, Teardown, Sending

\* Every step keeps what a connection remembers of the session it resumes.
LEMMA ResumeStep ==
  ASSUME TypeOK, Resuming, PastHandshake, RowLater, SendersLate, LiveHolds, Next
  PROVE  Resuming'
<1>0. live \subseteq Conns /\ \A t \in senders : t.conn \in Conns
  BY DEF TypeOK, SenderType
<1>l. \A c \in Conns : /\ conn[c].pc \in {"loading", "retiring", "claiming"} => conn[c].prev \in Rows
                       /\ conn[c].resumed => conn[c].prev \in Rows
  BY Zenon DEF Resuming, ResumingAt
<1>s. conn' = conn => Resuming'
  BY Zenon DEF Resuming, ResumingAt
<1>m. ASSUME NEW c \in Conns, NEW p, Moves(c, p),
             p \in {"loading", "retiring", "claiming", "idle", "connecting", "discarding", "retiring rows", "creating", "gone"} => 
               ~conn[c].resumed /\ p \notin {"loading", "retiring", "claiming"}
      PROVE  Resuming'
  BY <1>m, Zenon DEF Moves, Effect, Resuming, ResumingAt
<1>g. ASSUME NEW c \in Conns, \A d \in Conns : d # c => conn'[d] = conn[d], ResumingAt(c)'
      PROVE  Resuming'
  <2> SUFFICES ASSUME NEW d \in Conns PROVE ResumingAt(d)'
    BY DEF Resuming
  <2>1. CASE d = c
    BY <2>1, <1>g
  <2>2. CASE d # c
    <3>1. conn'[d] = conn[d] /\ ResumingAt(d)
      BY <2>2, <1>g DEF Resuming
    <3> QED BY <3>1, Zenon DEF ResumingAt
  <2> QED BY <2>1, <2>2
<1>c. ASSUME NEW c \in Conns, Closes(c) PROVE Resuming'
  <2>1. /\ \A d \in Conns : d # c => conn'[d] = conn[d]
        /\ conn'[c].pc = conn[c].pc /\ conn'[c].resumed = conn[c].resumed /\ conn'[c].prev = conn[c].prev
        /\ conn'[c].offer = conn[c].offer /\ conn'[c].row = conn[c].row
    BY <1>c DEF Closes, Effect
  <2>2. ResumingAt(c)
    BY DEF Resuming
  <2>3. ResumingAt(c)'
    BY <2>1, <2>2, Zenon DEF ResumingAt
  <2> QED BY <2>1, <2>3, <1>g
<1>1. ASSUME NEW c \in Conns, Accept(c) PROVE Resuming'
  <2>0. ResumingAt(c) /\ conn[c].row = NoRow /\ conn[c].pc = "idle"
    BY <1>1, Zenon DEF Accept, Resuming, RowLater, Early
  <2>1. /\ \A d \in Conns : d # c => conn'[d] = conn[d]
        /\ conn'[c].pc = "connecting" /\ conn'[c].resumed = conn[c].resumed /\ conn'[c].prev = conn[c].prev /\ conn'[c].offer = conn[c].offer /\ conn'[c].row = conn[c].row
    BY <1>1, <1>l, ConnSteps, Zenon DEF Moves, Effect
  <2>2. ResumingAt(c)'
    BY <2>0, <2>1 DEF ResumingAt
  <2> QED BY <2>1, <2>2, <1>g
<1>2. ASSUME NEW c \in Conns, RejectConnect(c) PROVE Resuming'
  BY <1>2, <1>l, <1>m, ConnSteps, Zenon
<1>3. ASSUME NEW c \in Conns, Connect(c) PROVE Resuming'
  <2>0. ResumingAt(c) /\ conn[c].row = NoRow /\ conn[c].pc = "connecting"
    BY <1>3, Zenon DEF Connect, Resuming, RowLater, Early
  <2>1. /\ \A d \in Conns : d # c => conn'[d] = conn[d]
        /\ conn'[c].pc \in {"offered", "loading", "retiring"}
        /\ (conn'[c].pc # "offered" => conn'[c].prev \in Rows) /\ conn'[c].resumed = conn[c].resumed /\ conn'[c].offer = conn[c].offer /\ conn'[c].row = conn[c].row
    BY <1>3, <1>l, ConnSteps, Zenon DEF Moves, Effect
  <2>2. ResumingAt(c)'
    BY <2>0, <2>1, Zenon DEF ResumingAt
  <2> QED BY <2>1, <2>2, <1>g
<1>4. ASSUME NEW c \in Conns, RetireInconsistent(c) PROVE Resuming'
  <2>0. ResumingAt(c) /\ conn[c].row = NoRow /\ conn[c].pc = "retiring"
    BY <1>4, Zenon DEF RetireInconsistent, Resuming, RowLater, Early
  <2>1. /\ \A d \in Conns : d # c => conn'[d] = conn[d]
        /\ conn'[c].pc \in {"offered", "closing"} /\ conn'[c].resumed = conn[c].resumed /\ conn'[c].offer = conn[c].offer /\ conn'[c].row = conn[c].row
    BY <1>4, <1>l, ConnSteps, Zenon DEF Moves, Effect
  <2>2. ResumingAt(c)'
    BY <2>0, <2>1, Zenon DEF ResumingAt
  <2> QED BY <2>1, <2>2, <1>g
<1>5. ASSUME NEW c \in Conns, OfferResume(c) PROVE Resuming'
  <2>0. ResumingAt(c) /\ conn[c].row = NoRow /\ conn[c].pc = "loading"
    BY <1>5, Zenon DEF OfferResume, Resuming, RowLater, Early
  <2>1. /\ \A d \in Conns : d # c => conn'[d] = conn[d]
        /\ conn'[c].pc \in {"offered", "closing"} /\ conn'[c].prev = conn[c].prev /\ conn'[c].row = conn[c].row
        /\ (conn'[c].resumed \/ (conn'[c].resumed = conn[c].resumed /\ conn'[c].offer = conn[c].offer))
    BY <1>5, <1>l, ConnSteps, Zenon DEF Moves, Effect
  <2>2. ResumingAt(c)'
    BY <2>0, <2>1, Zenon DEF ResumingAt
  <2> QED BY <2>1, <2>2, <1>g
<1>6. ASSUME NEW c \in Conns, RefuseConnect(c) PROVE Resuming'
  BY <1>6, <1>l, <1>m, ConnSteps, Zenon
<1>7. ASSUME NEW c \in Conns, ConnectComplete(c) PROVE Resuming'
  <2>0. ResumingAt(c) /\ conn[c].row = NoRow /\ conn[c].pc = "offered"
    BY <1>7, Zenon DEF ConnectComplete, Resuming, RowLater, Early
  <2>1. /\ \A d \in Conns : d # c => conn'[d] = conn[d]
        /\ conn'[c].pc = (IF conn[c].resumed THEN "claiming" ELSE "discarding") /\ conn'[c].resumed = conn[c].resumed /\ conn'[c].prev = conn[c].prev /\ conn'[c].offer = conn[c].offer /\ conn'[c].row = conn[c].row
    BY <1>7, <1>l, ConnSteps, Zenon DEF Moves, Effect
  <2>2. ResumingAt(c)'
    BY <2>0, <2>1 DEF ResumingAt
  <2> QED BY <2>1, <2>2, <1>g
<1>8. ASSUME NEW c \in Conns, ClaimRow(c) PROVE Resuming'
  <2>0. ResumingAt(c) /\ conn[c].row = NoRow /\ conn[c].pc = "claiming"
    BY <1>8, Zenon DEF ClaimRow, Resuming, RowLater, Early
  <2>1. /\ \A d \in Conns : d # c => conn'[d] = conn[d]
        /\ conn'[c].pc \in {"registering", "closing"} /\ conn'[c].resumed = conn[c].resumed
        /\ conn'[c].prev = conn[c].prev /\ conn'[c].offer = conn[c].offer
        /\ conn[c].resumed /\ conn'[c].row # NoRow => conn'[c].row = conn[c].prev
    BY <1>8, <2>0, <1>l, RowSteps DEF Moves, Effect, ResumingAt
  <2>2. ResumingAt(c)'
    BY <2>0, <2>1, Zenon DEF ResumingAt
  <2> QED BY <2>1, <2>2, <1>g
<1>9. ASSUME NEW c \in Conns, DiscardActive(c) PROVE Resuming'
  <2>1. conn[c].pc = "discarding" => ~conn[c].resumed
    BY Zenon DEF Resuming, ResumingAt
  <2> QED BY <1>9, <2>1, <1>l, <1>m, ConnSteps, Zenon DEF DiscardActive
<1>10. ASSUME NEW c \in Conns, DiscardResumable(c) PROVE Resuming'
  <2>1. conn[c].pc = "retiring rows" => ~conn[c].resumed
    BY Zenon DEF Resuming, ResumingAt
  <2> QED BY <1>10, <2>1, <1>l, <1>m, ConnSteps, Zenon DEF DiscardResumable
<1>11. ASSUME NEW c \in Conns, CreateRow(c) PROVE Resuming'
  <2>0. ResumingAt(c) /\ conn[c].row = NoRow /\ conn[c].pc = "creating"
    BY <1>11, Zenon DEF CreateRow, Resuming, RowLater, Early
  <2>1. /\ \A d \in Conns : d # c => conn'[d] = conn[d]
        /\ conn'[c].pc \in {"registering", "closing"} /\ conn'[c].resumed = conn[c].resumed
        /\ conn'[c].prev = conn[c].prev /\ conn'[c].offer = conn[c].offer
        /\ conn[c].resumed /\ conn'[c].row # NoRow => conn'[c].row = conn[c].prev
    BY <1>11, <2>0, <1>l, RowSteps DEF Moves, Effect, ResumingAt
  <2>2. ResumingAt(c)'
    BY <2>0, <2>1, Zenon DEF ResumingAt
  <2> QED BY <2>1, <2>2, <1>g
<1>12. ASSUME NEW c \in Conns, Register(c) PROVE Resuming'
  BY <1>12, <1>l, <1>m, ConnSteps, Zenon
<1>13. ASSUME NEW c \in Conns, Publish(c) PROVE Resuming'
  <2>1. conn[c].pc = "publishing"
    BY <1>13 DEF Publish
  <2>2. /\ conn'[c].pc = "completing"
        /\ \A d \in Conns : /\ d # c => conn'[d].pc = conn[d].pc
                            /\ conn'[d].resumed = conn[d].resumed /\ conn'[d].prev = conn[d].prev
                            /\ conn'[d].offer = conn[d].offer /\ conn'[d].row = conn[d].row
    BY <1>13, MoreConnSteps
  <2>3. ASSUME NEW d \in Conns PROVE ResumingAt(d)'
    <3>1. ResumingAt(d)
      BY DEF Resuming
    <3> QED BY <2>1, <2>2, <3>1, Zenon DEF ResumingAt
  <2> QED BY <2>3 DEF Resuming
<1>14. ASSUME NEW c \in Conns, CompleteHandshake(c) PROVE Resuming'
  BY <1>14, <1>l, <1>m, ConnSteps, Zenon
<1>15. ASSUME NEW c \in Conns, Lookup(c) PROVE Resuming'
  BY <1>15, <1>s DEF Lookup
<1>16. ASSUME NEW c \in Conns, Answer(c) PROVE Resuming'
  BY <1>16, <1>s DEF Answer
<1>17. ASSUME NEW c \in Conns, Break(c) PROVE Resuming'
  BY <1>17, <1>l, <1>c, ConnSteps, Zenon
<1>18. ASSUME NEW c \in Conns, EndReading(c) PROVE Resuming'
  BY <1>18, <1>l, <1>m, ConnSteps, Zenon
<1>19. ASSUME NEW c \in Conns, Unpublish(c) PROVE Resuming'
  BY <1>19, <1>l, <1>m, ConnSteps, Zenon
<1>20. ASSUME NEW c \in Conns, WriteFinalCounters(c) PROVE Resuming'
  BY <1>20, <1>l, <1>m, ConnSteps, Zenon
<1>21. ASSUME NEW c \in Conns, HandBack(c) PROVE Resuming'
  BY <1>21, <1>l, <1>m, ConnSteps, Zenon
<1>22. ASSUME NEW c \in Conns, Evict(c) PROVE Resuming'
  <2>0. ResumingAt(c)
    BY <1>22, Zenon DEF Evict, Resuming, RowLater, Early
  <2>1. /\ \A d \in Conns : d # c => conn'[d] = conn[d]
        /\ conn'[c].pc = "gone" /\ conn'[c].resumed = FALSE /\ conn'[c].offer = {}
    BY <1>22, <1>l, MoreConnSteps DEF Moves, Effect
  <2>2. ResumingAt(c)'
    BY <2>0, <2>1, Zenon DEF ResumingAt
  <2> QED BY <2>1, <2>2, <1>g
<1>23. ASSUME NEW t \in senders, Allocate(t) PROVE Resuming'
  <2> DEFINE c == t.conn
  <2>1. /\ c \in Conns /\ \A d \in Conns : d # c => conn'[d] = conn[d]
        /\ conn'[c].pc = conn[c].pc /\ conn'[c].resumed = conn[c].resumed /\ conn'[c].prev = conn[c].prev
        /\ conn'[c].offer = conn[c].offer /\ conn'[c].row = conn[c].row
    BY <1>23, <1>0, MoreConnSteps DEF Effect
  <2> HIDE DEF c
  <2>2. ResumingAt(c)'
    BY <2>1, Zenon DEF ResumingAt, Resuming
  <2> QED BY <2>1, <2>2, <1>g
<1>24. ASSUME NEW t \in senders, WriteCounter(t) PROVE Resuming'
  BY <1>24, <1>s DEF WriteCounter
<1>25. ASSUME NEW t \in senders, Record(t) PROVE Resuming'
  BY <1>25, <1>s DEF Record
<1>26. ASSUME NEW t \in senders, Send(t) PROVE Resuming'
  BY <1>26, <1>0, <1>s, <1>c, MoreConnSteps
<1>27. ASSUME CloseSessionByEUI PROVE Resuming'
  BY <1>27, <1>0, <1>c, MoreConnSteps DEF CloseSessionByEUI
<1>28. ASSUME Crash PROVE Resuming'
  BY <1>28, MoreConnSteps, Zenon DEF Resuming, ResumingAt
<1>29. ASSUME Start PROVE Resuming'
  BY <1>29, <1>s DEF Start
<1> QED BY <1>1, <1>2, <1>3, <1>4, <1>5, <1>6, <1>7, <1>8, <1>9, <1>10, <1>11, <1>12, <1>13, <1>14,
           <1>15, <1>16, <1>17, <1>18, <1>19, <1>20, <1>21, <1>22, <1>23, <1>24, <1>25, <1>26,
           <1>27, <1>28, <1>29
        DEF Next, Activate, Teardown, Sending

\* Which steps change what.
Frames ==
  /\ issued' = issued \/ \E t \in senders : Record(t)
  /\ unreadable' = unreadable \/ Start
  /\ \/ open' = open
     \/ \E c \in Conns : OfferResume(c) \/ CompleteHandshake(c) \/ Answer(c)
     \/ \E t \in senders : Send(t)
  /\ \/ journal' = journal
     \/ \E c \in Conns : \/ RetireInconsistent(c) \/ OfferResume(c) \/ RefuseConnect(c)
                         \/ DiscardActive(c) \/ DiscardResumable(c) \/ Answer(c)
     \/ \E t \in senders : Record(t) \/ Send(t)
  /\ \/ senders' = senders
     \/ \E c \in Conns : Lookup(c)
     \/ \E t \in senders : Allocate(t) \/ WriteCounter(t) \/ Record(t) \/ Send(t)
     \/ Crash
  /\ \/ contested' = contested
     \/ \E c \in Conns : Answer(c)
     \/ \E t \in senders : Allocate(t) \/ Record(t) \/ Send(t)
  /\ \/ cache' = cache
     \/ \E c \in Conns : CompleteHandshake(c) \/ Answer(c) \/ Evict(c)
     \/ \E t \in senders : Record(t) \/ Send(t)
     \/ Crash

\* The variables a step leaves alone.
LEMMA FrameStep ==
  ASSUME Next
  PROVE  Frames
<1>1. ASSUME NEW c \in Conns, Accept(c) PROVE Frames
  <2>1. UNCHANGED <<cache, issued, unreadable, open, journal, senders, contested>>
    BY <1>1 DEF Accept, dbVars, ghostVars
  <2> QED BY <1>1, <2>1 DEF Frames
<1>2. ASSUME NEW c \in Conns, RejectConnect(c) PROVE Frames
  <2>1. UNCHANGED <<cache, issued, unreadable, open, journal, senders, contested>>
    BY <1>2 DEF RejectConnect, dbVars, ghostVars
  <2> QED BY <1>2, <2>1 DEF Frames
<1>3. ASSUME NEW c \in Conns, Connect(c) PROVE Frames
  <2>1. UNCHANGED <<cache, issued, unreadable, open, journal, senders, contested>>
    BY <1>3 DEF Connect, dbVars, ghostVars
  <2> QED BY <1>3, <2>1 DEF Frames
<1>4. ASSUME NEW c \in Conns, RetireInconsistent(c) PROVE Frames
  <2>1. UNCHANGED <<cache, issued, unreadable, open, senders, contested>>
    BY <1>4 DEF RetireInconsistent, dbVars, ghostVars
  <2> QED BY <1>4, <2>1 DEF Frames
<1>5. ASSUME NEW c \in Conns, OfferResume(c) PROVE Frames
  <2>1. UNCHANGED <<cache, issued, unreadable, senders, contested>>
    BY <1>5 DEF OfferResume, dbVars, ghostVars
  <2> QED BY <1>5, <2>1 DEF Frames
<1>6. ASSUME NEW c \in Conns, RefuseConnect(c) PROVE Frames
  <2>1. UNCHANGED <<cache, issued, unreadable, open, senders, contested>>
    BY <1>6 DEF RefuseConnect, dbVars, ghostVars
  <2> QED BY <1>6, <2>1 DEF Frames
<1>7. ASSUME NEW c \in Conns, ConnectComplete(c) PROVE Frames
  <2>1. UNCHANGED <<cache, issued, unreadable, open, journal, senders, contested>>
    BY <1>7 DEF ConnectComplete, dbVars, ghostVars
  <2> QED BY <1>7, <2>1 DEF Frames
<1>8. ASSUME NEW c \in Conns, ClaimRow(c) PROVE Frames
  <2>1. UNCHANGED <<cache, issued, unreadable, open, journal, senders, contested>>
    BY <1>8 DEF ClaimRow, dbVars, ghostVars
  <2> QED BY <1>8, <2>1 DEF Frames
<1>9. ASSUME NEW c \in Conns, DiscardActive(c) PROVE Frames
  <2>1. UNCHANGED <<cache, issued, unreadable, open, senders, contested>>
    BY <1>9, Zenon DEF DiscardActive, dbVars, ghostVars
  <2> QED BY <1>9, <2>1 DEF Frames
<1>10. ASSUME NEW c \in Conns, DiscardResumable(c) PROVE Frames
  <2>1. UNCHANGED <<cache, issued, unreadable, open, senders, contested>>
    BY <1>10, Zenon DEF DiscardResumable, dbVars, ghostVars
  <2> QED BY <1>10, <2>1 DEF Frames
<1>11. ASSUME NEW c \in Conns, CreateRow(c) PROVE Frames
  <2>1. UNCHANGED <<cache, issued, unreadable, open, journal, senders, contested>>
    BY <1>11, Zenon DEF CreateRow, dbVars, ghostVars
  <2> QED BY <1>11, <2>1 DEF Frames
<1>12. ASSUME NEW c \in Conns, Register(c) PROVE Frames
  <2>1. UNCHANGED <<cache, issued, unreadable, open, journal, senders, contested>>
    BY <1>12 DEF Register, dbVars, ghostVars
  <2> QED BY <1>12, <2>1 DEF Frames
<1>13. ASSUME NEW c \in Conns, Publish(c) PROVE Frames
  <2>1. UNCHANGED <<cache, issued, unreadable, open, journal, senders, contested>>
    BY <1>13 DEF Publish, dbVars, ghostVars
  <2> QED BY <1>13, <2>1 DEF Frames
<1>14. ASSUME NEW c \in Conns, CompleteHandshake(c) PROVE Frames
  <2>1. UNCHANGED <<issued, unreadable, journal, senders, contested>>
    BY <1>14 DEF CompleteHandshake, dbVars, ghostVars
  <2> QED BY <1>14, <2>1 DEF Frames
<1>15. ASSUME NEW c \in Conns, Lookup(c) PROVE Frames
  <2>1. UNCHANGED <<cache, issued, unreadable, open, journal, contested>>
    BY <1>15 DEF Lookup, dbVars, ghostVars
  <2> QED BY <1>15, <2>1 DEF Frames
<1>16. ASSUME NEW c \in Conns, Answer(c) PROVE Frames
  <2>1. UNCHANGED <<issued, unreadable, senders>>
    BY <1>16 DEF Answer, dbVars, ghostVars
  <2> QED BY <1>16, <2>1 DEF Frames
<1>17. ASSUME NEW c \in Conns, Break(c) PROVE Frames
  <2>1. UNCHANGED <<cache, issued, unreadable, open, journal, senders, contested>>
    BY <1>17 DEF Break, dbVars, ghostVars
  <2> QED BY <1>17, <2>1 DEF Frames
<1>18. ASSUME NEW c \in Conns, EndReading(c) PROVE Frames
  <2>1. UNCHANGED <<cache, issued, unreadable, open, journal, senders, contested>>
    BY <1>18 DEF EndReading, dbVars, ghostVars
  <2> QED BY <1>18, <2>1 DEF Frames
<1>19. ASSUME NEW c \in Conns, Unpublish(c) PROVE Frames
  <2>1. UNCHANGED <<cache, issued, unreadable, open, journal, senders, contested>>
    BY <1>19 DEF Unpublish, dbVars, ghostVars
  <2> QED BY <1>19, <2>1 DEF Frames
<1>20. ASSUME NEW c \in Conns, WriteFinalCounters(c) PROVE Frames
  <2>1. UNCHANGED <<cache, issued, unreadable, open, journal, senders, contested>>
    BY <1>20, Zenon DEF WriteFinalCounters, dbVars, ghostVars
  <2> QED BY <1>20, <2>1 DEF Frames
<1>21. ASSUME NEW c \in Conns, HandBack(c) PROVE Frames
  <2>1. UNCHANGED <<cache, issued, unreadable, open, journal, senders, contested>>
    BY <1>21, Zenon DEF HandBack, dbVars, ghostVars
  <2> QED BY <1>21, <2>1 DEF Frames
<1>22. ASSUME NEW c \in Conns, Evict(c) PROVE Frames
  <2>1. UNCHANGED <<issued, unreadable, open, journal, senders, contested>>
    BY <1>22 DEF Evict, dbVars, ghostVars
  <2> QED BY <1>22, <2>1 DEF Frames
<1>23. ASSUME NEW t \in senders, Allocate(t) PROVE Frames
  <2>1. UNCHANGED <<cache, issued, unreadable, open, journal>>
    BY <1>23 DEF Allocate, dbVars, ghostVars
  <2> QED BY <1>23, <2>1 DEF Frames
<1>24. ASSUME NEW t \in senders, WriteCounter(t) PROVE Frames
  <2>1. UNCHANGED <<cache, issued, unreadable, open, journal, contested>>
    BY <1>24 DEF WriteCounter, dbVars, ghostVars
  <2> QED BY <1>24, <2>1 DEF Frames
<1>25. ASSUME NEW t \in senders, Record(t) PROVE Frames
  <2>1. UNCHANGED <<unreadable, open>>
    BY <1>25 DEF Record, dbVars, ghostVars
  <2> QED BY <1>25, <2>1 DEF Frames
<1>26. ASSUME NEW t \in senders, Send(t) PROVE Frames
  <2>1. UNCHANGED <<issued, unreadable>>
    BY <1>26 DEF Send, dbVars, ghostVars
  <2> QED BY <1>26, <2>1 DEF Frames
<1>27. ASSUME CloseSessionByEUI PROVE Frames
  <2>1. UNCHANGED <<cache, issued, unreadable, open, journal, senders, contested>>
    BY <1>27 DEF CloseSessionByEUI, dbVars, ghostVars
  <2> QED BY <1>27, <2>1 DEF Frames
<1>28. ASSUME Crash PROVE Frames
  <2>1. UNCHANGED <<issued, unreadable, open, journal, contested>>
    BY <1>28 DEF Crash, dbVars, ghostVars
  <2> QED BY <1>28, <2>1 DEF Frames
<1>29. ASSUME Start PROVE Frames
  <2>1. UNCHANGED <<cache, issued, open, journal, senders, contested>>
    BY <1>29 DEF Start, dbVars, ghostVars
  <2> QED BY <1>29, <2>1 DEF Frames
<1> QED BY <1>1, <1>2, <1>3, <1>4, <1>5, <1>6, <1>7, <1>8, <1>9, <1>10, <1>11, <1>12, <1>13, <1>14,
           <1>15, <1>16, <1>17, <1>18, <1>19, <1>20, <1>21, <1>22, <1>23, <1>24, <1>25, <1>26,
           <1>27, <1>28, <1>29
        DEF Next, Activate, Teardown, Sending

\* Every step keeps the operations being sent on sessions that have a row.
LEMMA SendersStep ==
  ASSUME TypeOK, TypeOK', SendersLate, SendersApart, PastHandshake, DepartedStays, Frames
  PROVE  SendersLate' /\ SendersApart'
<1>0. /\ \A t \in senders : t.conn \in Conns /\ t.id \in Int /\ t \in SenderType
      /\ \A c \in Conns : conn[c].lastSc \in Int /\ conn[c].lastSc <= 0
      /\ \A c \in Conns : conn'[c].lastSc \in Int
      /\ senders \subseteq SenderType
  BY SessionAssumption DEF TypeOK, SenderType, ConnType, ScIds
<1>d. \A t \in senders : /\ conn'[t.conn].pc \in Departed /\ conn'[t.conn].row # NoRow
                         /\ conn'[t.conn].lastSc <= conn[t.conn].lastSc
  BY <1>0 DEF SendersLate, DepartedStays
<1>k. \A t \in senders : /\ conn'[t.conn].pc \in Departed /\ conn'[t.conn].row # NoRow
                         /\ t.pc = "found" <=> t.id = 0
                         /\ t.id # 0 => conn'[t.conn].lastSc <= t.id
  BY <1>0, <1>d DEF SendersLate
<1>s. ASSUME senders' \subseteq senders PROVE SendersLate' /\ SendersApart'
  BY <1>s, <1>k DEF SendersLate, SendersApart
<1>m. ASSUME NEW t \in senders, NEW p \in {"counted", "recorded"}, t.pc # "found", senders' = Moved(t, p)
      PROVE  SendersLate' /\ SendersApart'
  <2> DEFINE u == [t EXCEPT !.pc = p]
  <2>1. u.conn = t.conn /\ u.id = t.id /\ u.pc = p
    BY <1>0 DEF SenderType
  <2>2. senders' = (senders \ {t}) \cup {u}
    BY <1>m DEF Moved
  <2>3. t.id # 0
    BY <1>m, <1>k
  <2> HIDE DEF u
  <2>4. SendersLate'
    BY <2>1, <2>2, <2>3, <1>k DEF SendersLate
  <2>5. SendersApart'
    BY <2>1, <2>2 DEF SendersApart
  <2> QED BY <2>4, <2>5
<1>1. ASSUME NEW c \in Conns, Lookup(c) PROVE SendersLate' /\ SendersApart'
  <2> DEFINE u == [conn |-> c, id |-> 0, pc |-> "found"]
  <2>1. senders' = senders \cup {u} /\ conn' = conn /\ conn[c].pc = "complete"
    BY <1>1 DEF Lookup
  <2>2. u.conn = c /\ u.id = 0 /\ u.pc = "found"
    OBVIOUS
  <2>3. conn[c].row # NoRow /\ conn[c].pc \in Departed
    BY <2>1, Zenon DEF PastHandshake, Departed
  <2>4. \A t \in senders : t.conn = c /\ t.id = 0 => t = u
    <3> TAKE t \in senders
    <3> HAVE t.conn = c /\ t.id = 0
    <3>1. t.pc = "found"
      BY <1>k
    <3> QED BY <3>1, <1>0 DEF SenderType
  <2> HIDE DEF u
  <2>5. SendersLate'
    BY <2>1, <2>2, <2>3, <1>k DEF SendersLate
  <2>6. SendersApart'
    BY <2>1, <2>2, <2>4 DEF SendersApart
  <2> QED BY <2>5, <2>6
<1>2. ASSUME NEW t \in senders, Allocate(t) PROVE SendersLate' /\ SendersApart'
  <2> DEFINE c == t.conn
             i == conn[c].lastSc - 1
             u == [conn |-> c, id |-> i, pc |-> "allocated"]
  <2>1. senders' = (senders \ {t}) \cup {u} /\ conn'[c].lastSc = i
    BY <1>2, MoreConnSteps DEF Allocate, Effect
  <2>2. u.conn = c /\ u.id = i /\ u.pc = "allocated"
    OBVIOUS
  <2>3. i \in Int /\ i # 0 /\ i < conn[c].lastSc /\ c \in Conns
    BY <1>0
  <2>4. \A v \in senders : v.conn = c => v.id # i
    BY <2>3, <1>0 DEF SendersLate
  <2>5. conn'[c].pc \in Departed /\ conn'[c].row # NoRow
    BY <1>d
  <2> HIDE DEF u, i, c
  <2>6. SendersLate'
    <3> SUFFICES ASSUME NEW v \in senders'
                 PROVE  /\ conn'[v.conn].pc \in Departed /\ conn'[v.conn].row # NoRow
                        /\ v.pc = "found" <=> v.id = 0
                        /\ v.id # 0 => conn'[v.conn].lastSc <= v.id
      BY DEF SendersLate
    <3>1. CASE v \in senders
      BY <3>1, <1>k
    <3>2. CASE v = u
      BY <3>2, <2>1, <2>2, <2>3, <2>5
    <3> QED BY <3>1, <3>2, <2>1
  <2>7. SendersApart'
    BY <2>1, <2>2, <2>4 DEF SendersApart
  <2> QED BY <2>6, <2>7
<1>3. ASSUME NEW t \in senders, WriteCounter(t) PROVE SendersLate' /\ SendersApart'
  <2>1. t.pc # "found" /\ (senders' = Moved(t, "counted") \/ senders' \subseteq senders)
    BY <1>3 DEF WriteCounter
  <2> QED BY <2>1, <1>s, <1>m
<1>4. ASSUME NEW t \in senders, Record(t) PROVE SendersLate' /\ SendersApart'
  <2>1. t.pc # "found" /\ (senders' = Moved(t, "recorded") \/ senders' \subseteq senders)
    BY <1>4 DEF Record
  <2> QED BY <2>1, <1>s, <1>m
<1>5. ASSUME NEW t \in senders, Send(t) PROVE SendersLate' /\ SendersApart'
  BY <1>5, <1>s DEF Send
<1>6. ASSUME Crash PROVE SendersLate' /\ SendersApart'
  BY <1>6, <1>s DEF Crash
<1> QED BY <1>s, <1>1, <1>2, <1>3, <1>4, <1>5, <1>6 DEF Frames

-----------------------------------------------------------------------------
(* Issued operations: what the journal, the offers and the open frames     *)
(* come from.                                                              *)

\* An operation on record, as the history of the row names it.
Issue(r, e) == [row |-> r, id |-> e.id, by |-> e.by]

\* Every recorded operation belongs to the session of the connection that began it.
IssuedBy == \A x \in issued : conn[x.by].pc \in Departed /\ conn[x.by].row = x.row /\ conn[x.by].lastSc <= x.id
OpenIssued == open \subseteq issued
JournalIssued == \A r \in Rows : \A e \in journal[r] : Issue(r, e) \in issued
RecordedIssued ==
  \A t \in senders : t.pc = "recorded" => [row |-> conn[t.conn].row, id |-> t.id, by |-> t.conn] \in issued

\* What is offered was issued by an earlier connection and can be rebuilt.
OfferIssued ==
  \A c \in Conns : \A e \in conn[c].offer : Issue(conn[c].prev, e) \in issued \ unreadable /\ e.by # c

\* What cannot be rebuilt was recorded by an earlier process.
UnreadableOld == \A x \in unreadable : x \in issued /\ conn[x.by].pc = "gone" /\ \A t \in senders : t.conn # x.by

IssueInv ==
  IssuedBy /\ OpenIssued /\ JournalIssued /\ RecordedIssued /\ OfferIssued /\ UnreadableOld

\* An offer is made once, from the journal; it is kept with the session it is of, or dropped.
OffersStay ==
  \A d \in Conns :
    \/ conn'[d].offer = {}
    \/ conn'[d].offer = conn[d].offer /\ conn'[d].prev = conn[d].prev
    \/ /\ OfferResume(d) /\ conn[d].pc = "loading"
       /\ conn'[d].prev = conn[d].prev /\ conn'[d].offer = journal[conn[d].prev] \ Lost(conn[d].prev)

\* Every step keeps or drops the offers, or makes one.
LEMMA OfferStep ==
  ASSUME TypeOK, Resuming, PastHandshake, SendersLate, LiveHolds, Next
  PROVE  OffersStay
<1>0. live \subseteq Conns /\ \A t \in senders : t.conn \in Conns
  BY DEF TypeOK, SenderType
<1>l. \A c \in Conns : /\ conn[c].pc \in {"loading", "retiring", "claiming"} => conn[c].prev \in Rows
                       /\ conn[c].resumed => conn[c].prev \in Rows
  BY Zenon DEF Resuming, ResumingAt
<1>o. \A c \in Conns : conn[c].pc \in {"connecting", "retiring"} => conn[c].offer = {}
  BY Zenon DEF Resuming, ResumingAt
<1>s. conn' = conn => OffersStay
  BY DEF OffersStay
<1>k. ASSUME NEW c \in Conns, \A d \in Conns : d # c => conn'[d] = conn[d],
             conn'[c].offer = {} \/ (conn'[c].offer = conn[c].offer /\ conn'[c].prev = conn[c].prev)
      PROVE  OffersStay
  BY <1>k DEF OffersStay
<1>1. ASSUME NEW c \in Conns, Accept(c) PROVE OffersStay
  <2>1. /\ \A d \in Conns : d # c => conn'[d] = conn[d]
        /\ conn'[c].offer = {} \/ (conn'[c].offer = conn[c].offer /\ conn'[c].prev = conn[c].prev)
    BY <1>1, <1>l, ConnSteps, Zenon DEF Moves, Closes, Effect
  <2> QED BY <2>1, <1>k
<1>2. ASSUME NEW c \in Conns, RejectConnect(c) PROVE OffersStay
  <2>1. /\ \A d \in Conns : d # c => conn'[d] = conn[d]
        /\ conn'[c].offer = {} \/ (conn'[c].offer = conn[c].offer /\ conn'[c].prev = conn[c].prev)
    BY <1>2, <1>l, ConnSteps, Zenon DEF Moves, Closes, Effect
  <2> QED BY <2>1, <1>k
<1>3. ASSUME NEW c \in Conns, Connect(c) PROVE OffersStay
  <2>1. /\ \A d \in Conns : d # c => conn'[d] = conn[d]
        /\ conn'[c].offer = {} \/ (conn'[c].offer = conn[c].offer /\ conn'[c].prev = conn[c].prev)
    BY <1>3, <1>l, <1>o, ConnSteps, Zenon DEF Connect, Moves, Closes, Effect
  <2> QED BY <2>1, <1>k
<1>4. ASSUME NEW c \in Conns, RetireInconsistent(c) PROVE OffersStay
  <2>1. /\ \A d \in Conns : d # c => conn'[d] = conn[d]
        /\ conn'[c].offer = {} \/ (conn'[c].offer = conn[c].offer /\ conn'[c].prev = conn[c].prev)
    BY <1>4, <1>l, <1>o, ConnSteps, Zenon DEF RetireInconsistent, Moves, Closes, Effect
  <2> QED BY <2>1, <1>k
<1>5. ASSUME NEW c \in Conns, OfferResume(c) PROVE OffersStay
  <2>1. conn[c].pc = "loading"
    BY <1>5 DEF OfferResume
  <2>2. /\ \A d \in Conns : d # c => conn'[d] = conn[d]
        /\ conn'[c].prev = conn[c].prev
        /\ conn'[c].offer = conn[c].offer \/ conn'[c].offer = journal[conn[c].prev] \ Lost(conn[c].prev)
    BY <1>5, <2>1, <1>l, ConnSteps, Zenon DEF Moves, Effect
  <2> QED BY <1>5, <2>1, <2>2 DEF OffersStay
<1>6. ASSUME NEW c \in Conns, RefuseConnect(c) PROVE OffersStay
  <2>1. /\ \A d \in Conns : d # c => conn'[d] = conn[d]
        /\ conn'[c].offer = {} \/ (conn'[c].offer = conn[c].offer /\ conn'[c].prev = conn[c].prev)
    BY <1>6, <1>l, ConnSteps, Zenon DEF Moves, Closes, Effect
  <2> QED BY <2>1, <1>k
<1>7. ASSUME NEW c \in Conns, ConnectComplete(c) PROVE OffersStay
  <2>1. /\ \A d \in Conns : d # c => conn'[d] = conn[d]
        /\ conn'[c].offer = {} \/ (conn'[c].offer = conn[c].offer /\ conn'[c].prev = conn[c].prev)
    BY <1>7, <1>l, ConnSteps, Zenon DEF Moves, Closes, Effect
  <2> QED BY <2>1, <1>k
<1>8. ASSUME NEW c \in Conns, ClaimRow(c) PROVE OffersStay
  <2>1. /\ \A d \in Conns : d # c => conn'[d] = conn[d]
        /\ conn'[c].offer = {} \/ (conn'[c].offer = conn[c].offer /\ conn'[c].prev = conn[c].prev)
    BY <1>8, <1>l, RowSteps DEF Moves, Closes, Effect
  <2> QED BY <2>1, <1>k
<1>9. ASSUME NEW c \in Conns, DiscardActive(c) PROVE OffersStay
  <2>1. /\ \A d \in Conns : d # c => conn'[d] = conn[d]
        /\ conn'[c].offer = {} \/ (conn'[c].offer = conn[c].offer /\ conn'[c].prev = conn[c].prev)
    BY <1>9, <1>l, ConnSteps, Zenon DEF Moves, Closes, Effect
  <2> QED BY <2>1, <1>k
<1>10. ASSUME NEW c \in Conns, DiscardResumable(c) PROVE OffersStay
  <2>1. /\ \A d \in Conns : d # c => conn'[d] = conn[d]
        /\ conn'[c].offer = {} \/ (conn'[c].offer = conn[c].offer /\ conn'[c].prev = conn[c].prev)
    BY <1>10, <1>l, ConnSteps, Zenon DEF Moves, Closes, Effect
  <2> QED BY <2>1, <1>k
<1>11. ASSUME NEW c \in Conns, CreateRow(c) PROVE OffersStay
  <2>1. /\ \A d \in Conns : d # c => conn'[d] = conn[d]
        /\ conn'[c].offer = {} \/ (conn'[c].offer = conn[c].offer /\ conn'[c].prev = conn[c].prev)
    BY <1>11, <1>l, RowSteps DEF Moves, Closes, Effect
  <2> QED BY <2>1, <1>k
<1>12. ASSUME NEW c \in Conns, Register(c) PROVE OffersStay
  <2>1. /\ \A d \in Conns : d # c => conn'[d] = conn[d]
        /\ conn'[c].offer = {} \/ (conn'[c].offer = conn[c].offer /\ conn'[c].prev = conn[c].prev)
    BY <1>12, <1>l, ConnSteps, Zenon DEF Moves, Closes, Effect
  <2> QED BY <2>1, <1>k
<1>13. ASSUME NEW c \in Conns, Publish(c) PROVE OffersStay
  BY <1>13, MoreConnSteps DEF OffersStay
<1>14. ASSUME NEW c \in Conns, CompleteHandshake(c) PROVE OffersStay
  <2>1. /\ \A d \in Conns : d # c => conn'[d] = conn[d]
        /\ conn'[c].offer = {} \/ (conn'[c].offer = conn[c].offer /\ conn'[c].prev = conn[c].prev)
    BY <1>14, <1>l, ConnSteps, Zenon DEF Moves, Closes, Effect
  <2> QED BY <2>1, <1>k
<1>15. ASSUME NEW c \in Conns, Lookup(c) PROVE OffersStay
  BY <1>15, <1>s DEF Lookup
<1>16. ASSUME NEW c \in Conns, Answer(c) PROVE OffersStay
  BY <1>16, <1>s DEF Answer
<1>17. ASSUME NEW c \in Conns, Break(c) PROVE OffersStay
  <2>1. /\ \A d \in Conns : d # c => conn'[d] = conn[d]
        /\ conn'[c].offer = {} \/ (conn'[c].offer = conn[c].offer /\ conn'[c].prev = conn[c].prev)
    BY <1>17, <1>l, ConnSteps, Zenon DEF Moves, Closes, Effect
  <2> QED BY <2>1, <1>k
<1>18. ASSUME NEW c \in Conns, EndReading(c) PROVE OffersStay
  <2>1. /\ \A d \in Conns : d # c => conn'[d] = conn[d]
        /\ conn'[c].offer = {} \/ (conn'[c].offer = conn[c].offer /\ conn'[c].prev = conn[c].prev)
    BY <1>18, <1>l, ConnSteps, Zenon DEF Moves, Closes, Effect
  <2> QED BY <2>1, <1>k
<1>19. ASSUME NEW c \in Conns, Unpublish(c) PROVE OffersStay
  <2>1. /\ \A d \in Conns : d # c => conn'[d] = conn[d]
        /\ conn'[c].offer = {} \/ (conn'[c].offer = conn[c].offer /\ conn'[c].prev = conn[c].prev)
    BY <1>19, <1>l, ConnSteps, Zenon DEF Moves, Closes, Effect
  <2> QED BY <2>1, <1>k
<1>20. ASSUME NEW c \in Conns, WriteFinalCounters(c) PROVE OffersStay
  <2>1. /\ \A d \in Conns : d # c => conn'[d] = conn[d]
        /\ conn'[c].offer = {} \/ (conn'[c].offer = conn[c].offer /\ conn'[c].prev = conn[c].prev)
    BY <1>20, <1>l, ConnSteps, Zenon DEF Moves, Closes, Effect
  <2> QED BY <2>1, <1>k
<1>21. ASSUME NEW c \in Conns, HandBack(c) PROVE OffersStay
  <2>1. /\ \A d \in Conns : d # c => conn'[d] = conn[d]
        /\ conn'[c].offer = {} \/ (conn'[c].offer = conn[c].offer /\ conn'[c].prev = conn[c].prev)
    BY <1>21, <1>l, ConnSteps, Zenon DEF Moves, Closes, Effect
  <2> QED BY <2>1, <1>k
<1>22. ASSUME NEW c \in Conns, Evict(c) PROVE OffersStay
  <2>1. /\ \A d \in Conns : d # c => conn'[d] = conn[d]
        /\ conn'[c].offer = {} \/ (conn'[c].offer = conn[c].offer /\ conn'[c].prev = conn[c].prev)
    BY <1>22, <1>l, MoreConnSteps DEF Moves, Closes, Effect
  <2> QED BY <2>1, <1>k
<1>23. ASSUME NEW t \in senders, Allocate(t) PROVE OffersStay
  <2>1. \/ conn' = conn
        \/ /\ t.conn \in Conns /\ \A d \in Conns : d # t.conn => conn'[d] = conn[d]
           /\ conn'[t.conn].offer = conn[t.conn].offer /\ conn'[t.conn].prev = conn[t.conn].prev
    BY <1>23, <1>0, MoreConnSteps DEF Closes, Effect
  <2> QED BY <2>1, <1>s, <1>k
<1>24. ASSUME NEW t \in senders, WriteCounter(t) PROVE OffersStay
  BY <1>24, <1>s DEF WriteCounter
<1>25. ASSUME NEW t \in senders, Record(t) PROVE OffersStay
  BY <1>25, <1>s DEF Record
<1>26. ASSUME NEW t \in senders, Send(t) PROVE OffersStay
  <2>1. \/ conn' = conn
        \/ /\ t.conn \in Conns /\ \A d \in Conns : d # t.conn => conn'[d] = conn[d]
           /\ conn'[t.conn].offer = conn[t.conn].offer /\ conn'[t.conn].prev = conn[t.conn].prev
    BY <1>26, <1>0, MoreConnSteps DEF Closes, Effect
  <2> QED BY <2>1, <1>s, <1>k
<1>27. ASSUME CloseSessionByEUI PROVE OffersStay
  <2>1. PICK c \in live : conn' = [conn EXCEPT ![c].sock = FALSE]
    BY <1>27 DEF CloseSessionByEUI
  <2> QED BY <2>1, <1>0, <1>k, MoreConnSteps DEF Closes, Effect
<1>28. ASSUME Crash PROVE OffersStay
  BY <1>28, MoreConnSteps DEF OffersStay
<1>29. ASSUME Start PROVE OffersStay
  BY <1>29, <1>s DEF Start
<1> QED BY <1>1, <1>2, <1>3, <1>4, <1>5, <1>6, <1>7, <1>8, <1>9, <1>10, <1>11, <1>12, <1>13, <1>14,
           <1>15, <1>16, <1>17, <1>18, <1>19, <1>20, <1>21, <1>22, <1>23, <1>24, <1>25, <1>26,
           <1>27, <1>28, <1>29
        DEF Next, Activate, Teardown, Sending

\* What a step may do to the journal.
JournalShrinks == \A r \in Rows : journal'[r] \subseteq journal[r]

\* Only a new record makes the journal grow.
LEMMA JournalStep ==
  ASSUME TypeOK, Resuming, Frames
  PROVE  JournalShrinks \/ \E t \in senders : Record(t)
<1>0. journal \in [Rows -> SUBSET Ops]
  BY DEF TypeOK
<1>d. \A R : journal' = Discarded(R) => JournalShrinks
  BY <1>0 DEF JournalShrinks, Discarded
<1>w. \A r, i : journal' = Without(r, i) => JournalShrinks
  BY <1>0 DEF JournalShrinks, Without
<1>u. journal' = journal => JournalShrinks
  BY DEF JournalShrinks
<1>1. ASSUME NEW c \in Conns, RetireInconsistent(c) PROVE JournalShrinks
  BY <1>1, <1>d, <1>u DEF RetireInconsistent, dbVars
<1>2. ASSUME NEW c \in Conns, OfferResume(c) PROVE JournalShrinks
  BY <1>0, <1>2, <1>u DEF OfferResume, JournalShrinks
<1>3. ASSUME NEW c \in Conns, RefuseConnect(c) PROVE JournalShrinks
  BY <1>3, <1>d, <1>u DEF RefuseConnect, dbVars
<1>4. ASSUME NEW c \in Conns, DiscardActive(c) PROVE JournalShrinks
  BY <1>4, <1>d, <1>u, Zenon DEF DiscardActive, dbVars
<1>5. ASSUME NEW c \in Conns, DiscardResumable(c) PROVE JournalShrinks
  BY <1>5, <1>d, <1>u, Zenon DEF DiscardResumable, dbVars
<1>6. ASSUME NEW c \in Conns, Answer(c) PROVE JournalShrinks
  BY <1>6, <1>w, <1>u DEF Answer
<1>7. ASSUME NEW t \in senders, Send(t) PROVE JournalShrinks
  BY <1>7, <1>w, <1>u DEF Send
<1> QED BY <1>u, <1>1, <1>2, <1>3, <1>4, <1>5, <1>6, <1>7 DEF Frames

\* Every step keeps the journal, the offers and the frames within what was issued.
LEMMA IssueStep ==
  ASSUME TypeOK, TypeOK', OwnInv, Resuming, SendersLate, IssueInv, DepartedStays, Frames, OffersStay
  PROVE  IssueInv'
<1>i. IssuedBy /\ OpenIssued /\ JournalIssued /\ RecordedIssued /\ OfferIssued /\ UnreadableOld
  BY DEF IssueInv
<1>0. /\ \A t \in senders : t.conn \in Conns /\ t.id \in Int /\ t \in SenderType
      /\ \A c \in Conns : conn[c].lastSc \in Int /\ conn'[c].lastSc \in Int
      /\ \A x \in issued : x.by \in Conns /\ x.id \in Int /\ x \in IssueType
      /\ unreadable \subseteq issued
      /\ journal \in [Rows -> SUBSET Ops]
      /\ \A c \in Conns : conn[c].offer \in SUBSET Ops /\ conn[c].row \in Rows \cup {NoRow}
  BY <1>i DEF TypeOK, SenderType, ConnType, ScIds, IssueType, UnreadableOld
<1>g. issued \subseteq issued'
  BY DEF Frames, Record
<1>n. ASSUME NEW x \in issued', x \notin issued
      PROVE  \E t \in senders : Record(t) /\ x = [row |-> conn[t.conn].row, id |-> t.id, by |-> t.conn]
  BY <1>n DEF Frames, Record
<1>1. IssuedBy'
  <2> SUFFICES ASSUME NEW x \in issued'
               PROVE  conn'[x.by].pc \in Departed /\ conn'[x.by].row = x.row /\ conn'[x.by].lastSc <= x.id
    BY DEF IssuedBy
  <2>1. CASE x \in issued
    <3>1. x.by \in Conns /\ x.id \in Int /\ conn[x.by].pc \in Departed /\ conn[x.by].row = x.row /\ conn[x.by].lastSc <= x.id
      BY <2>1, <1>0, <1>i DEF IssuedBy
    <3>2. conn'[x.by].lastSc \in Int /\ conn[x.by].lastSc \in Int
      BY <3>1, <1>0
    <3> QED BY <3>1, <3>2 DEF DepartedStays
  <2>2. CASE x \notin issued
    <3>1. PICK t \in senders : Record(t) /\ x = [row |-> conn[t.conn].row, id |-> t.id, by |-> t.conn]
      BY <2>2, <1>n
    <3>2. conn' = conn /\ t.pc = "counted"
      BY <3>1 DEF Record
    <3>3. conn[t.conn].pc \in Departed /\ conn[t.conn].lastSc <= t.id
      BY <3>2 DEF SendersLate
    <3> QED BY <3>1, <3>2, <3>3
  <2> QED BY <2>1, <2>2
<1>2. OpenIssued'
  <2>1. ASSUME NEW c \in Conns, OfferResume(c) PROVE open' \subseteq issued
    BY <2>1, <1>i DEF OfferResume, OpenIssued
  <2>2. ASSUME NEW c \in Conns, CompleteHandshake(c) PROVE open' \subseteq issued
    <3>1. conn[c].pc = "completing"
          /\ open' \subseteq open \cup {[row |-> conn[c].row, id |-> e.id, by |-> e.by] : e \in conn[c].offer}
      BY <2>2 DEF CompleteHandshake
    <3>2. conn[c].row # NoRow
      BY <3>1, Zenon DEF OwnInv, PastHandshake
    <3>3. \A e \in conn[c].offer : conn[c].prev = conn[c].row
      BY <3>2, Zenon DEF Resuming, ResumingAt
    <3>4. \A e \in conn[c].offer : [row |-> conn[c].row, id |-> e.id, by |-> e.by] \in issued
      BY <3>3, <1>i DEF OfferIssued, Issue
    <3> QED BY <3>1, <3>4, <1>i DEF OpenIssued
  <2>3. ASSUME NEW c \in Conns, Answer(c) PROVE open' \subseteq issued
    BY <2>3, <1>i DEF Answer, OpenIssued
  <2>4. ASSUME NEW t \in senders, Send(t) PROVE open' \subseteq issued
    BY <2>4, <1>i DEF Send, OpenIssued, RecordedIssued
  <2>5. open' \subseteq issued
    BY <2>1, <2>2, <2>3, <2>4, <1>i DEF Frames, OpenIssued
  <2> QED BY <2>5, <1>g DEF OpenIssued
<1>3. JournalIssued'
  <2>1. CASE JournalShrinks
    BY <2>1, <1>g, <1>i DEF JournalIssued, JournalShrinks
  <2>2. ASSUME NEW t \in senders, Record(t) PROVE JournalIssued'
    <3> DEFINE r == conn[t.conn].row
               e == [id |-> t.id, by |-> t.conn]
    <3>1. CASE journal' = journal
      BY <3>1, <1>g, <1>i DEF JournalIssued
    <3>2. CASE journal' # journal
      <4>1. journal' = [journal EXCEPT ![r] = {x \in @ : x.id # e.id} \cup {e}]
        BY <2>2, <3>2 DEF Record, Recorded, Upsert
      <4>2. [row |-> r, id |-> t.id, by |-> t.conn] \in issued'
        BY <2>2, <3>2 DEF Record
      <4>3. Issue(r, e) \in issued'
        BY <4>2 DEF Issue
      <4>4. \A q \in Rows : \A x \in journal'[q] : x \in journal[q] \/ (q = r /\ x = e)
        <5> HIDE DEF r, e
        <5> QED BY <4>1, <1>0
      <4> HIDE DEF r, e
      <4> QED BY <4>3, <4>4, <1>g, <1>i DEF JournalIssued
    <3> QED BY <3>1, <3>2
  <2> QED BY <2>1, <2>2, JournalStep
<1>4. RecordedIssued'
  <2>d. \A t \in senders : conn'[t.conn].row = conn[t.conn].row
    BY <1>0 DEF SendersLate, DepartedStays
  <2>s. ASSUME senders' \subseteq senders PROVE RecordedIssued'
    BY <2>s, <2>d, <1>g, <1>i DEF RecordedIssued
  <2>1. ASSUME NEW c \in Conns, Lookup(c) PROVE RecordedIssued'
    <3>1. \A t \in senders' : t.pc = "recorded" => t \in senders
      BY <2>1 DEF Lookup
    <3> QED BY <3>1, <2>d, <1>g, <1>i DEF RecordedIssued
  <2>2. ASSUME NEW t \in senders, Allocate(t) PROVE RecordedIssued'
    <3>1. \A u \in senders' : u.pc = "recorded" => u \in senders
      BY <2>2 DEF Allocate
    <3> QED BY <3>1, <2>d, <1>g, <1>i DEF RecordedIssued
  <2>3. ASSUME NEW t \in senders, WriteCounter(t) PROVE RecordedIssued'
    <3>1. \A u \in senders' : u.pc = "recorded" => u \in senders
      BY <2>3, <1>0 DEF WriteCounter, Moved, SenderType
    <3> QED BY <3>1, <2>d, <1>g, <1>i DEF RecordedIssued
  <2>4. ASSUME NEW t \in senders, Record(t) PROVE RecordedIssued'
    <3>1. CASE senders' \subseteq senders
      BY <3>1, <2>s
    <3>2. CASE ~(senders' \subseteq senders)
      <4>1. senders' = Moved(t, "recorded") /\ [row |-> conn[t.conn].row, id |-> t.id, by |-> t.conn] \in issued' /\ conn' = conn
        BY <2>4, <3>2 DEF Record
      <4> DEFINE u == [t EXCEPT !.pc = "recorded"]
      <4>2. u.conn = t.conn /\ u.id = t.id /\ senders' = (senders \ {t}) \cup {u}
        BY <4>1, <1>0 DEF SenderType, Moved
      <4> HIDE DEF u
      <4> QED BY <4>1, <4>2, <1>g, <1>i DEF RecordedIssued
    <3> QED BY <3>1, <3>2
  <2>5. ASSUME NEW t \in senders, Send(t) PROVE RecordedIssued'
    BY <2>5, <2>s DEF Send
  <2>6. ASSUME Crash PROVE RecordedIssued'
    BY <2>6, <2>s DEF Crash
  <2> QED BY <2>s, <2>1, <2>2, <2>3, <2>4, <2>5, <2>6 DEF Frames
<1>5. ASSUME NEW c \in Conns, NEW e \in conn'[c].offer
      PROVE  Issue(conn'[c].prev, e) \in issued' \ unreadable' /\ e.by # c
  <2>1. CASE conn'[c].offer = conn[c].offer /\ conn'[c].prev = conn[c].prev
    <3>1. Issue(conn[c].prev, e) \in issued \ unreadable /\ e.by # c /\ conn[c].resumed
      BY <2>1, <1>5, <1>i, Zenon DEF OfferIssued, Resuming, ResumingAt
    <3>2. ~Start
      <4>1. conn[c].pc \notin {"idle", "gone"}
        BY <3>1, Zenon DEF Resuming, ResumingAt
      <4> QED BY <4>1 DEF Start, OwnInv, Quiescent
    <3> QED BY <2>1, <3>1, <3>2, <1>g DEF Frames
  <2>2. CASE OfferResume(c) /\ conn[c].pc = "loading" /\ conn'[c].prev = conn[c].prev
             /\ conn'[c].offer = journal[conn[c].prev] \ Lost(conn[c].prev)
    <3>1. e \in journal[conn[c].prev] /\ e \notin Lost(conn[c].prev) /\ conn[c].prev \in Rows
      BY <2>2, <1>5, Zenon DEF Resuming, ResumingAt
    <3>2. Issue(conn[c].prev, e) \in issued /\ Issue(conn[c].prev, e) \notin unreadable
      BY <3>1, <1>i DEF JournalIssued, Lost, Issue
    <3>3. Issue(conn[c].prev, e).by = e.by
      BY DEF Issue
    <3>4. conn[e.by].pc \in Departed
      BY <3>2, <3>3, <1>i DEF IssuedBy
    <3>5. e.by # c
      BY <2>2, <3>4, Zenon DEF Departed
    <3>6. unreadable' = unreadable
      BY <2>2 DEF OfferResume
    <3> QED BY <2>2, <3>2, <3>5, <3>6, <1>g
  <2> QED BY <1>5, <2>1, <2>2 DEF OffersStay
<1>6. OfferIssued'
  BY <1>5 DEF OfferIssued
<1>7. UnreadableOld'
  <2>1. CASE Start
    <3>1. unreadable' \subseteq Pending /\ conn' = conn /\ senders' = senders /\ ~up
      BY <2>1 DEF Start
    <3>2. senders = {} /\ \A c \in Conns : conn[c].pc \in {"idle", "gone"}
      BY <3>1 DEF OwnInv, Quiescent
    <3>3. Pending \subseteq issued
      BY <1>i DEF Pending, JournalIssued, Issue
    <3>4. \A x \in issued : conn[x.by].pc \in Departed /\ x.by \in Conns
      BY <1>0, <1>i DEF IssuedBy
    <3>5. \A x \in issued : conn[x.by].pc = "gone"
      BY <3>2, <3>4, Zenon DEF Departed
    <3> QED BY <3>1, <3>2, <3>3, <3>5, <1>g DEF UnreadableOld
  <2>2. CASE unreadable' = unreadable
    <3> SUFFICES ASSUME NEW x \in unreadable
                 PROVE  x \in issued' /\ conn'[x.by].pc = "gone" /\ \A t \in senders' : t.conn # x.by
      BY <2>2 DEF UnreadableOld
    <3>1. x \in issued /\ x.by \in Conns /\ conn[x.by].pc = "gone" /\ \A t \in senders : t.conn # x.by
      BY <1>0, <1>i DEF UnreadableOld
    <3>2. conn'[x.by].pc = "gone"
      BY <3>1, Zenon DEF DepartedStays, Departed
    <3>3. \A t \in senders' : t.conn # x.by
      <4>s. CASE senders' \subseteq senders
        BY <4>s, <3>1
      <4>1. ASSUME NEW c \in Conns, Lookup(c) PROVE \A t \in senders' : t.conn # x.by
        BY <4>1, <3>1 DEF Lookup
      <4>m. ASSUME NEW t \in senders, NEW p, senders' = Moved(t, p) PROVE \A u \in senders' : u.conn # x.by
        BY <4>m, <3>1, <1>0 DEF Moved, SenderType
      <4>2. ASSUME NEW t \in senders, Allocate(t) PROVE \A u \in senders' : u.conn # x.by
        BY <4>2, <3>1 DEF Allocate
      <4>3. ASSUME NEW t \in senders, WriteCounter(t) \/ Record(t) PROVE \A u \in senders' : u.conn # x.by
        BY <4>3, <4>s, <4>m DEF WriteCounter, Record
      <4>4. ASSUME NEW t \in senders, Send(t) PROVE senders' \subseteq senders
        BY <4>4 DEF Send
      <4>5. ASSUME Crash PROVE senders' \subseteq senders
        BY <4>5 DEF Crash
      <4> QED BY <4>s, <4>1, <4>2, <4>3, <4>4, <4>5 DEF Frames
    <3> QED BY <3>1, <3>2, <3>3, <1>g
  <2> QED BY <2>1, <2>2 DEF Frames
<1> QED BY <1>1, <1>2, <1>3, <1>4, <1>6, <1>7 DEF IssueInv

-----------------------------------------------------------------------------
(* Counters: why an id is used once.                                       *)

\* What a step may do to a row: a terminated row stays so; the counter
\* descends, is written by a claim, or the row is new; a connection comes to
\* hold the row only by claiming or creating it.
RowsMove ==
  \A r \in Rows :
    /\ rows[r].status = "terminated" => rows'[r].status = "terminated"
    /\ \/ rows'[r].scOp <= rows[r].scOp
       \/ rows[r].status = "absent"
       \/ \E c \in Conns : /\ conn[c].pc = "claiming" /\ conn[c].prev = r
                            /\ rows'[r].scOp = conn[c].lastSc /\ rows'[r].conn = c
    /\ \A c \in Conns : rows'[r].status = "active" /\ rows'[r].conn = c =>
         \/ HeldBy(r, c)
         \/ conn[c].pc = "creating" /\ rows[r].status = "absent"
         \/ conn[c].pc = "claiming" /\ conn[c].prev = r /\ conn'[c].lastSc = conn[c].lastSc

\* Every step moves the rows so.
LEMMA RowsMoveStep ==
  ASSUME TypeOK, Resuming, PastHandshake, SendersLate, LiveHolds, Next
  PROVE  RowsMove
<1>0. /\ \A r \in Rows : rows[r].scOp \in Int
      /\ live \subseteq Conns /\ \A t \in senders : t.conn \in Conns
      /\ \A c \in Conns : conn[c].lastSc \in Int /\ conn[c].row \in Rows \cup {NoRow}
  BY DEF TypeOK, RowType, SenderType, ConnType, ScIds
<1>l. \A c \in Conns : conn[c].pc \in {"loading", "retiring", "claiming"} => conn[c].prev \in Rows
  BY Zenon DEF Resuming, ResumingAt
<1>s. rows' = rows => RowsMove
  BY <1>0 DEF RowsMove, HeldBy
<1>m. ASSUME NEW R, NEW s, Marked(R, s), s = "terminated" \/ (s = "disconnected" /\ R = Active) PROVE RowsMove
  BY <1>m, <1>0 DEF RowsMove, HeldBy, Marked, Active
<1>w. ASSUME NEW r, NEW l \in Int, RowEffect(r, rows[r].status, rows[r].conn, Lower(rows[r].scOp, l)) PROVE RowsMove
  BY <1>w, <1>0 DEF RowsMove, HeldBy, RowEffect, Lower
<1>1. ASSUME NEW c \in Conns, Accept(c) PROVE RowsMove
  BY <1>1, <1>s DEF Accept, dbVars
<1>2. ASSUME NEW c \in Conns, RejectConnect(c) PROVE RowsMove
  BY <1>2, <1>s DEF RejectConnect, dbVars
<1>3. ASSUME NEW c \in Conns, Connect(c) PROVE RowsMove
  BY <1>3, <1>s DEF Connect, dbVars
<1>4. ASSUME NEW c \in Conns, RetireInconsistent(c) PROVE RowsMove
  BY <1>4, <1>s, <1>m, RowSteps
<1>5. ASSUME NEW c \in Conns, OfferResume(c) PROVE RowsMove
  BY <1>5, <1>s DEF OfferResume, dbVars
<1>6. ASSUME NEW c \in Conns, RefuseConnect(c) PROVE RowsMove
  BY <1>6, <1>s, <1>m, RowSteps
<1>7. ASSUME NEW c \in Conns, ConnectComplete(c) PROVE RowsMove
  BY <1>7, <1>s DEF ConnectComplete, dbVars
<1>8. ASSUME NEW c \in Conns, ClaimRow(c) PROVE RowsMove
  <2>1. CASE rows' # rows
    <3>1. /\ conn[c].pc = "claiming" /\ rows[conn[c].prev].status = "disconnected"
          /\ \A q \in Rows : q # conn[c].prev => rows'[q] = rows[q]
          /\ rows'[conn[c].prev].status = "active" /\ rows'[conn[c].prev].conn = c
          /\ rows'[conn[c].prev].scOp = conn[c].lastSc /\ conn'[c].lastSc = conn[c].lastSc
      BY <1>8, <2>1, RowSteps, Zenon DEF RowEffect, Effect, ClaimRow
    <3> QED BY <3>1, <1>0, <1>l DEF RowsMove, HeldBy
  <2> QED BY <2>1, <1>s
<1>9. ASSUME NEW c \in Conns, DiscardActive(c) PROVE RowsMove
  BY <1>9, <1>s, <1>m, RowSteps
<1>10. ASSUME NEW c \in Conns, DiscardResumable(c) PROVE RowsMove
  BY <1>10, <1>s, <1>m, RowSteps
<1>11. ASSUME NEW c \in Conns, CreateRow(c) PROVE RowsMove
  <2>1. CASE rows' # rows
    <3>1. PICK r \in Rows : /\ conn[c].pc = "creating" /\ rows[r].status = "absent"
                            /\ \A q \in Rows : q # r => rows'[q] = rows[q]
                            /\ rows'[r].status = "active" /\ rows'[r].conn = c
      <4>1. conn[c].pc = "creating"
        BY <1>11, Zenon DEF CreateRow
      <4>2. \E r \in Rows : rows[r].status = "absent" /\ RowEffect(r, "active", c, 0)
        BY <1>11, <2>1, RowSteps
      <4> QED BY <4>1, <4>2 DEF RowEffect
    <3> QED BY <3>1, <1>0 DEF RowsMove, HeldBy
  <2> QED BY <2>1, <1>s
<1>12. ASSUME NEW c \in Conns, Register(c) PROVE RowsMove
  BY <1>12, <1>s DEF Register, dbVars
<1>13. ASSUME NEW c \in Conns, Publish(c) PROVE RowsMove
  BY <1>13, <1>s DEF Publish, dbVars
<1>14. ASSUME NEW c \in Conns, CompleteHandshake(c) PROVE RowsMove
  BY <1>14, <1>s DEF CompleteHandshake, dbVars
<1>15. ASSUME NEW c \in Conns, Lookup(c) PROVE RowsMove
  BY <1>15, <1>s DEF Lookup, dbVars
<1>16. ASSUME NEW c \in Conns, Answer(c) PROVE RowsMove
  BY <1>16, <1>s DEF Answer, dbVars
<1>17. ASSUME NEW c \in Conns, Break(c) PROVE RowsMove
  BY <1>17, <1>s DEF Break, dbVars
<1>18. ASSUME NEW c \in Conns, EndReading(c) PROVE RowsMove
  BY <1>18, <1>s DEF EndReading, dbVars
<1>19. ASSUME NEW c \in Conns, Unpublish(c) PROVE RowsMove
  BY <1>19, <1>s DEF Unpublish, dbVars
<1>20. ASSUME NEW c \in Conns, WriteFinalCounters(c) PROVE RowsMove
  BY <1>20, <1>s, <1>w, <1>0, RowSteps
<1>21. ASSUME NEW c \in Conns, HandBack(c) PROVE RowsMove
  <2>1. CASE rows' # rows
    <3>1. /\ HeldBy(conn[c].row, c)
          /\ \A q \in Rows : q # conn[c].row => rows'[q] = rows[q]
          /\ rows'[conn[c].row].status = "disconnected" /\ rows'[conn[c].row].scOp = rows[conn[c].row].scOp
      BY <1>21, <2>1, RowSteps DEF RowEffect
    <3> QED BY <3>1, <1>0 DEF RowsMove, HeldBy
  <2> QED BY <2>1, <1>s
<1>22. ASSUME NEW c \in Conns, Evict(c) PROVE RowsMove
  BY <1>22, <1>s DEF Evict, dbVars
<1>23. ASSUME NEW t \in senders, Allocate(t) PROVE RowsMove
  BY <1>23, <1>s DEF Allocate, dbVars
<1>24. ASSUME NEW t \in senders, WriteCounter(t) PROVE RowsMove
  BY <1>24, <1>s, <1>w, <1>0, RowSteps
<1>25. ASSUME NEW t \in senders, Record(t) PROVE RowsMove
  BY <1>25, <1>s DEF Record, dbVars
<1>26. ASSUME NEW t \in senders, Send(t) PROVE RowsMove
  BY <1>26, <1>s DEF Send, dbVars
<1>27. ASSUME CloseSessionByEUI PROVE RowsMove
  BY <1>27, <1>s, <1>m, RowSteps DEF CloseSessionByEUI
<1>28. ASSUME Crash PROVE RowsMove
  BY <1>28, <1>s DEF Crash, dbVars
<1>29. ASSUME Start PROVE RowsMove
  BY <1>29, <1>s, <1>m, RowSteps
<1> QED BY <1>1, <1>2, <1>3, <1>4, <1>5, <1>6, <1>7, <1>8, <1>9, <1>10, <1>11, <1>12, <1>13, <1>14,
           <1>15, <1>16, <1>17, <1>18, <1>19, <1>20, <1>21, <1>22, <1>23, <1>24, <1>25, <1>26,
           <1>27, <1>28, <1>29
        DEF Next, Activate, Teardown, Sending

\* What a step may do to a counter: a session that has a row changes it only
\* to allocate, and a claim reads it from the row.
CountersMove ==
  \A c \in Conns :
    /\ conn[c].row # NoRow =>
         conn'[c].lastSc = conn[c].lastSc \/ \E t \in senders : Allocate(t) /\ t.conn = c
    /\ conn'[c].pc = "claiming" =>
         \/ conn[c].pc = "claiming" /\ conn'[c].prev = conn[c].prev /\ conn'[c].lastSc = conn[c].lastSc
         \/ /\ rows' = rows /\ conn[c].prev \in Rows /\ conn'[c].prev = conn[c].prev /\ conn'[c].lastSc = rows[conn[c].prev].scOp

\* Every step moves the counters so.
LEMMA CountersMoveStep ==
  ASSUME TypeOK, Resuming, PastHandshake, RowLater, SendersLate, LiveHolds, Next
  PROVE  CountersMove
<1>0. live \subseteq Conns /\ \A t \in senders : t.conn \in Conns
  BY DEF TypeOK, SenderType
<1>l. \A c \in Conns : /\ conn[c].pc \in {"loading", "retiring", "claiming"} => conn[c].prev \in Rows
                       /\ conn[c].resumed => conn[c].prev \in Rows
  BY Zenon DEF Resuming, ResumingAt
<1>s. conn' = conn => CountersMove
  BY DEF CountersMove
<1>k. ASSUME NEW c \in Conns, \A d \in Conns : d # c => conn'[d] = conn[d],
             conn[c].row # NoRow => conn'[c].lastSc = conn[c].lastSc,
             conn'[c].pc # "claiming" \/ (conn'[c].pc = conn[c].pc /\ conn'[c].prev = conn[c].prev /\ conn'[c].lastSc = conn[c].lastSc)
      PROVE  CountersMove
  <2> SUFFICES ASSUME NEW d \in Conns
               PROVE  /\ conn[d].row # NoRow => conn'[d].lastSc = conn[d].lastSc
                      /\ conn'[d].pc = "claiming" =>
                           conn[d].pc = "claiming" /\ conn'[d].prev = conn[d].prev /\ conn'[d].lastSc = conn[d].lastSc
    BY DEF CountersMove
  <2>1. CASE d = c
    BY <2>1, <1>k
  <2>2. CASE d # c
    BY <2>2, <1>k
  <2> QED BY <2>1, <2>2
<1>c. ASSUME NEW c \in Conns, Closes(c) PROVE CountersMove
  BY <1>c, <1>k DEF Closes, Effect
<1>1. ASSUME NEW c \in Conns, Accept(c) PROVE CountersMove
  <2>1. /\ \A d \in Conns : d # c => conn'[d] = conn[d]
        /\ conn'[c].pc # "claiming" /\ conn'[c].lastSc = conn[c].lastSc
    BY <1>1, <1>l, ConnSteps, Zenon DEF Moves, Effect
  <2> QED BY <2>1, <1>k
<1>2. ASSUME NEW c \in Conns, RejectConnect(c) PROVE CountersMove
  <2>1. /\ \A d \in Conns : d # c => conn'[d] = conn[d]
        /\ conn'[c].pc # "claiming" /\ conn'[c].lastSc = conn[c].lastSc
    BY <1>2, <1>l, ConnSteps, Zenon DEF Moves, Effect
  <2> QED BY <2>1, <1>k
<1>3. ASSUME NEW c \in Conns, Connect(c) PROVE CountersMove
  <2>1. /\ \A d \in Conns : d # c => conn'[d] = conn[d]
        /\ conn'[c].pc # "claiming" /\ conn'[c].lastSc = conn[c].lastSc
    BY <1>3, <1>l, ConnSteps, Zenon DEF Moves, Effect
  <2> QED BY <2>1, <1>k
<1>4. ASSUME NEW c \in Conns, RetireInconsistent(c) PROVE CountersMove
  <2>1. /\ \A d \in Conns : d # c => conn'[d] = conn[d]
        /\ conn'[c].pc # "claiming" /\ conn'[c].lastSc = conn[c].lastSc
    BY <1>4, <1>l, ConnSteps, Zenon DEF Moves, Effect
  <2> QED BY <2>1, <1>k
<1>5. ASSUME NEW c \in Conns, OfferResume(c) PROVE CountersMove
  <2>0. conn[c].row = NoRow
    BY <1>5, Zenon DEF OfferResume, RowLater, Early
  <2>1. /\ \A d \in Conns : d # c => conn'[d] = conn[d]
        /\ conn'[c].pc # "claiming"
    BY <1>5, <1>l, ConnSteps, Zenon DEF Moves, Effect
  <2> QED BY <2>1, <2>0, <1>k
<1>6. ASSUME NEW c \in Conns, RefuseConnect(c) PROVE CountersMove
  <2>1. /\ \A d \in Conns : d # c => conn'[d] = conn[d]
        /\ conn'[c].pc # "claiming" /\ conn'[c].lastSc = conn[c].lastSc
    BY <1>6, <1>l, ConnSteps, Zenon DEF Moves, Effect
  <2> QED BY <2>1, <1>k
<1>7. ASSUME NEW c \in Conns, ConnectComplete(c) PROVE CountersMove
  <2>1. conn[c].row = NoRow /\ rows' = rows
    BY <1>7, Zenon DEF ConnectComplete, RowLater, Early, dbVars
  <2>2. /\ \A d \in Conns : d # c => conn'[d] = conn[d]
        /\ \/ conn'[c].pc = "discarding"
           \/ conn[c].prev \in Rows /\ conn'[c].prev = conn[c].prev /\ conn'[c].lastSc = rows[conn[c].prev].scOp
    BY <1>7, <1>l, ConnSteps, Zenon DEF Effect
  <2> QED BY <2>1, <2>2 DEF CountersMove
<1>8. ASSUME NEW c \in Conns, ClaimRow(c) PROVE CountersMove
  <2>1. /\ \A d \in Conns : d # c => conn'[d] = conn[d]
        /\ conn'[c].pc # "claiming" /\ conn'[c].lastSc = conn[c].lastSc
    BY <1>8, <1>l, RowSteps DEF Moves, Effect
  <2> QED BY <2>1, <1>k
<1>9. ASSUME NEW c \in Conns, DiscardActive(c) PROVE CountersMove
  <2>1. /\ \A d \in Conns : d # c => conn'[d] = conn[d]
        /\ conn'[c].pc # "claiming" /\ conn'[c].lastSc = conn[c].lastSc
    BY <1>9, <1>l, ConnSteps, Zenon DEF Moves, Effect
  <2> QED BY <2>1, <1>k
<1>10. ASSUME NEW c \in Conns, DiscardResumable(c) PROVE CountersMove
  <2>1. /\ \A d \in Conns : d # c => conn'[d] = conn[d]
        /\ conn'[c].pc # "claiming" /\ conn'[c].lastSc = conn[c].lastSc
    BY <1>10, <1>l, ConnSteps, Zenon DEF Moves, Effect
  <2> QED BY <2>1, <1>k
<1>11. ASSUME NEW c \in Conns, CreateRow(c) PROVE CountersMove
  <2>0. conn[c].row = NoRow
    BY <1>11, Zenon DEF CreateRow, RowLater, Early
  <2>1. /\ \A d \in Conns : d # c => conn'[d] = conn[d]
        /\ conn'[c].pc # "claiming"
    BY <1>11, <1>l, RowSteps DEF Moves, Effect
  <2> QED BY <2>1, <2>0, <1>k
<1>12. ASSUME NEW c \in Conns, Register(c) PROVE CountersMove
  <2>1. /\ \A d \in Conns : d # c => conn'[d] = conn[d]
        /\ conn'[c].pc # "claiming" /\ conn'[c].lastSc = conn[c].lastSc
    BY <1>12, <1>l, ConnSteps, Zenon DEF Moves, Effect
  <2> QED BY <2>1, <1>k
<1>13. ASSUME NEW c \in Conns, Publish(c) PROVE CountersMove
  <2>1. \A d \in Conns : /\ conn'[d].lastSc = conn[d].lastSc
                         /\ conn'[d].pc = "completing" \/ (conn'[d].pc = conn[d].pc /\ conn'[d].prev = conn[d].prev)
    BY <1>13, MoreConnSteps
  <2>2. \A d \in Conns : conn'[d].pc = "claiming" => conn[d].pc = "claiming" /\ conn'[d].prev = conn[d].prev
    BY <2>1
  <2>3. \A d \in Conns : conn'[d].lastSc = conn[d].lastSc
    BY <2>1
  <2> QED BY <2>2, <2>3 DEF CountersMove
<1>14. ASSUME NEW c \in Conns, CompleteHandshake(c) PROVE CountersMove
  <2>1. /\ \A d \in Conns : d # c => conn'[d] = conn[d]
        /\ conn'[c].pc # "claiming" /\ conn'[c].lastSc = conn[c].lastSc
    BY <1>14, <1>l, ConnSteps, Zenon DEF Moves, Effect
  <2> QED BY <2>1, <1>k
<1>15. ASSUME NEW c \in Conns, Lookup(c) PROVE CountersMove
  BY <1>15, <1>s DEF Lookup
<1>16. ASSUME NEW c \in Conns, Answer(c) PROVE CountersMove
  BY <1>16, <1>s DEF Answer
<1>17. ASSUME NEW c \in Conns, Break(c) PROVE CountersMove
  BY <1>17, <1>l, <1>c, ConnSteps, Zenon
<1>18. ASSUME NEW c \in Conns, EndReading(c) PROVE CountersMove
  <2>1. /\ \A d \in Conns : d # c => conn'[d] = conn[d]
        /\ conn'[c].pc # "claiming" /\ conn'[c].lastSc = conn[c].lastSc
    BY <1>18, <1>l, ConnSteps, Zenon DEF Moves, Effect
  <2> QED BY <2>1, <1>k
<1>19. ASSUME NEW c \in Conns, Unpublish(c) PROVE CountersMove
  <2>1. /\ \A d \in Conns : d # c => conn'[d] = conn[d]
        /\ conn'[c].pc # "claiming" /\ conn'[c].lastSc = conn[c].lastSc
    BY <1>19, <1>l, ConnSteps, Zenon DEF Moves, Effect
  <2> QED BY <2>1, <1>k
<1>20. ASSUME NEW c \in Conns, WriteFinalCounters(c) PROVE CountersMove
  <2>1. /\ \A d \in Conns : d # c => conn'[d] = conn[d]
        /\ conn'[c].pc # "claiming" /\ conn'[c].lastSc = conn[c].lastSc
    BY <1>20, <1>l, ConnSteps, Zenon DEF Moves, Effect
  <2> QED BY <2>1, <1>k
<1>21. ASSUME NEW c \in Conns, HandBack(c) PROVE CountersMove
  <2>1. /\ \A d \in Conns : d # c => conn'[d] = conn[d]
        /\ conn'[c].pc # "claiming" /\ conn'[c].lastSc = conn[c].lastSc
    BY <1>21, <1>l, ConnSteps, Zenon DEF Moves, Effect
  <2> QED BY <2>1, <1>k
<1>22. ASSUME NEW c \in Conns, Evict(c) PROVE CountersMove
  <2>1. /\ \A d \in Conns : d # c => conn'[d] = conn[d]
        /\ conn'[c].pc # "claiming" /\ conn'[c].lastSc = conn[c].lastSc
    BY <1>22, <1>l, MoreConnSteps DEF Moves, Effect
  <2> QED BY <2>1, <1>k
<1>23. ASSUME NEW t \in senders, Allocate(t) PROVE CountersMove
  <2>1. /\ t.conn \in Conns /\ conn[t.conn].pc \in Departed /\ \A d \in Conns : d # t.conn => conn'[d] = conn[d]
        /\ conn'[t.conn].pc = conn[t.conn].pc
    BY <1>23, <1>0, MoreConnSteps DEF Effect, SendersLate
  <2>2. conn'[t.conn].pc # "claiming"
    BY <2>1, Zenon DEF Departed
  <2> QED BY <1>23, <2>1, <2>2 DEF CountersMove
<1>24. ASSUME NEW t \in senders, WriteCounter(t) PROVE CountersMove
  BY <1>24, <1>s DEF WriteCounter
<1>25. ASSUME NEW t \in senders, Record(t) PROVE CountersMove
  BY <1>25, <1>s DEF Record
<1>26. ASSUME NEW t \in senders, Send(t) PROVE CountersMove
  BY <1>26, <1>0, <1>s, <1>c, MoreConnSteps
<1>27. ASSUME CloseSessionByEUI PROVE CountersMove
  BY <1>27, <1>0, <1>c, MoreConnSteps DEF CloseSessionByEUI
<1>28. ASSUME Crash PROVE CountersMove
  <2>1. \A d \in Conns : /\ conn'[d].lastSc = conn[d].lastSc
                         /\ conn'[d].pc = "gone" \/ (conn'[d].pc = conn[d].pc /\ conn'[d].prev = conn[d].prev)
    BY <1>28, MoreConnSteps
  <2>2. \A d \in Conns : conn'[d].pc = "claiming" => conn[d].pc = "claiming" /\ conn'[d].prev = conn[d].prev
    BY <2>1
  <2>3. \A d \in Conns : conn'[d].lastSc = conn[d].lastSc
    BY <2>1
  <2> QED BY <2>2, <2>3 DEF CountersMove
<1>29. ASSUME Start PROVE CountersMove
  BY <1>29, <1>s DEF Start
<1> QED BY <1>1, <1>2, <1>3, <1>4, <1>5, <1>6, <1>7, <1>8, <1>9, <1>10, <1>11, <1>12, <1>13, <1>14,
           <1>15, <1>16, <1>17, <1>18, <1>19, <1>20, <1>21, <1>22, <1>23, <1>24, <1>25, <1>26,
           <1>27, <1>28, <1>29
        DEF Next, Activate, Teardown, Sending

\* What a step may do to the operations being sent.
SendersMove ==
  \A u \in senders' :
    \/ u \in senders
    \/ u.id = 0 /\ u.pc = "found" /\ (\E c \in Conns : Lookup(c))
    \/ \E t \in senders :
         /\ u.conn = t.conn
         /\ \/ Allocate(t) /\ u.id = conn[t.conn].lastSc - 1 /\ u.pc = "allocated"
            \/ /\ WriteCounter(t) /\ u.id = t.id /\ u.pc = "counted" /\ t.pc = "allocated"
               /\ rows'[conn[t.conn].row].scOp <= conn[t.conn].lastSc
            \/ Record(t) /\ Recorded(t) /\ u.id = t.id /\ u.pc = "recorded" /\ t.pc = "counted"

\* Every step moves the operations being sent so.
LEMMA SendersMoveStep ==
  ASSUME TypeOK, Resuming, PastHandshake, SendersLate, LiveHolds, Frames
  PROVE  SendersMove
<1>0. /\ \A t \in senders : t.conn \in Conns /\ t \in SenderType /\ conn[t.conn].row \in Rows
      /\ \A r \in Rows : rows[r].scOp \in Int
      /\ \A c \in Conns : conn[c].lastSc \in Int
  BY DEF TypeOK, RowType, SenderType, ConnType, ScIds, SendersLate
<1>s. senders' \subseteq senders => SendersMove
  BY DEF SendersMove
<1>1. ASSUME NEW c \in Conns, Lookup(c) PROVE SendersMove
  BY <1>1 DEF Lookup, SendersMove
<1>2. ASSUME NEW t \in senders, Allocate(t) PROVE SendersMove
  <2>1. senders' = (senders \ {t}) \cup {[conn |-> t.conn, id |-> conn[t.conn].lastSc - 1, pc |-> "allocated"]}
    BY <1>2 DEF Allocate
  <2> QED BY <1>2, <2>1 DEF SendersMove
<1>3. ASSUME NEW t \in senders, WriteCounter(t) PROVE SendersMove
  <2>1. CASE ~(senders' \subseteq senders)
    <3> DEFINE u == [t EXCEPT !.pc = "counted"]
    <3>1. senders' = (senders \ {t}) \cup {u} /\ t.pc = "allocated"
      BY <1>3, <2>1 DEF WriteCounter, Moved
    <3>2. u.conn = t.conn /\ u.id = t.id /\ u.pc = "counted"
      BY <1>0 DEF SenderType
    <3>3. RowEffect(conn[t.conn].row, rows[conn[t.conn].row].status, rows[conn[t.conn].row].conn,
                    Lower(rows[conn[t.conn].row].scOp, conn[t.conn].lastSc))
      BY <1>3, <2>1, RowSteps
    <3>4. rows'[conn[t.conn].row].scOp <= conn[t.conn].lastSc
      BY <3>3, <1>0 DEF RowEffect, Lower
    <3> HIDE DEF u
    <3> QED BY <1>3, <3>1, <3>2, <3>4 DEF SendersMove
  <2> QED BY <2>1, <1>s
<1>4. ASSUME NEW t \in senders, Record(t) PROVE SendersMove
  <2>1. CASE ~(senders' \subseteq senders)
    <3> DEFINE u == [t EXCEPT !.pc = "recorded"]
    <3>1. /\ senders' = (senders \ {t}) \cup {u} /\ t.pc = "counted"
          /\ Recorded(t)
      BY <1>4, <2>1 DEF Record, Moved
    <3>2. u.conn = t.conn /\ u.id = t.id /\ u.pc = "recorded"
      BY <1>0 DEF SenderType
    <3> HIDE DEF u
    <3> QED BY <1>4, <3>1, <3>2 DEF SendersMove
  <2> QED BY <2>1, <1>s
<1>5. ASSUME NEW t \in senders, Send(t) PROVE SendersMove
  BY <1>5, <1>s DEF Send
<1>6. ASSUME Crash PROVE SendersMove
  BY <1>6, <1>s DEF Crash
<1> QED BY <1>s, <1>1, <1>2, <1>3, <1>4, <1>5, <1>6 DEF Frames

\* The counter of a row covers what was sent and recorded on it.
SendCounted ==
  \A t \in senders : t.pc \in {"counted", "recorded"} /\ HeldBy(conn[t.conn].row, t.conn) =>
    rows[conn[t.conn].row].scOp <= t.id
IssueCounted == \A x \in issued : x.row \notin contested => rows[x.row].scOp <= x.id
ClaimCounted ==
  \A c \in Conns, x \in issued :
    conn[c].pc = "claiming" /\ x.row = conn[c].prev /\ x.row \notin contested => conn[c].lastSc <= x.id

\* The connection that holds a row allocates below everything that earlier
\* connections recorded on it.
HolderBelow ==
  \A x \in issued, c \in Conns :
    c # x.by /\ HeldBy(x.row, c) /\ x.row \notin contested =>
      conn[c].lastSc <= x.id /\ \A t \in senders : t.conn = c /\ t.id # 0 => t.id < x.id

CounterInv == SendCounted /\ IssueCounted /\ ClaimCounted /\ HolderBelow /\ IdsUsedOnce

\* What a connection does on a row that stays uncontested, it does while it
\* holds the row and no other connection is being offered it.
LEMMA ActsAlone ==
  ASSUME NEW c \in Conns, Contending(c), conn[c].row \notin contested'
  PROVE  /\ HeldBy(conn[c].row, c)
         /\ \A d \in Conns : d # c /\ conn[d].prev = conn[c].row => conn[d].pc \notin {"loading", "offered", "claiming"}
  BY DEF Contending

\* Every step keeps the counters covering what was issued.
LEMMA CounterStep ==
  ASSUME TypeOK, TypeOK', OwnInv, Resuming, SendersLate, IssueInv, CounterInv,
         DepartedStays, Frames, RowsMove, CountersMove, SendersMove
  PROVE  CounterInv'
<1>i. /\ SendCounted /\ IssueCounted /\ ClaimCounted /\ HolderBelow /\ IdsUsedOnce
      /\ IssuedBy /\ RowThere /\ HolderRow /\ RowLater
  BY DEF CounterInv, IssueInv, OwnInv
<1>0. /\ \A t \in senders : t.conn \in Conns /\ t.id \in Int
      /\ \A r \in Rows : rows[r].scOp \in Int /\ rows'[r].scOp \in Int
      /\ \A c \in Conns : conn[c].lastSc \in Int /\ conn'[c].lastSc \in Int /\ conn[c].row \in Rows \cup {NoRow}
      /\ \A x \in issued : x.by \in Conns /\ x.id \in Int /\ x.row \in Rows
      /\ \A x \in issued' : x.by \in Conns /\ x.id \in Int /\ x.row \in Rows
      /\ NoRow \notin Rows
  BY SessionAssumption DEF TypeOK, RowType, SenderType, ConnType, ScIds, IssueType
<1>d. \A t \in senders : conn[t.conn].pc \in Departed /\ conn[t.conn].row \in Rows /\ conn'[t.conn].row = conn[t.conn].row
  BY <1>0 DEF SendersLate, DepartedStays
<1>e. \A t \in senders : conn[t.conn].pc \notin {"claiming", "creating"}
  BY <1>d, Zenon DEF Departed
<1>x. \A x \in issued : rows[x.row].status # "absent"
  BY <1>0, <1>i DEF IssuedBy, RowThere
<1>g. contested \subseteq contested'
  BY Zenon DEF Frames, Answer, Allocate, Record, Send, Contending
<1>n. ASSUME NEW x \in issued', x \notin issued, x.row \notin contested'
      PROVE  \E t \in senders :
               /\ Record(t) /\ t.pc = "counted" /\ rows' = rows /\ conn' = conn
               /\ x.row = conn[t.conn].row /\ x.id = t.id /\ x.by = t.conn
               /\ HeldBy(x.row, t.conn)
               /\ \A d \in Conns : d # t.conn /\ conn[d].prev = x.row => conn[d].pc # "claiming"
  <2>1. PICK t \in senders : Record(t)
    BY <1>n DEF Frames
  <2>2. x = [row |-> conn[t.conn].row, id |-> t.id, by |-> t.conn]
    BY <1>n, <2>1 DEF Record
  <2>3. t.pc = "counted" /\ rows' = rows /\ conn' = conn /\ Contending(t.conn)
    BY <2>1 DEF Record
  <2> QED BY <1>n, <2>1, <2>2, <2>3, <1>0, ActsAlone
<1>h. ASSUME NEW t \in senders, rows'[conn[t.conn].row].status = "active", rows'[conn[t.conn].row].conn = t.conn
      PROVE  HeldBy(conn[t.conn].row, t.conn) /\ rows'[conn[t.conn].row].scOp <= rows[conn[t.conn].row].scOp
  <2> DEFINE r == conn[t.conn].row
  <2>1. r \in Rows /\ t.conn \in Conns /\ conn[t.conn].pc \notin {"claiming", "creating"}
    BY <1>0, <1>d, <1>e
  <2>2. HeldBy(r, t.conn)
    BY <1>h, <2>1 DEF RowsMove
  <2>3. rows[r].status # "absent"
    BY <2>2 DEF HeldBy
  <2> QED BY <1>h, <2>1, <2>2, <2>3 DEF RowsMove
<1>1. SendCounted'
  <2> SUFFICES ASSUME NEW u \in senders', u.pc \in {"counted", "recorded"},
                      rows'[conn'[u.conn].row].status = "active", rows'[conn'[u.conn].row].conn = u.conn
               PROVE  rows'[conn'[u.conn].row].scOp <= u.id
    BY DEF SendCounted, HeldBy
  <2>1. CASE u \in senders
    <3>1. HeldBy(conn[u.conn].row, u.conn) /\ rows'[conn[u.conn].row].scOp <= rows[conn[u.conn].row].scOp
      BY <2>1, <1>d, <1>h
    <3>2. rows[conn[u.conn].row].scOp <= u.id
      BY <2>1, <3>1, <1>i DEF SendCounted
    <3> QED BY <2>1, <3>1, <3>2, <1>0, <1>d
  <2>2. ASSUME NEW t \in senders, u.conn = t.conn, u.id = t.id, rows'[conn[t.conn].row].scOp <= conn[t.conn].lastSc,
               t.pc = "allocated"
        PROVE  rows'[conn'[u.conn].row].scOp <= u.id
    <3>1. conn[t.conn].lastSc <= t.id
      BY <2>2 DEF SendersLate
    <3> QED BY <2>2, <3>1, <1>0, <1>d
  <2>3. ASSUME NEW t \in senders, u.conn = t.conn, u.id = t.id, t.pc = "counted"
        PROVE  rows'[conn'[u.conn].row].scOp <= u.id
    <3>1. HeldBy(conn[t.conn].row, t.conn) /\ rows'[conn[t.conn].row].scOp <= rows[conn[t.conn].row].scOp
      BY <2>3, <1>d, <1>h
    <3>2. rows[conn[t.conn].row].scOp <= t.id
      BY <2>3, <3>1, <1>i DEF SendCounted
    <3> QED BY <2>3, <3>1, <3>2, <1>0, <1>d
  <2> QED BY <2>1, <2>2, <2>3 DEF SendersMove
<1>2. IssueCounted'
  <2> SUFFICES ASSUME NEW x \in issued', x.row \notin contested' PROVE rows'[x.row].scOp <= x.id
    BY DEF IssueCounted
  <2>1. CASE x \in issued
    <3>1. rows[x.row].scOp <= x.id /\ x.row \in Rows /\ rows[x.row].status # "absent"
      BY <2>1, <1>0, <1>x, <1>g, <1>i DEF IssueCounted
    <3>2. ASSUME NEW c \in Conns, conn[c].pc = "claiming", conn[c].prev = x.row PROVE conn[c].lastSc <= x.id
      BY <2>1, <3>2, <1>g, <1>i DEF ClaimCounted
    <3>3. \/ rows'[x.row].scOp <= rows[x.row].scOp
          \/ \E c \in Conns : conn[c].pc = "claiming" /\ conn[c].prev = x.row /\ rows'[x.row].scOp = conn[c].lastSc
      BY <3>1 DEF RowsMove
    <3> QED BY <2>1, <3>1, <3>2, <3>3, <1>0
  <2>2. CASE x \notin issued
    <3>1. PICK t \in senders : t.pc = "counted" /\ rows' = rows /\ x.row = conn[t.conn].row /\ x.id = t.id /\ HeldBy(x.row, t.conn)
      BY <2>2, <1>n
    <3> QED BY <3>1, <1>i DEF SendCounted
  <2> QED BY <2>1, <2>2
<1>3. ClaimCounted'
  <2> SUFFICES ASSUME NEW c \in Conns, NEW x \in issued', conn'[c].pc = "claiming", x.row = conn'[c].prev, x.row \notin contested'
               PROVE  conn'[c].lastSc <= x.id
    BY DEF ClaimCounted
  <2>1. CASE x \in issued
    <3>1. CASE conn[c].pc = "claiming" /\ conn'[c].prev = conn[c].prev /\ conn'[c].lastSc = conn[c].lastSc
      BY <2>1, <3>1, <1>g, <1>i DEF ClaimCounted
    <3>2. CASE conn'[c].prev = conn[c].prev /\ conn'[c].lastSc = rows[conn[c].prev].scOp
      BY <2>1, <3>2, <1>g, <1>i DEF IssueCounted
    <3> QED BY <3>1, <3>2 DEF CountersMove
  <2>2. CASE x \notin issued
    <3>1. PICK t \in senders : conn' = conn /\ x.row = conn[t.conn].row
                               /\ \A d \in Conns : d # t.conn /\ conn[d].prev = x.row => conn[d].pc # "claiming"
      BY <2>2, <1>n
    <3> QED BY <3>1, <1>e
  <2> QED BY <2>1, <2>2
<1>4. HolderBelow'
  <2> SUFFICES ASSUME NEW x \in issued', NEW c \in Conns, c # x.by, rows'[x.row].status = "active", rows'[x.row].conn = c,
                      x.row \notin contested'
               PROVE  conn'[c].lastSc <= x.id /\ \A u \in senders' : u.conn = c /\ u.id # 0 => u.id < x.id
    BY DEF HolderBelow, HeldBy
  <2>1. CASE x \in issued
    <3>0. x.row \in Rows /\ x.id \in Int /\ rows[x.row].status # "absent" /\ x.row \notin contested
      BY <2>1, <1>0, <1>x, <1>g
    <3>1. CASE HeldBy(x.row, c)
      <4>1. conn[c].lastSc <= x.id /\ \A t \in senders : t.conn = c /\ t.id # 0 => t.id < x.id
        BY <2>1, <3>0, <3>1, <1>i DEF HolderBelow
      <4>2. conn[c].row # NoRow
        BY <3>0, <3>1, <1>0, <1>i DEF HolderRow
      <4>3. ASSUME NEW t \in senders, Allocate(t), t.conn = c PROVE conn'[c].lastSc = conn[c].lastSc - 1
        BY <4>3, MoreConnSteps DEF Effect
      <4>4. conn'[c].lastSc <= x.id
        BY <4>1, <4>2, <4>3, <3>0, <1>0 DEF CountersMove
      <4>5. ASSUME NEW u \in senders', u.conn = c, u.id # 0 PROVE u.id < x.id
        <5>1. CASE u \in senders
          BY <5>1, <4>1, <4>5
        <5>2. CASE u.id = conn[c].lastSc - 1
          BY <5>2, <4>1, <3>0, <1>0
        <5>3. ASSUME NEW t \in senders, u.conn = t.conn, u.id = t.id PROVE u.id < x.id
          BY <5>3, <4>1, <4>5
        <5> QED BY <4>5, <5>1, <5>2, <5>3 DEF SendersMove
      <4> QED BY <4>4, <4>5
    <3>2. CASE conn[c].pc = "claiming" /\ conn[c].prev = x.row /\ conn'[c].lastSc = conn[c].lastSc
      <4>1. conn[c].lastSc <= x.id
        BY <2>1, <3>0, <3>2, <1>i DEF ClaimCounted
      <4>2. \A t \in senders : t.conn # c
        BY <3>2, <1>e
      <4>3. ASSUME NEW u \in senders', u.conn = c, u.id # 0 PROVE FALSE
        BY <4>2, <4>3 DEF SendersMove
      <4> QED BY <3>2, <4>1, <4>3
    <3> QED BY <3>0, <3>1, <3>2 DEF RowsMove
  <2>2. CASE x \notin issued
    <3>1. PICK t \in senders : rows' = rows /\ x.by = t.conn /\ HeldBy(x.row, t.conn)
      BY <2>2, <1>n
    <3> QED BY <3>1 DEF HeldBy
  <2> QED BY <2>1, <2>2
<1>5. IdsUsedOnce'
  <2>1. ASSUME NEW x \in issued', NEW y \in issued', x.row = y.row, x.id = y.id, x.row \notin contested', x \notin issued
        PROVE  x.by = y.by
    <3>1. PICK t \in senders : /\ t.pc = "counted" /\ x.row = conn[t.conn].row /\ x.id = t.id /\ x.by = t.conn
                               /\ HeldBy(x.row, t.conn) /\ Record(t)
      BY <2>1, <1>n
    <3>2. CASE y \in issued
      <4>1. t.id # 0 /\ x.row \notin contested /\ t.conn \in Conns
        BY <3>1, <1>g, <1>0, <2>1 DEF SendersLate
      <4>2. t.conn # y.by => t.id < y.id
        BY <3>1, <3>2, <4>1, <2>1, <1>i DEF HolderBelow
      <4> QED BY <3>1, <3>2, <4>2, <2>1, <1>0
    <3>3. CASE y \notin issued
      <4>1. x = [row |-> conn[t.conn].row, id |-> t.id, by |-> t.conn]
        BY <3>1, <2>1 DEF Record
      <4>2. y = [row |-> conn[t.conn].row, id |-> t.id, by |-> t.conn]
        BY <3>1, <3>3, <2>1 DEF Record
      <4> QED BY <4>1, <4>2
    <3> QED BY <3>2, <3>3
  <2>2. ASSUME NEW x \in issued, NEW y \in issued, x.row = y.row, x.id = y.id, x.row \notin contested'
        PROVE  x.by = y.by
    BY <2>2, <1>g, <1>i DEF IdsUsedOnce
  <2> SUFFICES ASSUME NEW x \in issued', NEW y \in issued', x.row = y.row, x.id = y.id, x.row \notin contested'
               PROVE  x.by = y.by
    BY DEF IdsUsedOnce
  <2>3. CASE x \notin issued
    BY <2>1, <2>3
  <2>4. CASE x \in issued /\ y \notin issued
    BY <2>1, <2>4
  <2>5. CASE x \in issued /\ y \in issued
    BY <2>2, <2>5
  <2> QED BY <2>3, <2>4, <2>5
<1> QED BY <1>1, <1>2, <1>3, <1>4, <1>5 DEF CounterInv

-----------------------------------------------------------------------------
(* The journal: why an open operation is on record.                        *)

\* The steps from the offer of a resume to its handshake.
Activating == {"offered", "claiming", "registering", "publishing", "completing"}

\* A handshake is completed, and a resume activated, in the order of the steps.
ActivationMoves ==
  \A c \in Conns :
    /\ conn'[c].pc = "complete" => conn[c].pc = "complete" \/ CompleteHandshake(c)
    /\ conn'[c].pc \in Activating /\ conn'[c].resumed => OfferResume(c) \/ (conn[c].pc \in Activating /\ conn[c].resumed)

\* Every step follows that order.
LEMMA ActivationStep ==
  ASSUME TypeOK, Resuming, PastHandshake, SendersLate, LiveHolds, Next
  PROVE  ActivationMoves
<1>0. live \subseteq Conns /\ \A t \in senders : t.conn \in Conns
  BY DEF TypeOK, SenderType
<1>l. \A c \in Conns : /\ conn[c].pc \in {"loading", "retiring", "claiming"} => conn[c].prev \in Rows
                       /\ conn[c].resumed => conn[c].prev \in Rows
  BY Zenon DEF Resuming, ResumingAt
<1>n. \A c \in Conns : conn[c].pc \in {"connecting", "loading", "retiring", "creating"} => ~conn[c].resumed
  BY Zenon DEF Resuming, ResumingAt
<1>s. conn' = conn => ActivationMoves
  BY DEF ActivationMoves
<1>k. ASSUME NEW c \in Conns, \A d \in Conns : d # c => conn'[d] = conn[d],
             conn'[c].pc # "complete" \/ conn[c].pc = "complete",
             conn'[c].pc \in Activating /\ conn'[c].resumed => conn[c].pc \in Activating /\ conn[c].resumed
      PROVE  ActivationMoves
  BY <1>k DEF ActivationMoves
<1>c. ASSUME NEW c \in Conns, Closes(c) PROVE ActivationMoves
  BY <1>c, <1>k DEF Closes, Effect
<1>1. ASSUME NEW c \in Conns, Accept(c) PROVE ActivationMoves
  <2>1. /\ \A d \in Conns : d # c => conn'[d] = conn[d]
        /\ conn'[c].pc \notin {"complete", "offered", "claiming", "registering", "publishing", "completing"}
    BY <1>1, <1>l, ConnSteps, Zenon DEF Moves, Effect
  <2> QED BY <2>1, <1>k DEF Activating
<1>2. ASSUME NEW c \in Conns, RejectConnect(c) PROVE ActivationMoves
  <2>1. /\ \A d \in Conns : d # c => conn'[d] = conn[d]
        /\ conn'[c].pc \notin {"complete", "offered", "claiming", "registering", "publishing", "completing"}
    BY <1>2, <1>l, ConnSteps, Zenon DEF Moves, Effect
  <2> QED BY <2>1, <1>k DEF Activating
<1>3. ASSUME NEW c \in Conns, Connect(c) PROVE ActivationMoves
  <2>1. ~conn[c].resumed
    BY <1>3, <1>n DEF Connect
  <2>2. /\ \A d \in Conns : d # c => conn'[d] = conn[d]
        /\ conn'[c].pc # "complete" /\ conn'[c].resumed = conn[c].resumed
    BY <1>3, <1>l, ConnSteps, Zenon DEF Moves, Effect
  <2> QED BY <2>1, <2>2, <1>k
<1>4. ASSUME NEW c \in Conns, RetireInconsistent(c) PROVE ActivationMoves
  <2>1. ~conn[c].resumed
    BY <1>4, <1>n DEF RetireInconsistent
  <2>2. /\ \A d \in Conns : d # c => conn'[d] = conn[d]
        /\ conn'[c].pc # "complete" /\ conn'[c].resumed = conn[c].resumed
    BY <1>4, <1>l, ConnSteps, Zenon DEF Moves, Effect
  <2> QED BY <2>1, <2>2, <1>k
<1>5. ASSUME NEW c \in Conns, OfferResume(c) PROVE ActivationMoves
  <2>1. /\ \A d \in Conns : d # c => conn'[d] = conn[d]
        /\ conn'[c].pc \in {"closing", "offered"}
    BY <1>5, <1>l, ConnSteps, Zenon DEF Moves, Effect
  <2> QED BY <1>5, <2>1 DEF ActivationMoves, Activating
<1>6. ASSUME NEW c \in Conns, RefuseConnect(c) PROVE ActivationMoves
  <2>1. /\ \A d \in Conns : d # c => conn'[d] = conn[d]
        /\ conn'[c].pc \notin {"complete", "offered", "claiming", "registering", "publishing", "completing"}
    BY <1>6, <1>l, ConnSteps, Zenon DEF Moves, Effect
  <2> QED BY <2>1, <1>k DEF Activating
<1>7. ASSUME NEW c \in Conns, ConnectComplete(c) PROVE ActivationMoves
  <2>1. conn[c].pc = "offered" /\ conn[c].pc \in Activating
    BY <1>7 DEF ConnectComplete, Activating
  <2>2. /\ \A d \in Conns : d # c => conn'[d] = conn[d]
        /\ conn'[c].pc # "complete" /\ conn'[c].resumed = conn[c].resumed
    BY <1>7, <1>l, ConnSteps, Zenon DEF Moves, Effect
  <2> QED BY <2>1, <2>2, <1>k
<1>8. ASSUME NEW c \in Conns, ClaimRow(c) PROVE ActivationMoves
  <2>1. conn[c].pc = "claiming" /\ conn[c].pc \in Activating
    BY <1>8 DEF ClaimRow, Activating
  <2>2. /\ \A d \in Conns : d # c => conn'[d] = conn[d]
        /\ conn'[c].pc # "complete" /\ conn'[c].resumed = conn[c].resumed
    BY <1>8, <1>l, RowSteps DEF Moves, Effect
  <2> QED BY <2>1, <2>2, <1>k
<1>9. ASSUME NEW c \in Conns, DiscardActive(c) PROVE ActivationMoves
  <2>1. /\ \A d \in Conns : d # c => conn'[d] = conn[d]
        /\ conn'[c].pc \notin {"complete", "offered", "claiming", "registering", "publishing", "completing"}
    BY <1>9, <1>l, ConnSteps, Zenon DEF Moves, Effect
  <2> QED BY <2>1, <1>k DEF Activating
<1>10. ASSUME NEW c \in Conns, DiscardResumable(c) PROVE ActivationMoves
  <2>1. /\ \A d \in Conns : d # c => conn'[d] = conn[d]
        /\ conn'[c].pc \notin {"complete", "offered", "claiming", "registering", "publishing", "completing"}
    BY <1>10, <1>l, ConnSteps, Zenon DEF Moves, Effect
  <2> QED BY <2>1, <1>k DEF Activating
<1>11. ASSUME NEW c \in Conns, CreateRow(c) PROVE ActivationMoves
  <2>1. ~conn[c].resumed
    BY <1>11, <1>n, Zenon DEF CreateRow
  <2>2. /\ \A d \in Conns : d # c => conn'[d] = conn[d]
        /\ conn'[c].pc # "complete" /\ conn'[c].resumed = conn[c].resumed
    BY <1>11, <1>l, RowSteps DEF Moves, Effect
  <2> QED BY <2>1, <2>2, <1>k
<1>12. ASSUME NEW c \in Conns, Register(c) PROVE ActivationMoves
  <2>1. conn[c].pc = "registering" /\ conn[c].pc \in Activating
    BY <1>12 DEF Register, Activating
  <2>2. /\ \A d \in Conns : d # c => conn'[d] = conn[d]
        /\ conn'[c].pc # "complete" /\ conn'[c].resumed = conn[c].resumed
    BY <1>12, <1>l, ConnSteps, Zenon DEF Moves, Effect
  <2> QED BY <2>1, <2>2, <1>k
<1>13. ASSUME NEW c \in Conns, Publish(c) PROVE ActivationMoves
  <2>1. conn[c].pc = "publishing" /\ conn'[c].pc = "completing" /\ "publishing" \in Activating
    BY <1>13, MoreConnSteps, Zenon DEF Publish, Activating
  <2>2. \A d \in Conns : conn'[d].resumed = conn[d].resumed /\ (d # c => conn'[d].pc = conn[d].pc)
    BY <1>13, MoreConnSteps
  <2> QED BY <2>1, <2>2 DEF ActivationMoves
<1>14. ASSUME NEW c \in Conns, CompleteHandshake(c) PROVE ActivationMoves
  <2>1. /\ \A d \in Conns : d # c => conn'[d] = conn[d]
        /\ conn'[c].pc \in {"closing", "complete"}
    BY <1>14, <1>l, ConnSteps, Zenon DEF Moves, Effect
  <2> QED BY <1>14, <2>1 DEF ActivationMoves, Activating
<1>15. ASSUME NEW c \in Conns, Lookup(c) PROVE ActivationMoves
  BY <1>15, <1>s DEF Lookup
<1>16. ASSUME NEW c \in Conns, Answer(c) PROVE ActivationMoves
  BY <1>16, <1>s DEF Answer
<1>17. ASSUME NEW c \in Conns, Break(c) PROVE ActivationMoves
  BY <1>17, <1>l, <1>c, ConnSteps, Zenon
<1>18. ASSUME NEW c \in Conns, EndReading(c) PROVE ActivationMoves
  <2>1. /\ \A d \in Conns : d # c => conn'[d] = conn[d]
        /\ conn'[c].pc \notin {"complete", "offered", "claiming", "registering", "publishing", "completing"}
    BY <1>18, <1>l, ConnSteps, Zenon DEF Moves, Effect
  <2> QED BY <2>1, <1>k DEF Activating
<1>19. ASSUME NEW c \in Conns, Unpublish(c) PROVE ActivationMoves
  <2>1. /\ \A d \in Conns : d # c => conn'[d] = conn[d]
        /\ conn'[c].pc \notin {"complete", "offered", "claiming", "registering", "publishing", "completing"}
    BY <1>19, <1>l, ConnSteps, Zenon DEF Moves, Effect
  <2> QED BY <2>1, <1>k DEF Activating
<1>20. ASSUME NEW c \in Conns, WriteFinalCounters(c) PROVE ActivationMoves
  <2>1. /\ \A d \in Conns : d # c => conn'[d] = conn[d]
        /\ conn'[c].pc \notin {"complete", "offered", "claiming", "registering", "publishing", "completing"}
    BY <1>20, <1>l, ConnSteps, Zenon DEF Moves, Effect
  <2> QED BY <2>1, <1>k DEF Activating
<1>21. ASSUME NEW c \in Conns, HandBack(c) PROVE ActivationMoves
  <2>1. /\ \A d \in Conns : d # c => conn'[d] = conn[d]
        /\ conn'[c].pc \notin {"complete", "offered", "claiming", "registering", "publishing", "completing"}
    BY <1>21, <1>l, ConnSteps, Zenon DEF Moves, Effect
  <2> QED BY <2>1, <1>k DEF Activating
<1>22. ASSUME NEW c \in Conns, Evict(c) PROVE ActivationMoves
  <2>1. /\ \A d \in Conns : d # c => conn'[d] = conn[d]
        /\ conn'[c].pc \notin {"complete", "offered", "claiming", "registering", "publishing", "completing"}
    BY <1>22, <1>l, MoreConnSteps DEF Moves, Effect
  <2> QED BY <2>1, <1>k DEF Activating
<1>23. ASSUME NEW t \in senders, Allocate(t) PROVE ActivationMoves
  <2>1. /\ t.conn \in Conns /\ \A d \in Conns : d # t.conn => conn'[d] = conn[d]
        /\ conn'[t.conn].pc = conn[t.conn].pc /\ conn'[t.conn].resumed = conn[t.conn].resumed
    BY <1>23, <1>0, MoreConnSteps DEF Effect
  <2> QED BY <2>1, <1>k
<1>24. ASSUME NEW t \in senders, WriteCounter(t) PROVE ActivationMoves
  BY <1>24, <1>s DEF WriteCounter
<1>25. ASSUME NEW t \in senders, Record(t) PROVE ActivationMoves
  BY <1>25, <1>s DEF Record
<1>26. ASSUME NEW t \in senders, Send(t) PROVE ActivationMoves
  BY <1>26, <1>0, <1>s, <1>c, MoreConnSteps
<1>27. ASSUME CloseSessionByEUI PROVE ActivationMoves
  BY <1>27, <1>0, <1>c, MoreConnSteps DEF CloseSessionByEUI
<1>28. ASSUME Crash PROVE ActivationMoves
  <2>1. \A d \in Conns : conn'[d].pc \in {"idle", "gone"}
    BY <1>28, MoreConnSteps
  <2> QED BY <2>1 DEF ActivationMoves, Activating
<1>29. ASSUME Start PROVE ActivationMoves
  BY <1>29, <1>s DEF Start
<1> QED BY <1>1, <1>2, <1>3, <1>4, <1>5, <1>6, <1>7, <1>8, <1>9, <1>10, <1>11, <1>12, <1>13, <1>14,
           <1>15, <1>16, <1>17, <1>18, <1>19, <1>20, <1>21, <1>22, <1>23, <1>24, <1>25, <1>26,
           <1>27, <1>28, <1>29
        DEF Next, Activate, Teardown, Sending

\* TerminateSession sets the status.
LEMMA TerminatedStatus ==
  ASSUME TypeOK, NEW R, NEW r \in Rows, r \in R, rows' = Terminated(R)
  PROVE  rows'[r].status = "terminated"
  BY DEF TypeOK, RowType, Terminated

\* The frame a sender is about to write, and its record.
FrameOf(t) == [row |-> conn[t.conn].row, id |-> t.id, by |-> t.conn]
RecordOf(t) == [id |-> t.id, by |-> t.conn]

\* No frame of row r with this id stays open.
SettledId(r, id) == \A w \in open' : ~(w.row = r /\ w.id = id)

\* Why a record may leave the journal: its row was ended, it cannot be
\* rebuilt, another operation took its id, or it was settled.
LEMMA JournalLoss ==
  ASSUME TypeOK, Resuming, PastHandshake, SendersLate, LiveHolds, Frames,
         NEW r \in Rows, NEW e \in journal[r], e \notin journal'[r]
  PROVE  \/ rows'[r].status = "terminated"
         \/ e \in Lost(r) /\ SettledId(r, e.id)
         \/ \E t \in senders :
              /\ conn[t.conn].row = r /\ e.id = t.id /\ Contending(t.conn) /\ t.pc \in {"counted", "recorded"}
              /\ (Record(t) /\ RecordOf(t) \in journal'[r]) \/ Send(t)
         \/ \E c \in Conns :
              /\ Answer(c) /\ conn[c].row = r /\ Contending(c) /\ SettledId(r, e.id)
              /\ (\E w \in open : w.row = r /\ w.id = e.id)
<1>0. /\ journal \in [Rows -> SUBSET Ops] /\ journal' # journal
      /\ \A t \in senders : t.conn \in Conns
  BY DEF TypeOK, SenderType
<1>d. \A R : journal' = Discarded(R) => r \in R
  BY <1>0 DEF Discarded
<1>w. \A q, i : journal' = Without(q, i) => r = q /\ e.id = i
  BY <1>0 DEF Without
<1>1. ASSUME NEW c \in Conns, RetireInconsistent(c) PROVE rows'[r].status = "terminated"
  <2>1. rows' = Terminated({conn[c].prev}) /\ journal' = Discarded({conn[c].prev})
    BY <1>0, <1>1 DEF RetireInconsistent, dbVars
  <2> QED BY <2>1, <1>d, TerminatedStatus
<1>2. ASSUME NEW c \in Conns, OfferResume(c)
      PROVE  e \in Lost(r) /\ SettledId(r, e.id)
  <2>1. conn[c].pc = "loading" /\ conn[c].prev \in Rows
    BY <1>2, Zenon DEF OfferResume, Resuming, ResumingAt
  <2>2. PICK K \in SUBSET Lost(conn[c].prev) :
          /\ journal' = [journal EXCEPT ![conn[c].prev] = @ \ (Lost(conn[c].prev) \ K)]
          /\ open' = {w \in open : ~(w.row = conn[c].prev /\ \E l \in Lost(conn[c].prev) : l.id = w.id)}
    BY <1>2, <1>0, <2>1, ConnSteps, Zenon
  <2>3. r = conn[c].prev /\ e \in Lost(r)
    BY <2>1, <2>2, <1>0
  <2> QED BY <2>2, <2>3 DEF SettledId
<1>3. ASSUME NEW c \in Conns, RefuseConnect(c) PROVE rows'[r].status = "terminated"
  <2>1. rows' = Terminated({conn[c].prev}) /\ journal' = Discarded({conn[c].prev})
    BY <1>0, <1>3 DEF RefuseConnect, dbVars
  <2> QED BY <2>1, <1>d, TerminatedStatus
<1>4. ASSUME NEW c \in Conns, DiscardActive(c) PROVE rows'[r].status = "terminated"
  <2>1. rows' = Terminated(Active) /\ journal' = Discarded(Active)
    BY <1>0, <1>4, Zenon DEF DiscardActive, dbVars
  <2> QED BY <2>1, <1>d, TerminatedStatus
<1>5. ASSUME NEW c \in Conns, DiscardResumable(c) PROVE rows'[r].status = "terminated"
  <2>1. rows' = Terminated(Disconnected) /\ journal' = Discarded(Disconnected)
    BY <1>0, <1>5, Zenon DEF DiscardResumable, dbVars
  <2> QED BY <2>1, <1>d, TerminatedStatus
<1>6. ASSUME NEW c \in Conns, Answer(c)
      PROVE  /\ conn[c].row = r /\ Contending(c)
             /\ SettledId(r, e.id)
             /\ \E w \in open : w.row = r /\ w.id = e.id
  <2>1. PICK w \in open : /\ w.row = conn[c].row /\ journal' = Without(w.row, w.id)
                          /\ open' = {x \in open : x.row # w.row \/ x.id # w.id}
    BY <1>0, <1>6 DEF Answer
  <2>2. r = w.row /\ e.id = w.id
    BY <2>1, <1>w
  <2> QED BY <1>6, <2>1, <2>2 DEF Answer, SettledId
<1>7. ASSUME NEW t \in senders, Record(t)
      PROVE  /\ conn[t.conn].row = r /\ e.id = t.id /\ Contending(t.conn) /\ t.pc = "counted"
             /\ RecordOf(t) \in journal'[r]
  <2> DEFINE q == conn[t.conn].row
             m == [id |-> t.id, by |-> t.conn]
  <2>1. journal' = [journal EXCEPT ![q] = {x \in @ : x.id # m.id} \cup {m}]
    BY <1>0, <1>7 DEF Record, Recorded, Upsert
  <2>2. m.id = t.id
    OBVIOUS
  <2>3. r = q /\ e.id = m.id /\ m \in journal'[r]
    <3> HIDE DEF q, m
    <3> QED BY <2>1, <1>0
  <2> QED BY <1>7, <2>2, <2>3 DEF Record, RecordOf
<1>8. ASSUME NEW t \in senders, Send(t)
      PROVE  conn[t.conn].row = r /\ e.id = t.id /\ Contending(t.conn) /\ t.pc = "recorded"
  <2>1. journal' = Without(conn[t.conn].row, t.id) /\ Contending(t.conn) /\ t.pc = "recorded"
    BY <1>0, <1>8 DEF Send
  <2> QED BY <2>1, <1>w
<1> QED BY <1>0, <1>1, <1>2, <1>3, <1>4, <1>5, <1>6, <1>7, <1>8 DEF Frames

\* Why a frame may come to be open: a handshake reissues an offer, or the
\* connection sends an operation it has recorded.
LEMMA OpenGain ==
  ASSUME Frames, NEW w \in open', w \notin open
  PROVE  \/ \E c \in Conns : /\ CompleteHandshake(c) /\ conn[c].pc = "completing" /\ journal' = journal /\ senders' = senders
                             /\ \E e \in conn[c].offer : w = Issue(conn[c].row, e)
         \/ \E t \in senders : /\ Send(t) /\ t.pc = "recorded" /\ Contending(t.conn) /\ journal' = journal
                               /\ w = [row |-> conn[t.conn].row, id |-> t.id, by |-> t.conn]
                               /\ senders' = senders \ {t}
<1>1. ASSUME NEW c \in Conns, CompleteHandshake(c)
      PROVE  /\ conn[c].pc = "completing" /\ journal' = journal /\ senders' = senders
             /\ \E e \in conn[c].offer : w = Issue(conn[c].row, e)
  BY <1>1 DEF CompleteHandshake, Issue, dbVars
<1>2. ASSUME NEW t \in senders, Send(t)
      PROVE  /\ t.pc = "recorded" /\ Contending(t.conn) /\ journal' = journal
             /\ w = [row |-> conn[t.conn].row, id |-> t.id, by |-> t.conn]
             /\ senders' = senders \ {t}
  BY <1>2 DEF Send
<1>3. ASSUME NEW c \in Conns, OfferResume(c) \/ Answer(c) PROVE FALSE
  BY <1>3 DEF OfferResume, Answer
<1> QED BY <1>1, <1>2, <1>3 DEF Frames

-----------------------------------------------------------------------------
(* The journal: what may still be answered is on record and can be found.  *)

\* What a resume offered stays on record until the handshake reissues it.
OfferCovered ==
  \A c \in Conns : conn[c].resumed /\ conn[c].pc \in Activating =>
    \/ rows[conn[c].prev].status = "terminated" \/ conn[c].prev \in contested
    \/ conn[c].offer \subseteq journal[conn[c].prev]

\* A sender that still holds its row finds its record there, and its frame unsent.
SendCovered ==
  \A t \in senders : HeldBy(conn[t.conn].row, t.conn) /\ conn[t.conn].row \notin contested =>
    /\ t.pc = "recorded" => RecordOf(t) \in journal[conn[t.conn].row]
    /\ FrameOf(t) \notin open

\* ReissuedIsCached, of every connection past its handshake.
ReissuedCached ==
  \A c \in Conns : conn[c].pc = "complete" /\ conn[c].row \notin contested =>
    \A e \in conn[c].offer : Issue(conn[c].row, e) \in open => e.id \in cache[c]

JournalInv == OfferCovered /\ SendCovered /\ ReissuedCached /\ JournalCoversOpen

\* A row once contested stays so.
LEMMA ContestedGrows ==
  ASSUME Frames
  PROVE  contested \subseteq contested'
<1>1. \A c : Contending(c) => contested \subseteq contested'
  BY DEF Contending
<1> QED BY <1>1, Zenon DEF Frames, Answer, Allocate, Record, Send

\* A connection past its handshake gains no row.
LEMMA HeldBefore ==
  ASSUME RowsMove, NEW r \in Rows, NEW d \in Conns, conn[d].pc \in Departed, HeldBy(r, d)'
  PROVE  HeldBy(r, d)
  BY Zenon DEF RowsMove, HeldBy, Departed

\* While a resume of row r is under way, whoever else acts on r contests it.
LEMMA OfferContested ==
  ASSUME TypeOK, OwnInv, Resuming, NEW c \in Conns, conn[c].resumed, conn[c].pc \in Activating,
         NEW d \in Conns, conn[d].pc \in Departed, conn[d].row = conn[c].prev, Contending(d),
         conn[c].prev \notin contested'
  PROVE  FALSE
<1>1. d # c
  BY Zenon DEF Activating, Departed
<1>2. HeldBy(conn[c].prev, d) /\ conn[c].pc \in {"registering", "publishing", "completing"}
  BY <1>1, ActsAlone DEF Activating
<1>3. conn[c].row # NoRow /\ conn[c].row = conn[c].prev
  BY <1>2, Zenon DEF OwnInv, PastHandshake, Resuming, ResumingAt
<1>4. rows[conn[c].row].status = "terminated" \/ HeldBy(conn[c].row, c)
  BY <1>2, <1>3, Zenon DEF OwnInv, RowKept, Holding
<1> QED BY <1>1, <1>2, <1>3, <1>4 DEF HeldBy

\* A step keeps what a resume offered in the journal of its row.
LEMMA OfferCoveredStep ==
  ASSUME TypeOK, OwnInv, Resuming, SendersLate, IssueInv, OfferCovered,
         Frames, OffersStay, RowsMove, ActivationMoves
  PROVE  OfferCovered'
<1> SUFFICES ASSUME NEW c \in Conns, conn'[c].resumed, conn'[c].pc \in Activating,
                    rows'[conn'[c].prev].status # "terminated", conn'[c].prev \notin contested',
                    NEW e \in conn'[c].offer
             PROVE  e \in journal'[conn'[c].prev]
  BY DEF OfferCovered, Activating
<1>1. CASE OfferResume(c)
  <2>1. conn[c].pc = "loading" /\ conn[c].prev \in Rows
    BY <1>1, Zenon DEF OfferResume, Resuming, ResumingAt
  <2>2. PICK K \in SUBSET Lost(conn[c].prev) :
          /\ conn'[c].prev = conn[c].prev /\ conn'[c].offer = journal[conn[c].prev] \ Lost(conn[c].prev)
          /\ journal' = [journal EXCEPT ![conn[c].prev] = @ \ (Lost(conn[c].prev) \ K)]
    BY <1>1, <2>1, ConnSteps, Zenon DEF Moves, Effect, Activating
  <2> QED BY <2>1, <2>2 DEF TypeOK
<1>2. CASE ~OfferResume(c)
  <2> DEFINE r == conn[c].prev
  <2>1. conn[c].pc \in Activating /\ conn[c].resumed
    BY <1>2 DEF ActivationMoves
  <2>2. r \in Rows
    BY <2>1, Zenon DEF Resuming, ResumingAt
  <2>3. conn'[c].prev = r /\ e \in conn[c].offer
    BY <1>2 DEF OffersStay
  <2>4. rows[r].status # "terminated" /\ r \notin contested
    BY <2>2, <2>3, ContestedGrows DEF RowsMove
  <2>5. e \in journal[r]
    BY <2>1, <2>3, <2>4 DEF OfferCovered
  <2>6. e \in Ops
    BY <2>2, <2>5 DEF TypeOK
  <2>7. Issue(r, e) \notin unreadable
    BY <2>3 DEF IssueInv, OfferIssued
  <2>8. e \notin Lost(r)
    BY <2>7 DEF Lost, Issue
  <2>9. \A d \in Conns : conn[d].pc \in Departed /\ conn[d].row = r => ~Contending(d)
    BY <2>1, <2>3, OfferContested
  <2>10. \A t \in senders : t.conn \in Conns /\ conn[t.conn].pc \in Departed
    BY DEF TypeOK, SenderType, SendersLate
  <2>11. \A d \in Conns : Answer(d) => conn[d].pc \in Departed
    BY DEF Answer, Departed
  <2>12. LiveHolds /\ PastHandshake
    BY DEF OwnInv
  <2> HIDE DEF r
  <2>13. e \in journal'[r]
    <3> SUFFICES ASSUME e \notin journal'[r] PROVE FALSE
      OBVIOUS
    <3>1. rows'[r].status # "terminated"
      BY <2>3
    <3>2. \/ e \in Lost(r)
          \/ \E t \in senders : conn[t.conn].row = r /\ Contending(t.conn)
          \/ \E d \in Conns : Answer(d) /\ conn[d].row = r /\ Contending(d)
      BY <2>2, <2>5, <2>12, <3>1, JournalLoss
    <3> QED BY <2>8, <2>9, <2>10, <2>11, <3>2
  <2> QED BY <2>3, <2>13
<1> QED BY <1>1, <1>2

\* A step keeps every open operation in the journal of its row.
LEMMA CoversStep ==
  ASSUME TypeOK, OwnInv, Resuming, SendersLate, IssueInv, CounterInv, OfferCovered, SendCovered, JournalCoversOpen,
         Frames, RowsMove
  PROVE  JournalCoversOpen'
<1> SUFFICES ASSUME NEW w \in open', rows'[w.row].status # "terminated", w.row \notin contested'
             PROVE  [id |-> w.id, by |-> w.by] \in journal'[w.row]
  BY Zenon DEF JournalCoversOpen
<1>0. LiveHolds /\ PastHandshake /\ \A t \in senders : t.conn \in Conns
  BY DEF OwnInv, TypeOK, SenderType
<1>1. CASE w \in open
  <2> DEFINE r == w.row
             e == [id |-> w.id, by |-> w.by]
  <2>1. r \in Rows /\ w \in issued /\ w = [row |-> r, id |-> w.id, by |-> w.by] /\ w.id \in ScIds
    BY <1>1 DEF TypeOK, IssueType, IssueInv, OpenIssued
  <2>2. r \notin contested /\ rows[r].status # "terminated"
    BY <2>1, ContestedGrows DEF RowsMove
  <2>3. e \in journal[r]
    BY <1>1, <2>2 DEF JournalCoversOpen
  <2>4. e.id = w.id
    OBVIOUS
  <2>5. ASSUME NEW t \in senders, conn[t.conn].row = r, t.id = w.id, Contending(t.conn) PROVE w.by = t.conn /\ HeldBy(r, t.conn)
    <3>1. HeldBy(r, t.conn)
      BY <2>5, <1>0, ActsAlone
    <3>2. t.id # 0 /\ t.id \in Int
      BY <2>1, <2>5 DEF ScIds
    <3>3. w.by # t.conn => t.id < w.id
      BY <1>0, <2>1, <2>2, <3>1, <3>2 DEF CounterInv, HolderBelow
    <3> QED BY <2>5, <3>1, <3>2, <3>3
  <2>6. ASSUME e \notin journal'[r] PROVE FALSE
    <3> HIDE DEF r, e
    <3>0. rows'[r].status # "terminated"
      BY DEF r
    <3>1. ~SettledId(r, e.id)
      BY <2>4 DEF SettledId, r
    <3>4. PICK t \in senders :
            /\ conn[t.conn].row = r /\ e.id = t.id /\ Contending(t.conn)
            /\ (Record(t) /\ RecordOf(t) \in journal'[r]) \/ (Send(t) /\ t.pc = "recorded")
      BY <1>0, <2>1, <2>3, <2>6, <3>0, <3>1, JournalLoss DEF Send
    <3>5. w.by = t.conn /\ HeldBy(r, t.conn)
      BY <2>4, <2>5, <3>4
    <3>6. RecordOf(t) = e /\ FrameOf(t) = w
      BY <2>1, <2>4, <3>4, <3>5 DEF e, FrameOf, RecordOf
    <3>7. ~Send(t)
      BY <1>1, <2>2, <3>4, <3>5, <3>6 DEF SendCovered
    <3> QED BY <2>6, <3>4, <3>6, <3>7
  <2> QED BY <2>6
<1>2. CASE w \notin open
  <2>1. ASSUME NEW c \in Conns, conn[c].pc = "completing", journal' = journal,
               NEW e \in conn[c].offer, w = Issue(conn[c].row, e)
        PROVE  [id |-> w.id, by |-> w.by] \in journal'[w.row]
    <3>1. conn[c].resumed /\ conn[c].row \in Rows /\ conn[c].row = conn[c].prev
      BY <1>0, <2>1, Zenon DEF Resuming, ResumingAt, PastHandshake, TypeOK, ConnType
    <3>2. w.row = conn[c].row /\ w.id = e.id /\ w.by = e.by
      BY <2>1 DEF Issue
    <3>3. rows[w.row].status # "terminated" /\ w.row \notin contested
      BY <3>1, <3>2, ContestedGrows DEF RowsMove
    <3>4. e \in journal[w.row]
      BY <2>1, <3>1, <3>2, <3>3 DEF OfferCovered, Activating
    <3>5. e \in Ops
      BY <3>1, <3>2, <3>4 DEF TypeOK
    <3>6. e = [id |-> w.id, by |-> w.by]
      BY <3>2, <3>5 DEF Ops
    <3> QED BY <2>1, <3>4, <3>6
  <2>2. ASSUME NEW t \in senders, t.pc = "recorded", Contending(t.conn), journal' = journal, w = FrameOf(t)
        PROVE  [id |-> w.id, by |-> w.by] \in journal'[w.row]
    <3>1. w.row = conn[t.conn].row /\ w.id = t.id /\ w.by = t.conn
      BY <2>2 DEF FrameOf
    <3>2. HeldBy(w.row, t.conn)
      BY <1>0, <2>2, <3>1, ActsAlone
    <3>3. w.row \notin contested
      BY ContestedGrows
    <3> QED BY <2>2, <3>1, <3>2, <3>3 DEF SendCovered, RecordOf
  <2> QED BY <1>2, <2>1, <2>2, OpenGain DEF FrameOf
<1> QED BY <1>1, <1>2

\* A step keeps what was offered and is open in the cache of the connection that resumed it.
LEMMA ReissuedStep ==
  ASSUME TypeOK, OwnInv, Resuming, SendersLate, IssueInv, CounterInv, ReissuedCached,
         DepartedStays, Frames, OffersStay, ActivationMoves
  PROVE  ReissuedCached'
<1> SUFFICES ASSUME NEW c \in Conns, conn'[c].pc = "complete", conn'[c].row \notin contested',
                    NEW e \in conn'[c].offer, Issue(conn'[c].row, e) \in open'
             PROVE  e.id \in cache'[c]
  BY DEF ReissuedCached, Issue
<1>0. LiveHolds /\ PastHandshake /\ \A t \in senders : t.conn \in Conns
  BY DEF OwnInv, TypeOK, SenderType
<1>1. CASE CompleteHandshake(c)
  <2>1. conn[c].pc = "completing" /\ cache' = [cache EXCEPT ![c] = {x.id : x \in conn[c].offer}]
    BY <1>1 DEF CompleteHandshake, Hydrated
  <2>2. conn'[c].offer = conn[c].offer
    BY <2>1 DEF OffersStay
  <2> QED BY <2>1, <2>2 DEF TypeOK
<1>2. CASE ~CompleteHandshake(c)
  <2> DEFINE r == conn[c].row
             x == Issue(r, e)
  <2>1. conn[c].pc = "complete"
    BY <1>2 DEF ActivationMoves
  <2>2. r # NoRow /\ r \in Rows /\ conn'[c].row = r /\ x \in open'
    BY <1>0, <2>1, Zenon DEF PastHandshake, DepartedStays, Departed, TypeOK, ConnType
  <2>3. e \in conn[c].offer /\ e.by # c
    BY <2>1 DEF OffersStay, IssueInv, OfferIssued
  <2>4. r \notin contested'/\ r \notin contested
    BY <2>2, ContestedGrows
  <2>5. rows[r].status = "terminated" \/ HeldBy(r, c)
    BY <2>1, <2>2, Zenon DEF OwnInv, RowKept, Holding
  <2>6. x.row = r /\ x.id = e.id /\ x.by = e.by
    BY DEF Issue
  <2>7. x \in open
    <3> SUFFICES ASSUME x \notin open PROVE FALSE
      OBVIOUS
    <3>1. ASSUME NEW d \in Conns, conn[d].pc = "completing", NEW y \in conn[d].offer, x = Issue(conn[d].row, y)
          PROVE  FALSE
      <4>1. conn[d].row = r
        BY <3>1 DEF Issue
      <4>2. d = c
        BY <2>1, <2>2, <3>1, <4>1, Zenon DEF OwnInv, OneHolder, Holding
      <4> QED BY <2>1, <3>1, <4>2
    <3>2. ASSUME NEW t \in senders, Contending(t.conn), x = [row |-> conn[t.conn].row, id |-> t.id, by |-> t.conn]
          PROVE  FALSE
      <4>1. conn[t.conn].row = r /\ t.conn = e.by
        BY <2>6, <3>2
      <4>2. HeldBy(r, t.conn)
        BY <1>0, <2>4, <3>2, <4>1, ActsAlone
      <4> QED BY <2>3, <2>5, <4>1, <4>2 DEF HeldBy
    <3> HIDE DEF x
    <3> QED BY <2>2, <3>1, <3>2, OpenGain
  <2>8. e.id \in cache[c]
    BY <2>1, <2>3, <2>4, <2>7 DEF ReissuedCached
  <2>9. ASSUME NEW d \in Conns, Answer(d) PROVE e.id \in cache'[c]
    <3>1. CASE cache' = cache
      BY <2>8, <3>1
    <3>2. CASE cache' # cache
      <4>1. PICK w \in open : /\ w.row = conn[d].row
                              /\ cache' = [cache EXCEPT ![d] = @ \ {w.id}]
                              /\ open' = {y \in open : y.row # w.row \/ y.id # w.id}
        BY <2>9, <3>2 DEF Answer
      <4>2. d = c => w.id # e.id
        BY <2>2, <2>6, <4>1
      <4> QED BY <2>8, <4>1, <4>2 DEF TypeOK
    <3> QED BY <3>1, <3>2
  <2>10. ASSUME NEW t \in senders, Send(t) PROVE e.id \in cache'[c]
    <3>1. CASE cache' = cache
      BY <2>8, <3>1
    <3>2. CASE cache' # cache
      <4>1. cache' = [cache EXCEPT ![t.conn] = @ \ {t.id}] /\ Contending(t.conn) /\ t.pc = "recorded"
        BY <2>10, <3>2 DEF Send
      <4>2. ASSUME t.conn = c PROVE t.id # e.id
        <5>1. HeldBy(r, c)
          BY <2>4, <4>1, <4>2, ActsAlone
        <5>2. x \in issued /\ e.id \in Int /\ t.id # 0
          BY <2>6, <2>7, <4>1 DEF IssueInv, OpenIssued, TypeOK, IssueType, ScIds, SendersLate
        <5>3. t.id < e.id
          BY <2>3, <2>4, <2>6, <4>2, <5>1, <5>2 DEF CounterInv, HolderBelow
        <5> QED BY <5>2, <5>3
      <4> QED BY <2>8, <4>1, <4>2 DEF TypeOK
    <3> QED BY <3>1, <3>2
  <2>11. ASSUME NEW t \in senders, Record(t) PROVE e.id \in cache'[c]
    BY <1>0, <2>8, <2>11 DEF Record, TypeOK
  <2>12. ASSUME NEW d \in Conns, CompleteHandshake(d) PROVE e.id \in cache'[c]
    BY <1>2, <2>8, <2>12 DEF CompleteHandshake, Hydrated, TypeOK
  <2>13. ASSUME NEW d \in Conns, Evict(d) PROVE e.id \in cache'[c]
    BY <2>1, <2>8, <2>13 DEF Evict, TypeOK
  <2>14. ~Crash
    BY MoreConnSteps
  <2> HIDE DEF r, x
  <2> QED BY <2>8, <2>9, <2>10, <2>11, <2>12, <2>13, <2>14 DEF Frames
<1> QED BY <1>1, <1>2

\* A step keeps a send between its record and its frame covered by the journal.
LEMMA SendCoveredStep ==
  ASSUME TypeOK, TypeOK', OwnInv, Resuming, SendersLate, SendersApart, IssueInv, CounterInv, SendCovered,
         DepartedStays, Frames, RowsMove, SendersMove
  PROVE  SendCovered'
<1> SUFFICES ASSUME NEW u \in senders', HeldBy(conn[u.conn].row, u.conn)', conn'[u.conn].row \notin contested'
             PROVE  /\ u.pc = "recorded" => RecordOf(u) \in journal'[conn'[u.conn].row]
                    /\ [row |-> conn'[u.conn].row, id |-> u.id, by |-> u.conn] \notin open'
  BY DEF SendCovered, FrameOf, RecordOf
<1>0. LiveHolds /\ PastHandshake /\ \A t \in senders : t.conn \in Conns
  BY DEF OwnInv, TypeOK, SenderType
<1>l. CASE u.id = 0 /\ u.pc = "found"
  <2>1. \A w \in open' : w.id \in ScIds
    BY DEF TypeOK, IssueType
  <2>2. 0 \notin ScIds
    BY DEF ScIds
  <2> QED BY <1>l, <2>1, <2>2
<1>n. ASSUME NEW t \in senders, t.conn = u.conn
      PROVE  /\ conn'[u.conn].row = conn[u.conn].row /\ conn[u.conn].row \in Rows /\ u.conn \in Conns
             /\ HeldBy(conn[u.conn].row, u.conn)
             /\ conn[u.conn].row \notin contested /\ conn[u.conn].row \notin contested'
             /\ rows'[conn[u.conn].row].status # "terminated"
  <2>1. u.conn \in Conns /\ conn[u.conn].pc \in Departed /\ conn[u.conn].row # NoRow
    BY <1>0, <1>n DEF SendersLate
  <2>2. conn'[u.conn].row = conn[u.conn].row /\ conn[u.conn].row \in Rows
    BY <2>1 DEF DepartedStays, TypeOK, ConnType
  <2>3. rows'[conn[u.conn].row].status = "active" /\ rows'[conn[u.conn].row].conn = u.conn
    BY <2>2 DEF HeldBy
  <2>4. HeldBy(conn[u.conn].row, u.conn)
    BY <2>1, <2>2, <2>3, HeldBefore DEF HeldBy
  <2> QED BY <2>1, <2>2, <2>3, <2>4, ContestedGrows
<1> DEFINE c == u.conn
           r == conn[u.conn].row
           x == [row |-> r, id |-> u.id, by |-> c]
\* No frame of the operation leaves while the operation is being prepared.
<1>f. ASSUME NEW t \in senders, t.conn = c, x \notin open, t.id = u.id
      PROVE  x \notin open'
  <2> SUFFICES ASSUME x \in open' PROVE FALSE
    OBVIOUS
  <2>0. x.row = r /\ x.id = u.id /\ x.by = c
    OBVIOUS
  <2>1. HeldBy(r, c) /\ c \in Conns /\ r \in Rows
    BY <1>f, <1>n
  <2>2. ASSUME NEW d \in Conns, conn[d].pc = "completing", NEW e \in conn[d].offer, x = Issue(conn[d].row, e)
        PROVE  FALSE
    <3>1. conn[d].row = r /\ e.by = c /\ d # c
      BY <2>0, <2>2 DEF Issue, IssueInv, OfferIssued
    <3>2. rows[r].status = "terminated" \/ HeldBy(r, d)
      BY <1>0, <2>2, <3>1, Zenon DEF OwnInv, RowKept, Holding, PastHandshake
    <3> QED BY <2>1, <3>1, <3>2 DEF HeldBy
  <2>3. ASSUME NEW v \in senders, senders' = senders \ {v}, x = [row |-> conn[v.conn].row, id |-> v.id, by |-> v.conn]
        PROVE  FALSE
    <3>1. v.conn = c /\ v.id = u.id
      BY <2>0, <2>3
    <3> QED BY <2>3, <3>1 DEF SendersApart
  <2> HIDE DEF x
  <2> QED BY <1>f, <2>2, <2>3, OpenGain
<1>k. ASSUME u \in senders
      PROVE  u.pc = "recorded" => RecordOf(u) \in journal'[r]
  <2> SUFFICES ASSUME u.pc = "recorded", RecordOf(u) \notin journal'[r] PROVE FALSE
    OBVIOUS
  <2>1. HeldBy(r, c) /\ c \in Conns /\ r \in Rows /\ r \notin contested /\ r \notin contested'
        /\ rows'[r].status # "terminated"
    BY <1>k, <1>n
  <2>2. RecordOf(u) \in journal[r] /\ x \notin open
    BY <1>k, <2>1 DEF SendCovered, FrameOf
  <2>3. RecordOf(u).id = u.id /\ RecordOf(u).by = c
    BY DEF RecordOf
  <2>4. RecordOf(u) \notin Lost(r)
    BY <1>k, <2>3 DEF Lost, IssueInv, UnreadableOld
  <2>5. ASSUME NEW t \in senders, conn[t.conn].row = r, t.id = u.id, Contending(t.conn), Record(t) \/ Send(t)
        PROVE  FALSE
    <3>1. HeldBy(r, t.conn)
      BY <1>0, <2>1, <2>5, ActsAlone
    <3>2. t = u
      BY <1>k, <2>1, <2>5, <3>1 DEF HeldBy, SendersApart
    <3>3. t.pc = "counted" \/ senders' = senders \ {t}
      BY <2>5 DEF Record, Send
    <3> QED BY <3>2, <3>3
  <2>6. ASSUME NEW d \in Conns, conn[d].row = r, Contending(d), NEW w \in open, w.row = r, w.id = u.id
        PROVE  FALSE
    <3>1. d = c
      BY <2>1, <2>6, ActsAlone DEF HeldBy
    <3>2. w \in issued /\ w = [row |-> w.row, id |-> w.id, by |-> w.by] /\ w.id \in ScIds
      BY DEF TypeOK, IssueType, IssueInv, OpenIssued
    <3>3. w.by # c
      BY <2>2, <2>6, <3>2
    <3>4. u.id # 0 /\ u.id \in Int
      BY <2>6, <3>2 DEF ScIds
    <3>5. u.id < w.id
      BY <1>k, <2>1, <2>6, <3>2, <3>3, <3>4 DEF CounterInv, HolderBelow
    <3> QED BY <2>6, <3>4, <3>5
  <2> HIDE DEF r, c, x
  <2> QED BY <1>0, <2>1, <2>2, <2>3, <2>4, <2>5, <2>6, JournalLoss
<1>1. CASE u \in senders
  <2>1. conn'[u.conn].row = r /\ HeldBy(r, c) /\ r \notin contested
    BY <1>1, <1>n
  <2>2. x \notin open
    BY <1>1, <2>1 DEF SendCovered, FrameOf
  <2>3. x \notin open'
    BY <1>1, <1>f, <2>2
  <2> QED BY <1>1, <1>k, <2>1, <2>3
<1>2. ASSUME NEW t \in senders, u.conn = t.conn, Allocate(t), u.id = conn[t.conn].lastSc - 1, u.pc = "allocated"
      PROVE  [row |-> conn'[u.conn].row, id |-> u.id, by |-> u.conn] \notin open'
  <2>1. conn'[u.conn].row = r /\ c \in Conns
    BY <1>2, <1>n
  <2>2. open' = open
    BY <1>2 DEF Allocate
  <2>3. conn[c].lastSc \in Int
    BY <2>1 DEF TypeOK, ConnType, ScIds
  <2>4. x \notin issued
    BY <1>2, <2>3 DEF IssueInv, IssuedBy
  <2> QED BY <2>1, <2>2, <2>4 DEF IssueInv, OpenIssued
<1>3. ASSUME NEW t \in senders, u.conn = t.conn, u.id = t.id
      PROVE  [row |-> conn'[u.conn].row, id |-> u.id, by |-> u.conn] \notin open'
  <2>1. conn'[u.conn].row = r /\ HeldBy(r, c) /\ r \notin contested
    BY <1>3, <1>n
  <2>2. x \notin open
    BY <1>3, <2>1 DEF SendCovered, FrameOf
  <2>3. x \notin open'
    BY <1>3, <1>f, <2>2
  <2> QED BY <2>1, <2>3
<1>4. ASSUME NEW t \in senders, u.conn = t.conn, Recorded(t), u.id = t.id
      PROVE  RecordOf(u) \in journal'[conn'[u.conn].row]
  <2>1. conn'[u.conn].row = r /\ r \in Rows
    BY <1>4, <1>n
  <2>2. RecordOf(u) = [id |-> t.id, by |-> t.conn]
    BY <1>4 DEF RecordOf
  <2> DEFINE m == [id |-> t.id, by |-> t.conn]
  <2>3. journal' = [journal EXCEPT ![r] = {y \in @ : y.id # m.id} \cup {m}]
    BY <1>4 DEF Recorded, Upsert
  <2>4. m \in journal'[r]
    <3> HIDE DEF m, r
    <3> QED BY <2>1, <2>3 DEF TypeOK
  <2> QED BY <2>1, <2>2, <2>4
<1> HIDE DEF c, r, x
<1> QED BY <1>l, <1>1, <1>2, <1>3, <1>4 DEF SendersMove

\* The journal covers what may still be answered, at every step.
LEMMA JournalInvStep ==
  ASSUME TypeOK, TypeOK', OwnInv, Resuming, SendersLate, SendersApart, IssueInv, CounterInv, JournalInv,
         DepartedStays, Frames, OffersStay, RowsMove, SendersMove, ActivationMoves
  PROVE  JournalInv'
<1>1. OfferCovered /\ SendCovered /\ ReissuedCached /\ JournalCoversOpen
  BY DEF JournalInv
<1> QED BY <1>1, OfferCoveredStep, SendCoveredStep, ReissuedStep, CoversStep DEF JournalInv

-----------------------------------------------------------------------------
(* The theorems.                                                           *)

Inv == TypeOK /\ OwnInv /\ Resuming /\ SendersLate /\ SendersApart /\ IssueInv /\ CounterInv /\ JournalInv

\* The invariant holds at the first start.
LEMMA InitInv == ASSUME Init PROVE Inv
<1>1. (CHOOSE u \in Uuids : TRUE) \in Uuids
  BY SessionAssumption
<1>2. MaxRows \in Nat /\ MaxScOps \in Nat /\ MaxFaults \in Nat /\ MaxCrashes \in Nat
  BY SessionAssumption
<1>3. Absent \in RowType
  BY <1>1 DEF Absent, RowType
<1>4. Unconnected \in ConnType
  BY <1>1 DEF Unconnected, ConnType, Steps
<1>5. TypeOK
  BY <1>2, <1>3, <1>4 DEF Init, TypeOK
<1>6. /\ \A r \in Rows : rows[r].status = "absent" /\ journal[r] = {}
      /\ \A c \in Conns : /\ conn[c].pc = "idle" /\ conn[c].row = NoRow /\ conn[c].offer = {} /\ conn[c].resumed = FALSE
                          /\ conn[c].prev = NoRow /\ conn[c].sock = FALSE
      /\ senders = {} /\ issued = {} /\ open = {} /\ unreadable = {} /\ live = {} /\ up
  BY DEF Init, Absent, Unconnected
<1>7. OwnInv
  BY <1>6, Zenon DEF OwnInv, Quiescent, LiveHolds, RowLater, RowThere, PastHandshake, RowKept, OneHolder, HolderRow, SockLive,
              Holding, HeldBy
<1>8. Resuming /\ SendersLate /\ SendersApart
  BY <1>6, Zenon DEF Resuming, ResumingAt, SendersLate, SendersApart
<1>9. IssueInv /\ CounterInv
  BY <1>6 DEF IssueInv, IssuedBy, OpenIssued, JournalIssued, RecordedIssued, OfferIssued, UnreadableOld,
              CounterInv, SendCounted, IssueCounted, ClaimCounted, HolderBelow, IdsUsedOnce
<1>10. JournalInv
  BY <1>6 DEF JournalInv, OfferCovered, SendCovered, ReissuedCached, JournalCoversOpen, Activating
<1> QED BY <1>5, <1>7, <1>8, <1>9, <1>10 DEF Inv

\* Nothing changes, and the invariant stays.
LEMMA StutterInv == ASSUME Inv, UNCHANGED vars PROVE Inv'
<1> USE DEF vars
<1>1. TypeOK'
  BY DEF Inv, TypeOK
<1>2. OwnInv'
  BY Zenon DEF Inv, OwnInv, Quiescent, LiveHolds, RowLater, RowThere, PastHandshake, RowKept, OneHolder, HolderRow, SockLive, HeldBy
<1>3. Resuming' /\ SendersLate' /\ SendersApart'
  BY Zenon DEF Inv, Resuming, ResumingAt, SendersLate, SendersApart
<1>4. IssueInv'
  BY DEF Inv, IssueInv, IssuedBy, OpenIssued, JournalIssued, RecordedIssued, OfferIssued, UnreadableOld, Issue
<1>5. CounterInv'
  BY DEF Inv, CounterInv, SendCounted, IssueCounted, ClaimCounted, HolderBelow, IdsUsedOnce, HeldBy
<1>6. JournalInv'
  BY DEF Inv, JournalInv, OfferCovered, SendCovered, ReissuedCached, JournalCoversOpen, HeldBy, FrameOf, Issue
<1> QED BY <1>1, <1>2, <1>3, <1>4, <1>5, <1>6 DEF Inv

\* Every step keeps the invariant.
LEMMA StepInv == ASSUME Inv, Next PROVE Inv'
<1>1. TypeOK /\ OwnInv /\ Resuming /\ SendersLate /\ SendersApart /\ IssueInv /\ CounterInv /\ JournalInv
  BY DEF Inv
<1>2. PastHandshake /\ LiveHolds /\ RowLater
  BY <1>1 DEF OwnInv
<1>3. TypeOK'
  BY <1>1, <1>2, ConnTypes, RowTypes, RestTypes DEF RestType, TypeOK
<1>4. DepartedStays /\ Frames /\ OffersStay /\ RowsMove /\ CountersMove /\ ActivationMoves
  BY <1>1, <1>2, DepartedStep, FrameStep, OfferStep, RowsMoveStep, CountersMoveStep, ActivationStep
<1>5. SendersMove
  BY <1>1, <1>2, <1>4, SendersMoveStep
<1>6. OwnInv' /\ Resuming'
  BY <1>1, <1>2, OwnStep, ResumeStep
<1>7. SendersLate' /\ SendersApart'
  BY <1>1, <1>2, <1>3, <1>4, SendersStep
<1>8. IssueInv'
  BY <1>1, <1>3, <1>4, IssueStep
<1>9. CounterInv'
  BY <1>1, <1>3, <1>4, <1>5, CounterStep
<1>10. JournalInv'
  BY <1>1, <1>3, <1>4, <1>5, JournalInvStep
<1> QED BY <1>3, <1>6, <1>7, <1>8, <1>9, <1>10 DEF Inv

\* The invariant of every behaviour: what the rows, the connections, the
\* senders and the journal of a station have to do with one another.
THEOREM SessionInvariant == Spec => []Inv
<1>1. Inv /\ [Next]_vars => Inv'
  BY StepInv, StutterInv
<1> QED BY <1>1, InitInv, PTL DEF Spec

\* The state of the BSSCI server's sessions keeps its types: no step of a
\* handler indexes a row or an operation that is not there.
THEOREM TypeCorrect == Spec => []TypeOK
<1>1. Inv => TypeOK
  BY DEF Inv
<1> QED BY <1>1, SessionInvariant, PTL

\* The connection the registry knows has its row, and no other connection can
\* be written to, for any number of connections, rows, faults and crashes.
THEOREM StationNotShared == Spec => []OneOwner
<1>1. Inv => OneOwner
  <2> SUFFICES ASSUME Inv PROVE OneOwner
    OBVIOUS
  <2>1. LiveHolds /\ RowKept /\ SockLive /\ live \subseteq Conns
    BY DEF Inv, OwnInv, TypeOK
  <2>2. LiveOwnsRow
    BY <2>1, Zenon DEF LiveOwnsRow, LiveHolds, RowKept, Holding, HeldBy
  <2>3. OneLiveSocket
    BY <2>1 DEF OneLiveSocket, SockLive
  <2> QED BY <2>2, <2>3 DEF OneOwner
<1> QED BY <1>1, SessionInvariant, PTL

\* No id is used for two operations of a session, across all resumes of it.
THEOREM OperationIdsUnique == Spec => []IdsUsedOnce
<1>1. Inv => IdsUsedOnce
  BY DEF Inv, CounterInv
<1> QED BY <1>1, SessionInvariant, PTL

\* A frame that may have left stays on record until it is settled, so a later
\* resume of the session reissues it.
THEOREM OpenIsJournalled == Spec => []JournalCoversOpen
<1>1. Inv => JournalCoversOpen
  BY DEF Inv, JournalInv
<1> QED BY <1>1, SessionInvariant, PTL

\* The answer to a reissued operation finds it in the cache.
THEOREM AnswersFindReissued == Spec => []ReissuedIsCached
<1>1. Inv => ReissuedIsCached
  BY DEF Inv, JournalInv, ReissuedCached, ReissuedIsCached, TypeOK, Issue
<1> QED BY <1>1, SessionInvariant, PTL

\* A terminated row stays terminated: no late claim, teardown or
\* reconciliation brings the session back.
THEOREM TerminationIsFinal == Spec => TerminatedIsFinal
<1> DEFINE Final == \A r \in Rows : rows[r].status = "terminated" => rows'[r].status = "terminated"
<1>1. Inv /\ [Next]_vars => [Final]_vars
  <2> SUFFICES ASSUME Inv, Next PROVE Final
    OBVIOUS
  <2>1. RowsMove
    BY RowsMoveStep DEF Inv, OwnInv
  <2> QED BY <2>1 DEF RowsMove
<1> QED BY <1>1, SessionInvariant, PTL DEF Spec, TerminatedIsFinal

=============================================================================
