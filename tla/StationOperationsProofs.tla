---------------------- MODULE StationOperationsProofs ----------------------
(***************************************************************************)
(* Proofs about StationOperations, for any number of connections,          *)
(* operations, faults and crashes.  First what each step does to the       *)
(* fields of the state, then the inductive invariant, then the theorems.   *)
(***************************************************************************)
EXTENDS StationOperations, TLAPS, WellFoundedInduction, FiniteSetTheorems

-----------------------------------------------------------------------------
(* The operators of the model.                                             *)

\* The larger of two numbers (Store, OpenOperation).
LEMMA MaxOfTwo ==
  ASSUME NEW a \in Int, NEW b \in Int
  PROVE  Max({a, b}) \in {a, b} /\ Max({a, b}) >= a /\ Max({a, b}) >= b
<1>1. \E x \in {a, b} : \A y \in {a, b} : x >= y
  OBVIOUS
<1> QED BY <1>1 DEF Max

\* A set of operation ids has a smallest one (Reissue, Finish).
LEMMA MinOfSome ==
  ASSUME NEW S \in SUBSET Ids, S # {}
  PROVE  Min(S) \in S
<1> DEFINE Less == {p \in Nat \X Nat : p[1] < p[2]}
<1>1. IsWellFoundedOn(Less, Nat)
  BY NatLessThanWellFounded DEF OpToRel
<1>2. S \subseteq Nat
  BY OperationsAssumption DEF Ids
<1>3. \E x \in S : \A y \in S : ~(<<y, x>> \in Less)
  <2> HIDE DEF Less
  <2> QED BY <1>1, <1>2, WFMin
<1>4. PICK x \in S : \A y \in S : ~(<<y, x>> \in Less)
  BY <1>3
<1>5. ASSUME NEW y \in S PROVE x <= y
  <2>1. x \in Nat /\ y \in Nat /\ <<y, x>> \in Nat \X Nat
    BY <1>2
  <2>2. ~(y < x)
    BY <1>4, <2>1
  <2> QED BY <2>1, <2>2
<1> QED BY <1>5 DEF Min

\* A frame more on the link (Transmit).
LEMMA TransmitType ==
  ASSUME TypeOK, NEW cmd \in {"open", "close", "error"}, NEW n \in Ids, Transmit(cmd, n)
  PROVE  link' \in LinkType
<1>1. [cmd |-> cmd, id |-> n] \in FrameType
  BY DEF FrameType
<1>2. link.frames \in Seq(FrameType)
  BY DEF TypeOK, LinkType
<1>3. Append(link.frames, [cmd |-> cmd, id |-> n]) \in Seq(FrameType)
  BY <1>1, <1>2
<1> HIDE DEF FrameType
<1> QED BY <1>3 DEF TypeOK, LinkType, Transmit

\* A frame less on the link (Rest).
LEMMA RestType ==
  ASSUME TypeOK, link.frames # <<>>
  PROVE  Rest \in LinkType /\ Frame \in FrameType
<1>1. link.frames \in Seq(FrameType)
  BY DEF TypeOK, LinkType
<1>2. Tail(link.frames) \in Seq(FrameType) /\ Head(link.frames) \in FrameType
  BY <1>1
<1> QED BY <1>2 DEF TypeOK, LinkType, Rest, Frame

\* The absent link has the type of one.
LEMMA DownType == Down \in LinkType
<1>1. <<>> \in Seq(FrameType)
  OBVIOUS
<1> QED BY <1>1 DEF Down, LinkType

-----------------------------------------------------------------------------
(* What the steps do to the fields of the state.                           *)

MemIs(c, p, l, o) ==
  /\ mem' \in [Conns -> MemType]
  /\ \A d \in Conns : /\ d # c => mem'[d] = mem[d]
                      /\ d = c => mem'[d].pc = p /\ mem'[d].last = l /\ mem'[d].open = o
RowIs(s, b) == row' \in RowType /\ \A x \in RowType : x = row' => x.status = s /\ x.bsOp = b
LinkIs(k, f, r) ==
  link' \in LinkType /\ \A x \in LinkType : x = link' => x.conn = k /\ x.frames = f /\ x.replies = r
StationIs(l, o, a, t) ==
  /\ station' \in StationType
  /\ \A x \in StationType : x = station' => x.last = l /\ x.open = o /\ x.answered = a /\ x.todo = t
FlushIs(c, u, v) ==
  /\ flush' \in [Conns -> FlushType]
  /\ \A d \in Conns : /\ d # c => flush'[d] = flush[d]
                      /\ d = c => (flush'[d].running <=> u) /\ flush'[d].read = v

\* A failing write is counted.
LEMMA FaultType ==
  ASSUME TypeOK, Fault \/ UNCHANGED faults
  PROVE  faults' \in 0..MaxFaults /\ faults' >= faults /\ (Fault => faults' # 0)
  BY OperationsAssumption DEF TypeOK, Fault

\* What Connect does to the fields of the state.
LEMMA ConnectStep ==
  ASSUME TypeOK, NEW c \in Conns, Connect(c)
  PROVE  /\ link = Down /\ mem[c].pc = "unused" /\ row.status = "disconnected"
         /\ UNCHANGED <<flush, station, refused, overtaken, faults, crashes>>
         /\ \/ /\ Consistent /\ MemIs(c, "offered", row.bsOp, {}) /\ UNCHANGED row
               /\ LinkIs(c, <<>>, {})
            \/ ~Consistent /\ UNCHANGED <<mem, link>> /\ RowIs("terminated", row.bsOp)
<1>1. CASE Consistent /\ mem' = [mem EXCEPT ![c] = [pc |-> "offered", last |-> row.bsOp, open |-> {}, offer |-> row.ops]]
           /\ link' = [Down EXCEPT !.conn = c] /\ UNCHANGED row
  <2>1. MemIs(c, "offered", row.bsOp, {})
    BY <1>1 DEF MemIs, TypeOK, RowType, MemType
  <2>2. LinkIs(c, <<>>, {})
    BY <1>1, DownType DEF LinkIs, LinkType, Down
  <2> QED BY <1>1, <2>1, <2>2 DEF Connect
<1>2. CASE ~Consistent /\ row' = [row EXCEPT !.status = "terminated", !.ops = {}] /\ UNCHANGED <<mem, link>>
  BY <1>2 DEF Connect, RowIs, TypeOK, RowType
<1> QED BY <1>1, <1>2 DEF Connect

\* What Reread does to the fields of the state.
LEMMA RereadStep ==
  ASSUME TypeOK, NEW c \in Conns, Reread(c)
  PROVE  /\ mem[c].pc = "offered" /\ link.conn = c
         /\ UNCHANGED <<row, flush, link, station, refused, overtaken, faults, crashes>>
         /\ MemIs(c, "claiming", row.bsOp, mem[c].open)
<1>1. row.bsOp \in 0..MaxOps /\ mem[c] \in MemType
  BY DEF TypeOK, RowType
<1> DEFINE b == row.bsOp
<1>2. mem' = [mem EXCEPT ![c].pc = "claiming", ![c].last = b]
  BY DEF Reread
<1>3. MemIs(c, "claiming", b, mem[c].open)
  <2> HIDE DEF b
  <2> QED BY <1>1, <1>2 DEF MemIs, TypeOK, MemType, b
<1> QED BY <1>3 DEF Reread

\* What Claim does to the fields of the state.
LEMMA ClaimStep ==
  ASSUME TypeOK, NEW c \in Conns, Claim(c)
  PROVE  /\ mem[c].pc = "claiming" /\ UNCHANGED <<flush, refused, faults, crashes>>
         /\ \/ /\ row.status = "disconnected" /\ RowIs("active", mem[c].last)
               /\ MemIs(c, "active", mem[c].last, Reopened(c)) /\ UNCHANGED link
               /\ \/ link.conn = c /\ StationIs(station.last, station.open, station.answered, station.open)
                  \/ link.conn # c /\ UNCHANGED station
               /\ overtaken' = (overtaken \/ link.conn # c)
            \/ /\ row.status # "disconnected" /\ MemIs(c, "gone", mem[c].last, mem[c].open)
               /\ UNCHANGED <<row, station, overtaken>>
               /\ \/ link.conn = c /\ link' = Down
                  \/ link.conn # c /\ UNCHANGED link
<1>1. Reopened(c) \subseteq Ids
  <2>1. mem[c].last \in 0..MaxOps /\ mem[c].offer \subseteq Ids
    BY DEF TypeOK, MemType
  <2>2. MaxOps \in Nat
    BY OperationsAssumption
  <2>3. \A n \in 0..MaxOps : n > 0 => n \in Ids
    BY <2>2 DEF Ids
  <2> QED BY <2>1, <2>3 DEF Reopened
<1>2. CASE row.status = "disconnected" /\ row' = [row EXCEPT !.status = "active", !.bsOp = mem[c].last]
           /\ mem' = [mem EXCEPT ![c].pc = "active", ![c].open = Reopened(c)]
  <2>1. RowIs("active", mem[c].last)
    BY <1>2 DEF RowIs, TypeOK, RowType, MemType
  <2>2. MemIs(c, "active", mem[c].last, Reopened(c))
    BY <1>1, <1>2 DEF MemIs, TypeOK, MemType
  <2>3. station' = IF link.conn = c THEN [station EXCEPT !.todo = station.open] ELSE station
    BY <1>2 DEF Claim
  <2>4. \/ link.conn = c /\ StationIs(station.last, station.open, station.answered, station.open)
        \/ link.conn # c /\ UNCHANGED station
    BY <2>3 DEF StationIs, TypeOK, StationType
  <2> QED BY <1>2, <2>1, <2>2, <2>4 DEF Claim
<1>3. CASE row.status # "disconnected" /\ mem' = [mem EXCEPT ![c].pc = "gone"]
  <2>1. MemIs(c, "gone", mem[c].last, mem[c].open)
    BY <1>3 DEF MemIs, TypeOK, MemType
  <2> QED BY <1>3, <2>1 DEF Claim
<1> QED BY <1>2, <1>3 DEF Claim

\* What Transmit does to the fields of the state.
LEMMA TransmitStep ==
  ASSUME TypeOK, NEW cmd \in {"open", "close", "error"}, NEW n \in Ids, Transmit(cmd, n)
  PROVE  LinkIs(link.conn, Append(link.frames, [cmd |-> cmd, id |-> n]), link.replies)
  BY TransmitType DEF Transmit, LinkIs, TypeOK, LinkType

\* What Start does to the fields of the state.
LEMMA StartStep ==
  ASSUME TypeOK, StartOperation
  PROVE  /\ Connected /\ station.todo = {} /\ Cardinality(station.open) < MaxOpen
         /\ station.last + 1 \in Ids
         /\ UNCHANGED <<row, mem, flush, refused, overtaken, faults, crashes>>
         /\ StationIs(station.last + 1, station.open \cup {station.last + 1}, station.answered, station.todo)
         /\ LinkIs(link.conn, Append(link.frames, [cmd |-> "open", id |-> station.last + 1]), link.replies)
<1>1. station.last + 1 \in Ids
  BY OperationsAssumption DEF StartOperation, TypeOK, StationType, Ids
<1>2. station.last + 1 \in 0..MaxOps
  BY <1>1, OperationsAssumption DEF Ids
<1>3. StationIs(station.last + 1, station.open \cup {station.last + 1}, station.answered, station.todo)
  BY <1>1, <1>2 DEF StartOperation, StationIs, TypeOK, StationType
<1> QED BY <1>1, <1>3, TransmitStep DEF StartOperation

\* What Reissue does to the fields of the state.
LEMMA ReissueStep ==
  ASSUME TypeOK, Reissue
  PROVE  /\ Connected /\ Min(station.todo) \in station.todo
         /\ UNCHANGED <<row, mem, flush, refused, overtaken, faults, crashes>>
         /\ StationIs(station.last, station.open, station.answered, station.todo \ {Min(station.todo)})
         /\ LinkIs(link.conn, Append(link.frames, [cmd |-> "open", id |-> Min(station.todo)]), link.replies)
<1>1. Min(station.todo) \in station.todo /\ Min(station.todo) \in Ids
  BY MinOfSome DEF Reissue, TypeOK, StationType
<1>2. StationIs(station.last, station.open, station.answered, station.todo \ {Min(station.todo)})
  BY DEF Reissue, StationIs, TypeOK, StationType
<1> QED BY <1>1, <1>2, TransmitStep DEF Reissue

\* What Reply does to the fields of the state.
LEMMA ReplyStep ==
  ASSUME TypeOK, ReceiveReply
  PROVE  /\ UNCHANGED <<row, mem, flush, refused, overtaken, faults, crashes>>
         /\ \E n \in link.replies :
              /\ LinkIs(link.conn, link.frames, link.replies \ {n})
              /\ StationIs(station.last, station.open, station.answered \cup {n}, station.todo)
<1>1. PICK n \in link.replies : /\ link' = [link EXCEPT !.replies = @ \ {n}]
                                /\ station' = [station EXCEPT !.answered = @ \cup {n}]
  BY DEF ReceiveReply
<1>2. LinkIs(link.conn, link.frames, link.replies \ {n})
  BY <1>1 DEF LinkIs, TypeOK, LinkType
<1>3. StationIs(station.last, station.open, station.answered \cup {n}, station.todo)
  BY <1>1 DEF StationIs, TypeOK, StationType, LinkType
<1> QED BY <1>2, <1>3 DEF ReceiveReply

\* What Finish does to the fields of the state.
LEMMA FinishStep ==
  ASSUME TypeOK, Finish
  PROVE  /\ Connected /\ UNCHANGED <<row, mem, flush, refused, overtaken, faults, crashes>>
         /\ \E n \in station.open \cap station.answered, cmd \in {"close", "error"} :
              /\ LinkIs(link.conn, Append(link.frames, [cmd |-> cmd, id |-> n]), link.replies)
              /\ StationIs(station.last, station.open \ {n}, station.answered, station.todo \ {n})
<1>1. PICK n \in station.open \cap station.answered, cmd \in {"close", "error"} :
        /\ Transmit(cmd, n) /\ station' = [station EXCEPT !.open = @ \ {n}, !.todo = @ \ {n}]
  BY DEF Finish
<1>2. n \in Ids
  BY DEF TypeOK, StationType
<1>3. LinkIs(link.conn, Append(link.frames, [cmd |-> cmd, id |-> n]), link.replies)
  BY <1>1, <1>2, TransmitStep
<1>4. StationIs(station.last, station.open \ {n}, station.answered, station.todo \ {n})
  BY <1>1 DEF StationIs, TypeOK, StationType
<1> QED BY <1>3, <1>4 DEF Finish

\* What Request does to the fields of the state.
LEMMA RequestStep ==
  ASSUME TypeOK, NEW c \in Conns, flush' = Request(c)
  PROVE  FlushIs(c, TRUE, flush[c].read)
  BY DEF Request, FlushIs, TypeOK, FlushType

\* What Open does to the fields of the state.
LEMMA OpenStep ==
  ASSUME TypeOK, NEW c \in Conns, OpenOperation(c)
  PROVE  /\ Reading(c) /\ Frame \in FrameType /\ Frame.cmd = "open" /\ UNCHANGED <<station, refused, overtaken, crashes>>
         /\ faults' \in 0..MaxFaults /\ faults' >= faults
         /\ \E l \in {mem[c].last, Frame.id} :
              l >= mem[c].last /\ l >= Frame.id /\ MemIs(c, "active", l, mem[c].open \cup {Frame.id})
         /\ RowIs(row.status, row.bsOp) /\ FlushIs(c, TRUE, flush[c].read)
         /\ LinkIs(link.conn, Tail(link.frames), link.replies \cup {Frame.id})
<1>1. Rest \in LinkType /\ Frame \in FrameType /\ Reading(c) /\ mem[c].pc = "active"
  BY RestType DEF OpenOperation, Reading
<1>2. Frame.id \in Ids /\ Frame.id \in Int /\ Frame.id \in 0..MaxOps /\ mem[c].last \in Int /\ mem[c].last \in 0..MaxOps
  <2>1. Frame.id \in Ids /\ mem[c].last \in 0..MaxOps
    BY <1>1 DEF FrameType, TypeOK, MemType
  <2>2. MaxOps \in Nat
    BY OperationsAssumption
  <2> QED BY <2>1, <2>2 DEF Ids
<1> DEFINE n == Frame.id
           l == Max({mem[c].last, n})
<1>3. l \in {mem[c].last, n} /\ l >= mem[c].last /\ l >= n
  BY <1>2, MaxOfTwo
<1>4. mem' = [mem EXCEPT ![c].last = l, ![c].open = @ \cup {n}]
  BY DEF OpenOperation, TypeOK, MemType
<1>5. MemIs(c, "active", l, mem[c].open \cup {n})
  <2> HIDE DEF l, n
  <2> QED BY <1>1, <1>2, <1>3, <1>4 DEF MemIs, TypeOK, MemType, n
<1>6. RowIs(row.status, row.bsOp)
  BY <1>2 DEF OpenOperation, RowIs, TypeOK, RowType
<1>7. FlushIs(c, TRUE, flush[c].read)
  BY RequestStep DEF OpenOperation
<1>8. LinkIs(link.conn, Tail(link.frames), link.replies \cup {n})
  BY <1>1, <1>2 DEF OpenOperation, LinkIs, LinkType, Rest
<1>9. faults' \in 0..MaxFaults /\ faults' >= faults
  BY FaultType DEF OpenOperation
<1> HIDE DEF l
<1> QED BY <1>1, <1>3, <1>5, <1>6, <1>7, <1>8, <1>9 DEF OpenOperation

\* What Close does to the fields of the state.
LEMMA CloseStep ==
  ASSUME TypeOK, NEW c \in Conns, CloseOperation(c)
  PROVE  /\ Reading(c) /\ Frame \in FrameType /\ Frame.cmd # "open"
         /\ UNCHANGED <<station, refused, overtaken, faults, crashes>>
         /\ MemIs(c, "active", mem[c].last, mem[c].open \ {Frame.id})
         /\ RowIs(row.status, row.bsOp) /\ FlushIs(c, TRUE, flush[c].read)
         /\ LinkIs(link.conn, Tail(link.frames), link.replies)
<1>1. Rest \in LinkType /\ Frame \in FrameType /\ Reading(c) /\ mem[c].pc = "active"
  BY RestType DEF CloseOperation, Reading
<1>2. MemIs(c, "active", mem[c].last, mem[c].open \ {Frame.id})
  BY <1>1 DEF CloseOperation, MemIs, TypeOK, MemType
<1>3. RowIs(row.status, row.bsOp)
  BY DEF CloseOperation, RowIs, TypeOK, RowType
<1>4. FlushIs(c, TRUE, flush[c].read)
  BY RequestStep DEF CloseOperation
<1>5. LinkIs(link.conn, Tail(link.frames), link.replies)
  BY <1>1 DEF CloseOperation, LinkIs, LinkType, Rest
<1> QED BY <1>1, <1>2, <1>3, <1>4, <1>5 DEF CloseOperation

\* What Refuse does to the fields of the state.
LEMMA RefuseStep ==
  ASSUME TypeOK, NEW c \in Conns, Refuse(c)
  PROVE  /\ Reading(c) /\ Frame \in FrameType /\ UNCHANGED <<row, flush, station, overtaken, faults, crashes>>
         /\ \/ Frame.cmd = "open" /\ ~Admits(c, Frame.id)
            \/ Frame.cmd = "close" /\ Frame.id \notin mem[c].open
         /\ refused' \subseteq Ids /\ link' = Down
         /\ MemIs(c, "counting", mem[c].last, mem[c].open)
<1>1. Frame \in FrameType /\ Frame.id \in Ids
  BY RestType DEF Refuse, Reading, FrameType
<1>2. MemIs(c, "counting", mem[c].last, mem[c].open)
  BY DEF Refuse, MemIs, TypeOK, MemType
<1> QED BY <1>1, <1>2 DEF Refuse, TypeOK

\* What FlushRead does to the fields of the state.
LEMMA FlushReadStep ==
  ASSUME TypeOK, NEW c \in Conns, FlushRead(c)
  PROVE  /\ flush[c].running /\ flush[c].read = NoValue
         /\ UNCHANGED <<row, mem, link, station, refused, overtaken, faults, crashes>>
         /\ FlushIs(c, TRUE, mem[c].last) \/ FlushIs(c, FALSE, NoValue)
<1>1. mem[c].last \in NoValue..MaxOps /\ NoValue \in NoValue..MaxOps
  <2>1. mem[c].last \in 0..MaxOps
    BY DEF TypeOK, MemType
  <2>2. MaxOps \in Nat
    BY OperationsAssumption
  <2> QED BY <2>1, <2>2 DEF NoValue
<1> HIDE DEF NoValue
<1>2. CASE flush' = [flush EXCEPT ![c] = [@ EXCEPT !.dirty = FALSE, !.read = mem[c].last]]
  <2> DEFINE l == mem[c].last
             x == [flush[c] EXCEPT !.dirty = FALSE, !.read = l]
  <2>1. flush[c] \in FlushType
    BY DEF TypeOK
  <2>2. x \in FlushType /\ x.running = flush[c].running /\ x.read = l
    <3> HIDE DEF l
    <3> QED BY <1>1, <2>1 DEF FlushType, l
  <2>3. flush' = [flush EXCEPT ![c] = x]
    BY <1>2
  <2>4. FlushIs(c, flush[c].running, l)
    <3> HIDE DEF x, l
    <3> QED BY <2>2, <2>3 DEF FlushIs, TypeOK
  <2>5. flush[c].running = TRUE
    BY <2>1 DEF FlushRead, FlushType
  <2> QED BY <2>4, <2>5 DEF FlushRead
<1>3. CASE flush' = [flush EXCEPT ![c] = Quiet]
  <2>1. Quiet \in FlushType /\ Quiet.running = FALSE /\ Quiet.read = NoValue
    BY <1>1 DEF FlushType, Quiet
  <2>2. FlushIs(c, FALSE, NoValue)
    BY <1>3, <2>1 DEF FlushIs, TypeOK
  <2> QED BY <2>2 DEF FlushRead
<1> QED BY <1>2, <1>3 DEF FlushRead

\* A store never lowers the row's counter.
LEMMA StoreStep ==
  ASSUME TypeOK, NEW n \in 0..MaxOps, row' = Store(n)
  PROVE  \E b \in {row.bsOp, n} : b >= row.bsOp /\ b >= n /\ RowIs(row.status, b)
<1>1. row.bsOp \in Int /\ n \in Int /\ row.bsOp \in 0..MaxOps
  BY OperationsAssumption DEF TypeOK, RowType
<1> DEFINE b == Max({row.bsOp, n})
<1>2. b \in {row.bsOp, n} /\ b >= row.bsOp /\ b >= n
  BY <1>1, MaxOfTwo
<1>3. row' = [row EXCEPT !.bsOp = b]
  BY DEF Store
<1>4. RowIs(row.status, b)
  <2> HIDE DEF b
  <2> QED BY <1>1, <1>2, <1>3 DEF RowIs, TypeOK, RowType
<1> QED BY <1>2, <1>4

\* What FlushWrite does to the fields of the state.
LEMMA FlushWriteStep ==
  ASSUME TypeOK, NEW c \in Conns, FlushWrite(c)
  PROVE  /\ flush[c].read # NoValue /\ FlushIs(c, flush[c].running, NoValue)
         /\ UNCHANGED <<mem, link, station, refused, overtaken, crashes>>
         /\ \/ UNCHANGED row /\ faults' \in 0..MaxFaults /\ faults' # 0
            \/ /\ UNCHANGED faults
               /\ \E b \in {row.bsOp, flush[c].read} : b >= row.bsOp /\ RowIs(row.status, b)
<1>1. NoValue \in NoValue..MaxOps
  BY OperationsAssumption DEF NoValue
<1>2. FlushIs(c, flush[c].running, NoValue)
  BY <1>1 DEF FlushWrite, FlushIs, TypeOK, FlushType
<1>3. flush[c].read \in 0..MaxOps
  BY OperationsAssumption DEF FlushWrite, TypeOK, FlushType, NoValue
<1> QED BY <1>2, <1>3, StoreStep, FaultType DEF FlushWrite

\* What Break does to the fields of the state.
LEMMA BreakStep ==
  ASSUME TypeOK, Break
  PROVE  /\ UNCHANGED <<row, mem, flush, refused, overtaken, faults, crashes>> /\ link' = Down
         /\ StationIs(station.last, station.open, station.answered, {})
  BY DEF Break, StationIs, TypeOK, StationType

\* What End does to the fields of the state.
LEMMA EndStep ==
  ASSUME TypeOK, NEW c \in Conns, EndReading(c)
  PROVE  /\ link.conn # c /\ UNCHANGED <<row, flush, link, station, refused, overtaken, faults, crashes>>
         /\ \/ mem[c].pc = "active" /\ MemIs(c, "counting", mem[c].last, mem[c].open)
            \/ mem[c].pc = "offered" /\ MemIs(c, "gone", mem[c].last, mem[c].open)
  BY DEF EndReading, MemIs, TypeOK, MemType

\* What Final does to the fields of the state.
LEMMA FinalStep ==
  ASSUME TypeOK, NEW c \in Conns, FinalCounters(c)
  PROVE  /\ mem[c].pc = "counting" /\ MemIs(c, "handing back", mem[c].last, mem[c].open)
         /\ UNCHANGED <<flush, link, station, refused, overtaken, crashes>>
         /\ \/ UNCHANGED row /\ faults' \in 0..MaxFaults /\ faults' # 0
            \/ /\ UNCHANGED faults
               /\ \E b \in {row.bsOp, mem[c].last} : b >= row.bsOp /\ b >= mem[c].last /\ RowIs(row.status, b)
<1>1. MemIs(c, "handing back", mem[c].last, mem[c].open)
  BY DEF FinalCounters, MemIs, TypeOK, MemType
<1>2. mem[c].last \in 0..MaxOps
  BY DEF TypeOK, MemType
<1> QED BY <1>1, <1>2, StoreStep, FaultType DEF FinalCounters, Final

\* What HandBack does to the fields of the state.
LEMMA HandBackStep ==
  ASSUME TypeOK, NEW c \in Conns, HandBack(c)
  PROVE  /\ mem[c].pc = "handing back" /\ MemIs(c, "gone", mem[c].last, mem[c].open)
         /\ RowIs("disconnected", row.bsOp)
         /\ UNCHANGED <<flush, link, station, refused, overtaken, faults, crashes>>
  BY DEF HandBack, MemIs, RowIs, TypeOK, MemType, RowType

\* What Crash does to the fields of the state.
LEMMA CrashStep ==
  ASSUME TypeOK, Crash
  PROVE  /\ crashes' \in 0..MaxCrashes /\ crashes' # 0 /\ link' = Down
         /\ mem' \in [Conns -> MemType] /\ flush' \in [Conns -> FlushType]
         /\ \A c \in Conns : /\ mem'[c].pc \in {"unused", "gone"} /\ mem'[c].last = mem[c].last
                             /\ ~flush'[c].running /\ flush'[c].read = NoValue
         /\ StationIs(station.last, station.open, station.answered, {})
         /\ RowIs(IF row.status = "active" THEN "disconnected" ELSE row.status, row.bsOp)
         /\ UNCHANGED <<refused, overtaken, faults>>
<1>1. crashes' \in 0..MaxCrashes /\ crashes' # 0
  BY OperationsAssumption DEF Crash, TypeOK
<1>2. Quiet \in FlushType /\ Quiet.running = FALSE /\ Quiet.read = NoValue
  BY OperationsAssumption DEF Quiet, FlushType, NoValue
<1>3. flush' \in [Conns -> FlushType] /\ \A c \in Conns : ~flush'[c].running /\ flush'[c].read = NoValue
  BY <1>2 DEF Crash
<1>4. mem' \in [Conns -> MemType] /\ \A c \in Conns : mem'[c].pc \in {"unused", "gone"} /\ mem'[c].last = mem[c].last
  BY DEF Crash, TypeOK, MemType
<1>5. StationIs(station.last, station.open, station.answered, {})
  BY DEF Crash, StationIs, TypeOK, StationType
<1>6. RowIs(IF row.status = "active" THEN "disconnected" ELSE row.status, row.bsOp)
  BY DEF Crash, RowIs, TypeOK, RowType
<1> QED BY <1>1, <1>3, <1>4, <1>5, <1>6 DEF Crash

-----------------------------------------------------------------------------
(* The inductive invariant.                                                *)

Owning == {"active", "counting", "handing back"}

\* At most one connection has the row, and the row says so.
Owned ==
  \A c \in Conns : mem[c].pc \in Owning =>
    row.status = "active" /\ \A d \in Conns : mem[d].pc \in Owning => d = c

\* A flusher serves a connection that had the row, and writes nothing newer than its ids.
FlushBoundAt(c) ==
  /\ flush[c].read # NoValue => flush[c].running
  /\ flush[c].running => mem[c].pc \in Owning \cup {"gone"}
  /\ flush[c].read <= mem[c].last
FlushBound == \A c \in Conns : FlushBoundAt(c)

\* What a late flusher may still write is stored already.
Late(c) == flush[c].running /\ mem[c].pc \in {"handing back", "gone"}
LateFlush == faults = 0 /\ ~overtaken => \A c \in Conns : Late(c) => mem[c].last <= row.bsOp

\* While the station's connection is in its handshake nobody takes the row,
\* nothing is answered, and what was answered is known.
HandshakeAt(c) ==
  /\ row.status = "disconnected" /\ link.frames = <<>> /\ link.replies = {}
  /\ \A n \in station.answered : n <= row.bsOp /\ (mem[c].pc = "claiming" => n <= mem[c].last)
  /\ mem[c].pc = "claiming" /\ faults = 0 => row.bsOp <= mem[c].last
Handshake ==
  ~overtaken => \A c \in Conns : link.conn = c /\ mem[c].pc \in {"offered", "claiming"} => HandshakeAt(c)

\* Every answered operation is stored, or known to the connection that has the row.
AnsweredKnown ==
  crashes = 0 /\ faults = 0 /\ ~overtaken =>
    \A n \in station.answered \cup link.replies :
      n <= row.bsOp \/ \E d \in Conns : mem[d].pc \in {"active", "counting"} /\ n <= mem[d].last

\* Nobody knows of an operation the station has not started.
Below ==
  /\ row.bsOp <= station.last
  /\ \A c \in Conns : mem[c].last <= station.last
  /\ \A i \in 1..Len(link.frames) : link.frames[i].id <= station.last

\* The station works on its newest operation only.
Window == station.open \subseteq {station.last} /\ station.todo \subseteq station.open

\* The frames on their way are in order: an operation is opened before it is
\* ended and not named again after that.
Before(x, y) == x.id < y.id \/ (x.id = y.id /\ x.cmd = "open" /\ y.cmd # "open")
Ordered(F) == \A i, j \in 1..Len(F) : i < j => Before(F[i], F[j])

\* A reader whose newest id is l and whose open ids are O accepts them.
Opens(F, n, k) == \E i \in 1..k : F[i].cmd = "open" /\ F[i].id = n
Acceptable(F, l, O) ==
  \A j \in 1..Len(F) : /\ F[j].cmd = "open" => F[j].id > l \/ F[j].id \in O
                       /\ F[j].cmd = "close" => F[j].id \in O \/ Opens(F, F[j].id, j - 1)

\* It accepts that the operations T are taken up, of which those in A were
\* answered; and those in S have been.
ToTakeUp(T, A, l, O) == \A n \in T : (n > l \/ n \in O) /\ (n \in A => n \in O)
TakenUp(F, S, O) ==
  \A n \in S : /\ n \in O \/ Opens(F, n, Len(F))
               /\ \A i \in 1..Len(F) : F[i].id = n => F[i].cmd = "open"

\* The station and the reader of its connection agree on what is open.
Agree(F, R, S, T, A, l, O) ==
  /\ T # {} => F = <<>> /\ R = {}
  /\ Ordered(F) /\ Acceptable(F, l, O) /\ ToTakeUp(T, A, l, O) /\ TakenUp(F, S \ T, O)
InSequenceAt(c) ==
  Agree(link.frames, link.replies, station.open, station.todo, station.answered, mem[c].last, mem[c].open)
InSequence ==
  ~overtaken => \A c \in Conns : link.conn = c /\ mem[c].pc = "active" => InSequenceAt(c)

\* The numbers of the state.
Numbers ==
  /\ row.bsOp \in Nat /\ station.last \in Int /\ faults \in Int /\ crashes \in Int /\ NoValue \in Int /\ NoValue < 0
  /\ \A c \in Conns : mem[c].last \in Nat /\ flush[c].read \in Int
  /\ station.open \subseteq Int /\ station.todo \subseteq Int /\ station.answered \subseteq Int /\ link.replies \subseteq Int
  /\ link.frames \in Seq(FrameType)
  /\ 0 \notin Conns

\* The type invariant gives these numbers.
LEMMA NumbersOK ==
  ASSUME TypeOK
  PROVE  Numbers
<1>0. MaxOps \in Nat /\ MaxFaults \in Nat /\ MaxCrashes \in Nat /\ NoValue \in Int /\ NoValue < 0
  BY OperationsAssumption DEF NoValue
<1>1. row.bsOp \in 0..MaxOps /\ station.last \in 0..MaxOps /\ faults \in 0..MaxFaults /\ crashes \in 0..MaxCrashes
  BY DEF TypeOK, RowType, StationType
<1>2. \A c \in Conns : mem[c].last \in 0..MaxOps /\ flush[c].read \in NoValue..MaxOps
  BY DEF TypeOK, MemType, FlushType
<1>3. station.open \subseteq Ids /\ station.todo \subseteq Ids /\ station.answered \subseteq Ids /\ link.replies \subseteq Ids
  BY DEF TypeOK, StationType, LinkType
<1>4. link.frames \in Seq(FrameType)
  BY DEF TypeOK, LinkType
<1>5. Ids \subseteq Int /\ 0 \notin Conns
  BY <1>0 DEF Ids, Conns
<1>6. \A c \in Conns : mem[c].last \in Nat /\ flush[c].read \in Int
  BY <1>0, <1>2
<1>7. row.bsOp \in Nat /\ station.last \in Int /\ faults \in Int /\ crashes \in Int
  BY <1>0, <1>1
<1> HIDE DEF NoValue
<1> QED BY <1>0, <1>3, <1>4, <1>5, <1>6, <1>7 DEF Numbers

\* A link that is down.
LEMMA DownFields ==
  Down.conn = 0 /\ Down.frames = <<>> /\ Down.replies = {} /\ 0 \notin Conns
<1>1. 0 \notin Conns
  BY DEF Conns
<1> QED BY <1>1 DEF Down

\* Every step keeps the types.
LEMMA TypeStep ==
  ASSUME TypeOK, Next
  PROVE  TypeOK'
<1>1. ASSUME NEW c \in Conns, Connect(c) PROVE TypeOK'
  BY <1>1, DownType, ConnectStep DEF TypeOK, MemIs, RowIs, LinkIs, StationIs, FlushIs
<1>2. ASSUME NEW c \in Conns, Reread(c) PROVE TypeOK'
  BY <1>2, DownType, RereadStep DEF TypeOK, MemIs, RowIs, LinkIs, StationIs, FlushIs
<1>3. ASSUME NEW c \in Conns, Claim(c) PROVE TypeOK'
  BY <1>3, DownType, ClaimStep DEF TypeOK, MemIs, RowIs, LinkIs, StationIs, FlushIs
<1>4. ASSUME StartOperation PROVE TypeOK'
  BY <1>4, DownType, StartStep DEF TypeOK, MemIs, RowIs, LinkIs, StationIs, FlushIs
<1>5. ASSUME Reissue PROVE TypeOK'
  BY <1>5, DownType, ReissueStep DEF TypeOK, MemIs, RowIs, LinkIs, StationIs, FlushIs
<1>6. ASSUME ReceiveReply PROVE TypeOK'
  BY <1>6, DownType, ReplyStep DEF TypeOK, MemIs, RowIs, LinkIs, StationIs, FlushIs
<1>7. ASSUME Finish PROVE TypeOK'
  BY <1>7, DownType, FinishStep DEF TypeOK, MemIs, RowIs, LinkIs, StationIs, FlushIs
<1>8. ASSUME NEW c \in Conns, OpenOperation(c) PROVE TypeOK'
  BY <1>8, DownType, OpenStep DEF TypeOK, MemIs, RowIs, LinkIs, StationIs, FlushIs
<1>9. ASSUME NEW c \in Conns, CloseOperation(c) PROVE TypeOK'
  BY <1>9, DownType, CloseStep DEF TypeOK, MemIs, RowIs, LinkIs, StationIs, FlushIs
<1>10. ASSUME NEW c \in Conns, Refuse(c) PROVE TypeOK'
  BY <1>10, DownType, RefuseStep DEF TypeOK, MemIs, RowIs, LinkIs, StationIs, FlushIs
<1>11. ASSUME NEW c \in Conns, FlushRead(c) PROVE TypeOK'
  BY <1>11, DownType, FlushReadStep DEF TypeOK, MemIs, RowIs, LinkIs, StationIs, FlushIs
<1>12. ASSUME NEW c \in Conns, FlushWrite(c) PROVE TypeOK'
  BY <1>12, DownType, FlushWriteStep DEF TypeOK, MemIs, RowIs, LinkIs, StationIs, FlushIs
<1>13. ASSUME Break PROVE TypeOK'
  BY <1>13, DownType, BreakStep DEF TypeOK, MemIs, RowIs, LinkIs, StationIs, FlushIs
<1>14. ASSUME NEW c \in Conns, EndReading(c) PROVE TypeOK'
  BY <1>14, DownType, EndStep DEF TypeOK, MemIs, RowIs, LinkIs, StationIs, FlushIs
<1>15. ASSUME NEW c \in Conns, FinalCounters(c) PROVE TypeOK'
  BY <1>15, DownType, FinalStep DEF TypeOK, MemIs, RowIs, LinkIs, StationIs, FlushIs
<1>16. ASSUME NEW c \in Conns, HandBack(c) PROVE TypeOK'
  BY <1>16, DownType, HandBackStep DEF TypeOK, MemIs, RowIs, LinkIs, StationIs, FlushIs
<1>17. ASSUME Crash PROVE TypeOK'
  BY <1>17, DownType, CrashStep DEF TypeOK, MemIs, RowIs, LinkIs, StationIs, FlushIs
<1> QED BY <1>1, <1>2, <1>3, <1>4, <1>5, <1>6, <1>7, <1>8, <1>9,
           <1>10, <1>11, <1>12, <1>13, <1>14, <1>15, <1>16, <1>17
        DEF Next, Handle, Flush, Leave

\* The numbers of the next state.
LEMMA NumbersNext ==
  ASSUME TypeOK', NEW c \in Conns
  PROVE  mem'[c].last \in Nat /\ flush'[c].read \in Int /\ row'.bsOp \in Nat /\ station'.last \in Nat
<1>1. mem'[c] \in MemType /\ flush'[c] \in FlushType /\ row' \in RowType /\ station' \in StationType
  BY DEF TypeOK
<1>2. /\ mem'[c].last \in 0..MaxOps /\ flush'[c].read \in NoValue..MaxOps /\ row'.bsOp \in 0..MaxOps
      /\ station'.last \in 0..MaxOps
  BY <1>1 DEF MemType, FlushType, RowType, StationType
<1>3. MaxOps \in Nat /\ NoValue \in Int
  BY OperationsAssumption DEF NoValue
<1> QED BY <1>2, <1>3

\* The reader handles a frame: what everybody else sees of it.
Handles(c) ==
  /\ mem[c].pc = "active" /\ mem'[c].pc = "active" /\ link.conn = c /\ link'.conn = c
  /\ mem'[c].last >= mem[c].last /\ mem'[c].last \in Nat
  /\ \A x \in Conns : x # c => mem'[x] = mem[x] /\ flush'[x] = flush[x]
  /\ flush'[c].running
  /\ flush'[c].read <= flush[c].read
  /\ \A s \in {"active", "disconnected", "terminated"} : row.status = s => row'.status = s
  /\ row'.bsOp <= row.bsOp /\ row'.bsOp >= row.bsOp
  /\ station' = station /\ refused' = refused /\ overtaken' = overtaken /\ crashes' = crashes
  /\ faults' >= faults

\* Opening and closing an operation only raise the counter in memory.
LEMMA HandlesStep ==
  ASSUME TypeOK, TypeOK', NEW c \in Conns, OpenOperation(c) \/ CloseOperation(c)
  PROVE  Handles(c)
<1>n. Numbers
  BY NumbersOK
<1>1. CASE OpenOperation(c)
  <2>1. PICK l \in {mem[c].last, Frame.id} : l >= mem[c].last /\ MemIs(c, "active", l, mem[c].open \cup {Frame.id})
    BY <1>1, OpenStep
  <2>2. Frame \in FrameType /\ Reading(c) /\ LinkIs(link.conn, Tail(link.frames), link.replies \cup {Frame.id})
    BY <1>1, OpenStep
  <2>3. Frame.id \in Nat
    BY <2>2, OperationsAssumption DEF FrameType, Ids
  <2>4. l \in Nat
    BY <1>n, <2>3 DEF Numbers
  <2>5. /\ mem[c].pc = "active" /\ mem'[c].pc = "active" /\ mem'[c].last >= mem[c].last /\ mem'[c].last \in Nat
        /\ \A x \in Conns : x # c => mem'[x] = mem[x]
    BY <2>1, <2>2, <2>4 DEF MemIs, Reading
  <2>6. link.conn = c /\ link'.conn = c
    BY <2>2 DEF Reading, LinkIs
  <2>7. FlushIs(c, TRUE, flush[c].read) /\ RowIs(row.status, row.bsOp)
    BY <1>1, OpenStep
  <2>8. /\ \A x \in Conns : x # c => flush'[x] = flush[x]
        /\ flush'[c].running
        /\ flush'[c].read <= flush[c].read
    BY <1>n, <2>7 DEF FlushIs, Numbers
  <2>9. /\ \A s \in {"active", "disconnected", "terminated"} : row.status = s => row'.status = s
        /\ row'.bsOp <= row.bsOp /\ row'.bsOp >= row.bsOp
    BY <1>n, <2>7 DEF RowIs, Numbers
  <2>10. /\ station' = station /\ refused' = refused /\ overtaken' = overtaken /\ crashes' = crashes
         /\ faults' >= faults
    BY <1>1, OpenStep
  <2> QED BY <2>5, <2>6, <2>8, <2>9, <2>10 DEF Handles
<1>2. CASE CloseOperation(c)
  <2>1. MemIs(c, "active", mem[c].last, mem[c].open \ {Frame.id})
    BY <1>2, CloseStep
  <2>2. Reading(c) /\ LinkIs(link.conn, Tail(link.frames), link.replies)
    BY <1>2, CloseStep
  <2>5. /\ mem[c].pc = "active" /\ mem'[c].pc = "active" /\ mem'[c].last >= mem[c].last /\ mem'[c].last \in Nat
        /\ \A x \in Conns : x # c => mem'[x] = mem[x]
    BY <1>n, <2>1, <2>2 DEF MemIs, Reading, Numbers
  <2>6. link.conn = c /\ link'.conn = c
    BY <2>2 DEF Reading, LinkIs
  <2>7. FlushIs(c, TRUE, flush[c].read) /\ RowIs(row.status, row.bsOp)
    BY <1>2, CloseStep
  <2>8. /\ \A x \in Conns : x # c => flush'[x] = flush[x]
        /\ flush'[c].running
        /\ flush'[c].read <= flush[c].read
    BY <1>n, <2>7 DEF FlushIs, Numbers
  <2>9. /\ \A s \in {"active", "disconnected", "terminated"} : row.status = s => row'.status = s
        /\ row'.bsOp <= row.bsOp /\ row'.bsOp >= row.bsOp
    BY <1>n, <2>7 DEF RowIs, Numbers
  <2>10. /\ station' = station /\ refused' = refused /\ overtaken' = overtaken /\ crashes' = crashes
         /\ faults' = faults
    BY <1>2, CloseStep
  <2>11. faults' >= faults
    BY <1>n, <2>10 DEF Numbers
  <2> QED BY <2>5, <2>6, <2>8, <2>9, <2>10, <2>11 DEF Handles
<1> QED BY <1>1, <1>2

\* The reader ends: on a refusal, or after its connection was lost.
Ends(c) ==
  /\ \A x \in Conns : x # c => mem'[x] = mem[x]
  /\ \/ mem[c].pc = "active" /\ mem'[c].pc = "counting"
     \/ mem[c].pc = "offered" /\ mem'[c].pc = "gone" /\ link.conn # c
  /\ mem'[c].last <= mem[c].last /\ mem'[c].last >= mem[c].last
  /\ \/ link' = link /\ link.conn # c
     \/ link' = Down
  /\ row' = row /\ flush' = flush /\ station' = station /\ overtaken' = overtaken
  /\ faults' = faults /\ crashes' = crashes

\* An end of reading and a refusal leave the row and the station alone.
LEMMA EndsStep ==
  ASSUME TypeOK, NEW c \in Conns, EndReading(c) \/ Refuse(c)
  PROVE  Ends(c)
<1>n. mem[c].last \in Int
  BY NumbersOK DEF Numbers
<1>m. ASSUME NEW p, MemIs(c, p, mem[c].last, mem[c].open)
      PROVE  /\ \A x \in Conns : x # c => mem'[x] = mem[x]
             /\ mem'[c].pc = p /\ mem'[c].last <= mem[c].last /\ mem'[c].last >= mem[c].last
  BY <1>m, <1>n DEF MemIs
<1>1. CASE EndReading(c)
  <2>1. /\ link.conn # c /\ row' = row /\ flush' = flush /\ station' = station /\ overtaken' = overtaken
        /\ faults' = faults /\ crashes' = crashes /\ link' = link
    BY <1>1, EndStep
  <2>2. CASE mem[c].pc = "active" /\ MemIs(c, "counting", mem[c].last, mem[c].open)
    BY <1>m, <2>1, <2>2 DEF Ends
  <2>3. CASE mem[c].pc = "offered" /\ MemIs(c, "gone", mem[c].last, mem[c].open)
    BY <1>m, <2>1, <2>3 DEF Ends
  <2> QED BY <1>1, <2>2, <2>3, EndStep
<1>2. CASE Refuse(c)
  <2>1. /\ row' = row /\ flush' = flush /\ station' = station /\ overtaken' = overtaken
        /\ faults' = faults /\ crashes' = crashes /\ link' = Down /\ mem[c].pc = "active"
        /\ MemIs(c, "counting", mem[c].last, mem[c].open)
    BY <1>2, RefuseStep DEF Reading
  <2> QED BY <1>m, <2>1 DEF Ends
<1> QED BY <1>1, <1>2

\* Every step leaves the row with one connection.
LEMMA OwnedStep ==
  ASSUME TypeOK, TypeOK', Owned, Next
  PROVE  Owned'
<1> SUFFICES ASSUME NEW d \in Conns, mem'[d].pc \in Owning, NEW e \in Conns
             PROVE  row'.status = "active" /\ (mem'[e].pc \in Owning => e = d)
  BY DEF Owned, Owning
<1>n. Numbers
  BY NumbersOK
<1>1. ASSUME NEW c \in Conns, Connect(c) PROVE row'.status = "active" /\ (mem'[e].pc \in Owning => e = d)
  BY <1>1, ConnectStep DEF Owned, Owning, Reading, MemIs, RowIs, LinkIs
<1>2. ASSUME NEW c \in Conns, Reread(c) PROVE row'.status = "active" /\ (mem'[e].pc \in Owning => e = d)
  BY <1>2, RereadStep DEF Owned, Owning, Reading, MemIs
<1>3. ASSUME NEW c \in Conns, Claim(c) PROVE row'.status = "active" /\ (mem'[e].pc \in Owning => e = d)
  <2>1. /\ \A x \in Conns : x # c => mem'[x] = mem[x]
        /\ \/ row.status = "disconnected" /\ row'.status = "active"
           \/ row' = row /\ mem'[c].pc = "gone"
    BY <1>3, ClaimStep DEF MemIs, RowIs
  <2> QED BY <2>1 DEF Owned, Owning
<1>4. ASSUME StartOperation PROVE row'.status = "active" /\ (mem'[e].pc \in Owning => e = d)
  BY <1>4, StartStep DEF Owned, Owning, Reading, StationIs, LinkIs
<1>5. ASSUME Reissue PROVE row'.status = "active" /\ (mem'[e].pc \in Owning => e = d)
  BY <1>5, ReissueStep DEF Owned, Owning, Reading, StationIs, LinkIs
<1>6. ASSUME ReceiveReply PROVE row'.status = "active" /\ (mem'[e].pc \in Owning => e = d)
  BY <1>6, ReplyStep DEF Owned, Owning, Reading, StationIs, LinkIs
<1>7. ASSUME Finish PROVE row'.status = "active" /\ (mem'[e].pc \in Owning => e = d)
  BY <1>7, FinishStep DEF Owned, Owning, Reading, StationIs, LinkIs
<1>8. ASSUME NEW c \in Conns, OpenOperation(c) PROVE row'.status = "active" /\ (mem'[e].pc \in Owning => e = d)
  <2>1. Handles(c)
    BY <1>8, HandlesStep
  <2> QED BY <2>1, <1>n DEF Handles, Owned, Owning
<1>9. ASSUME NEW c \in Conns, CloseOperation(c) PROVE row'.status = "active" /\ (mem'[e].pc \in Owning => e = d)
  <2>1. Handles(c)
    BY <1>9, HandlesStep
  <2> QED BY <2>1, <1>n DEF Handles, Owned, Owning
<1>10. ASSUME NEW c \in Conns, Refuse(c) PROVE row'.status = "active" /\ (mem'[e].pc \in Owning => e = d)
  <2>1. Ends(c)
    BY <1>10, EndsStep
  <2> QED BY <2>1, <1>n DEF Ends, Owned, Owning
<1>11. ASSUME NEW c \in Conns, FlushRead(c) PROVE row'.status = "active" /\ (mem'[e].pc \in Owning => e = d)
  BY <1>11, FlushReadStep DEF Owned, Owning, Reading, FlushIs
<1>12. ASSUME NEW c \in Conns, FlushWrite(c) PROVE row'.status = "active" /\ (mem'[e].pc \in Owning => e = d)
  BY <1>12, FlushWriteStep DEF Owned, Owning, Reading, FlushIs, RowIs
<1>13. ASSUME Break PROVE row'.status = "active" /\ (mem'[e].pc \in Owning => e = d)
  BY <1>13, BreakStep DEF Owned, Owning, Reading, StationIs
<1>14. ASSUME NEW c \in Conns, EndReading(c) PROVE row'.status = "active" /\ (mem'[e].pc \in Owning => e = d)
  <2>1. Ends(c)
    BY <1>14, EndsStep
  <2> QED BY <2>1, <1>n DEF Ends, Owned, Owning
<1>15. ASSUME NEW c \in Conns, FinalCounters(c) PROVE row'.status = "active" /\ (mem'[e].pc \in Owning => e = d)
  BY <1>15, FinalStep DEF Owned, Owning, Reading, MemIs, RowIs
<1>16. ASSUME NEW c \in Conns, HandBack(c) PROVE row'.status = "active" /\ (mem'[e].pc \in Owning => e = d)
  BY <1>16, HandBackStep DEF Owned, Owning, Reading, MemIs, RowIs
<1>17. ASSUME Crash PROVE row'.status = "active" /\ (mem'[e].pc \in Owning => e = d)
  BY <1>17, CrashStep DEF Owned, Owning, Reading, StationIs, RowIs
<1> QED BY <1>1, <1>2, <1>3, <1>4, <1>5, <1>6, <1>7, <1>8, <1>9,
           <1>10, <1>11, <1>12, <1>13, <1>14, <1>15, <1>16, <1>17
        DEF Next, Handle, Flush, Leave

\* Every step keeps the flushers within what their connections know.
LEMMA FlushBoundStep ==
  ASSUME TypeOK, TypeOK', FlushBound, Next
  PROVE  FlushBound'
<1> SUFFICES ASSUME NEW d \in Conns
             PROVE  FlushBoundAt(d)'
  BY DEF FlushBound
<1>n. Numbers
  BY NumbersOK
<1>1. ASSUME NEW c \in Conns, Connect(c) PROVE FlushBoundAt(d)'
  <2>1. flush' = flush /\ mem[c].pc \in {"unused", "offered"} /\ \A x \in Conns : x # c => mem'[x] = mem[x]
    BY <1>1, ConnectStep DEF MemIs
  <2>2. ~flush[c].running /\ flush[c].read = NoValue /\ NoValue < 0 /\ NoValue \in Int
    BY <1>n, <2>1 DEF FlushBound, FlushBoundAt, Owning, Numbers
  <2>3. mem'[c].last \in Nat
    BY NumbersNext
  <2>4. CASE d = c
    BY <2>1, <2>2, <2>3, <2>4 DEF FlushBoundAt
  <2> QED BY <2>1, <2>4 DEF FlushBound, FlushBoundAt
<1>2. ASSUME NEW c \in Conns, Reread(c) PROVE FlushBoundAt(d)'
  <2>1. flush' = flush /\ mem[c].pc \in {"unused", "offered"} /\ \A x \in Conns : x # c => mem'[x] = mem[x]
    BY <1>2, RereadStep DEF MemIs
  <2>2. ~flush[c].running /\ flush[c].read = NoValue /\ NoValue < 0 /\ NoValue \in Int
    BY <1>n, <2>1 DEF FlushBound, FlushBoundAt, Owning, Numbers
  <2>3. mem'[c].last \in Nat
    BY NumbersNext
  <2>4. CASE d = c
    BY <2>1, <2>2, <2>3, <2>4 DEF FlushBoundAt
  <2> QED BY <2>1, <2>4 DEF FlushBound, FlushBoundAt
<1>3. ASSUME NEW c \in Conns, Claim(c) PROVE FlushBoundAt(d)'
  BY <1>3, <1>n, ClaimStep DEF FlushBound, FlushBoundAt, Owning, Numbers, Reading, MemIs, RowIs, StationIs
<1>4. ASSUME StartOperation PROVE FlushBoundAt(d)'
  BY <1>4, <1>n, StartStep DEF FlushBound, FlushBoundAt, Owning, Numbers, Reading, StationIs, LinkIs
<1>5. ASSUME Reissue PROVE FlushBoundAt(d)'
  BY <1>5, <1>n, ReissueStep DEF FlushBound, FlushBoundAt, Owning, Numbers, Reading, StationIs, LinkIs
<1>6. ASSUME ReceiveReply PROVE FlushBoundAt(d)'
  BY <1>6, <1>n, ReplyStep DEF FlushBound, FlushBoundAt, Owning, Numbers, Reading, StationIs, LinkIs
<1>7. ASSUME Finish PROVE FlushBoundAt(d)'
  BY <1>7, <1>n, FinishStep DEF FlushBound, FlushBoundAt, Owning, Numbers, Reading, StationIs, LinkIs
<1>8. ASSUME NEW c \in Conns, OpenOperation(c) PROVE FlushBoundAt(d)'
  <2>1. Handles(c)
    BY <1>8, HandlesStep
  <2>n. flush[c].read \in Int /\ mem[c].last \in Nat /\ flush[c].read <= mem[c].last /\ flush'[c].read \in Int
    BY <1>n, NumbersNext DEF FlushBound, FlushBoundAt, Numbers
  <2>3. /\ flush'[c].running
        /\ mem'[c].pc = "active" /\ flush'[c].read <= mem'[c].last
    BY <2>1, <2>n DEF Handles
  <2>2. CASE d = c
    BY <2>2, <2>3 DEF FlushBoundAt, Owning
  <2> QED BY <2>1, <2>2 DEF FlushBound, FlushBoundAt, Handles
<1>9. ASSUME NEW c \in Conns, CloseOperation(c) PROVE FlushBoundAt(d)'
  <2>1. Handles(c)
    BY <1>9, HandlesStep
  <2>n. flush[c].read \in Int /\ mem[c].last \in Nat /\ flush[c].read <= mem[c].last /\ flush'[c].read \in Int
    BY <1>n, NumbersNext DEF FlushBound, FlushBoundAt, Numbers
  <2>3. /\ flush'[c].running
        /\ mem'[c].pc = "active" /\ flush'[c].read <= mem'[c].last
    BY <2>1, <2>n DEF Handles
  <2>2. CASE d = c
    BY <2>2, <2>3 DEF FlushBoundAt, Owning
  <2> QED BY <2>1, <2>2 DEF FlushBound, FlushBoundAt, Handles
<1>10. ASSUME NEW c \in Conns, Refuse(c) PROVE FlushBoundAt(d)'
  <2>1. Ends(c)
    BY <1>10, EndsStep
  <2>2. /\ flush' = flush /\ mem'[c].pc \in {"counting", "gone"} /\ mem'[c].last >= mem[c].last
        /\ \A x \in Conns : x # c => mem'[x] = mem[x]
    BY <2>1 DEF Ends
  <2>3. flush[c].read \in Int /\ mem[c].last \in Nat /\ flush[c].read <= mem[c].last /\ mem'[c].last \in Nat
    BY <1>n, NumbersNext DEF FlushBound, FlushBoundAt, Numbers
  <2>4. flush[c].read <= mem'[c].last
    BY <2>2, <2>3
  <2>5. CASE d = c
    BY <2>2, <2>4, <2>5 DEF FlushBound, FlushBoundAt, Owning
  <2> QED BY <2>2, <2>5 DEF FlushBound, FlushBoundAt
<1>11. ASSUME NEW c \in Conns, FlushRead(c) PROVE FlushBoundAt(d)'
  <2>1. mem' = mem /\ flush[c].running /\ \A x \in Conns : x # c => flush'[x] = flush[x]
    BY <1>11, FlushReadStep DEF FlushIs
  <2>2. \/ flush'[c].running /\ flush'[c].read = mem[c].last
        \/ ~flush'[c].running /\ flush'[c].read = NoValue
    BY <1>11, FlushReadStep DEF FlushIs
  <2>3. mem[c].pc \in Owning \cup {"gone"} /\ mem[c].last \in Nat /\ NoValue \in Int /\ NoValue < 0
    BY <1>n, <2>1 DEF FlushBound, FlushBoundAt, Numbers
  <2>4. CASE d = c
    BY <2>1, <2>2, <2>3, <2>4 DEF FlushBoundAt
  <2> QED BY <2>1, <2>4 DEF FlushBound, FlushBoundAt
<1>12. ASSUME NEW c \in Conns, FlushWrite(c) PROVE FlushBoundAt(d)'
  <2>1. /\ mem' = mem /\ (flush'[c].running => flush[c].running) /\ flush'[c].read = NoValue
        /\ \A x \in Conns : x # c => flush'[x] = flush[x]
    BY <1>12, FlushWriteStep DEF FlushIs
  <2>2. mem[c].last \in Nat /\ NoValue \in Int /\ NoValue < 0
    BY <1>n DEF Numbers
  <2>3. CASE d = c
    BY <2>1, <2>2, <2>3 DEF FlushBound, FlushBoundAt
  <2> QED BY <2>1, <2>3 DEF FlushBound, FlushBoundAt
<1>13. ASSUME Break PROVE FlushBoundAt(d)'
  BY <1>13, <1>n, BreakStep DEF FlushBound, FlushBoundAt, Owning, Numbers, Reading, StationIs
<1>14. ASSUME NEW c \in Conns, EndReading(c) PROVE FlushBoundAt(d)'
  <2>1. Ends(c)
    BY <1>14, EndsStep
  <2>2. /\ flush' = flush /\ mem'[c].pc \in {"counting", "gone"} /\ mem'[c].last >= mem[c].last
        /\ \A x \in Conns : x # c => mem'[x] = mem[x]
    BY <2>1 DEF Ends
  <2>3. flush[c].read \in Int /\ mem[c].last \in Nat /\ flush[c].read <= mem[c].last /\ mem'[c].last \in Nat
    BY <1>n, NumbersNext DEF FlushBound, FlushBoundAt, Numbers
  <2>4. flush[c].read <= mem'[c].last
    BY <2>2, <2>3
  <2>5. CASE d = c
    BY <2>2, <2>4, <2>5 DEF FlushBound, FlushBoundAt, Owning
  <2> QED BY <2>2, <2>5 DEF FlushBound, FlushBoundAt
<1>15. ASSUME NEW c \in Conns, FinalCounters(c) PROVE FlushBoundAt(d)'
  BY <1>15, <1>n, FinalStep DEF FlushBound, FlushBoundAt, Owning, Numbers, Reading, MemIs, RowIs
<1>16. ASSUME NEW c \in Conns, HandBack(c) PROVE FlushBoundAt(d)'
  BY <1>16, <1>n, HandBackStep DEF FlushBound, FlushBoundAt, Owning, Numbers, Reading, MemIs, RowIs
<1>17. ASSUME Crash PROVE FlushBoundAt(d)'
  <2>1. ~flush'[d].running /\ flush'[d].read = NoValue /\ NoValue < 0 /\ NoValue \in Int
    BY <1>17, <1>n, CrashStep DEF Numbers
  <2>2. mem'[d].last \in Nat
    BY NumbersNext
  <2> QED BY <2>1, <2>2 DEF FlushBoundAt
<1> QED BY <1>1, <1>2, <1>3, <1>4, <1>5, <1>6, <1>7, <1>8, <1>9,
           <1>10, <1>11, <1>12, <1>13, <1>14, <1>15, <1>16, <1>17
        DEF Next, Handle, Flush, Leave

\* What only grows.
Monotone == faults' >= faults /\ crashes' >= crashes /\ (overtaken => overtaken')

\* Nothing is taken back of what went wrong.
LEMMA MonotoneStep ==
  ASSUME TypeOK, Next
  PROVE  Monotone
<1>n. Numbers
  BY NumbersOK
<1>1. ASSUME NEW c \in Conns, Connect(c) PROVE Monotone
  <2>1. faults' = faults /\ crashes' = crashes /\ overtaken' = overtaken
    BY <1>1, ConnectStep
  <2> QED BY <1>n, <2>1 DEF Monotone, Numbers
<1>2. ASSUME NEW c \in Conns, Reread(c) PROVE Monotone
  <2>1. faults' = faults /\ crashes' = crashes /\ overtaken' = overtaken
    BY <1>2, RereadStep
  <2> QED BY <1>n, <2>1 DEF Monotone, Numbers
<1>3. ASSUME NEW c \in Conns, Claim(c) PROVE Monotone
  <2>1. faults' = faults /\ crashes' = crashes /\ (overtaken => overtaken')
    BY <1>3, ClaimStep
  <2> QED BY <1>n, <2>1 DEF Monotone, Numbers
<1>4. ASSUME StartOperation PROVE Monotone
  <2>1. faults' = faults /\ crashes' = crashes /\ overtaken' = overtaken
    BY <1>4, StartStep
  <2> QED BY <1>n, <2>1 DEF Monotone, Numbers
<1>5. ASSUME Reissue PROVE Monotone
  <2>1. faults' = faults /\ crashes' = crashes /\ overtaken' = overtaken
    BY <1>5, ReissueStep
  <2> QED BY <1>n, <2>1 DEF Monotone, Numbers
<1>6. ASSUME ReceiveReply PROVE Monotone
  <2>1. faults' = faults /\ crashes' = crashes /\ overtaken' = overtaken
    BY <1>6, ReplyStep
  <2> QED BY <1>n, <2>1 DEF Monotone, Numbers
<1>7. ASSUME Finish PROVE Monotone
  <2>1. faults' = faults /\ crashes' = crashes /\ overtaken' = overtaken
    BY <1>7, FinishStep
  <2> QED BY <1>n, <2>1 DEF Monotone, Numbers
<1>8. ASSUME NEW c \in Conns, OpenOperation(c) PROVE Monotone
  <2>1. faults' >= faults /\ crashes' = crashes /\ overtaken' = overtaken
    BY <1>8, OpenStep
  <2> QED BY <1>n, <2>1 DEF Monotone, Numbers
<1>9. ASSUME NEW c \in Conns, CloseOperation(c) PROVE Monotone
  <2>1. faults' = faults /\ crashes' = crashes /\ overtaken' = overtaken
    BY <1>9, CloseStep
  <2> QED BY <1>n, <2>1 DEF Monotone, Numbers
<1>10. ASSUME NEW c \in Conns, Refuse(c) PROVE Monotone
  <2>1. faults' = faults /\ crashes' = crashes /\ overtaken' = overtaken
    BY <1>10, RefuseStep
  <2> QED BY <1>n, <2>1 DEF Monotone, Numbers
<1>11. ASSUME NEW c \in Conns, FlushRead(c) PROVE Monotone
  <2>1. faults' = faults /\ crashes' = crashes /\ overtaken' = overtaken
    BY <1>11, FlushReadStep
  <2> QED BY <1>n, <2>1 DEF Monotone, Numbers
<1>12. ASSUME NEW c \in Conns, FlushWrite(c) PROVE Monotone
  <2>1. Fault \/ UNCHANGED faults
    BY <1>12 DEF FlushWrite
  <2>2. faults' >= faults
    BY <2>1, FaultType
  <2>3. crashes' = crashes /\ overtaken' = overtaken
    BY <1>12, FlushWriteStep
  <2> QED BY <1>n, <2>2, <2>3 DEF Monotone, Numbers
<1>13. ASSUME Break PROVE Monotone
  <2>1. faults' = faults /\ crashes' = crashes /\ overtaken' = overtaken
    BY <1>13, BreakStep
  <2> QED BY <1>n, <2>1 DEF Monotone, Numbers
<1>14. ASSUME NEW c \in Conns, EndReading(c) PROVE Monotone
  <2>1. faults' = faults /\ crashes' = crashes /\ overtaken' = overtaken
    BY <1>14, EndStep
  <2> QED BY <1>n, <2>1 DEF Monotone, Numbers
<1>15. ASSUME NEW c \in Conns, FinalCounters(c) PROVE Monotone
  <2>1. Fault \/ UNCHANGED faults
    BY <1>15 DEF FinalCounters
  <2>2. faults' >= faults
    BY <2>1, FaultType
  <2>3. crashes' = crashes /\ overtaken' = overtaken
    BY <1>15, FinalStep
  <2> QED BY <1>n, <2>2, <2>3 DEF Monotone, Numbers
<1>16. ASSUME NEW c \in Conns, HandBack(c) PROVE Monotone
  <2>1. faults' = faults /\ crashes' = crashes /\ overtaken' = overtaken
    BY <1>16, HandBackStep
  <2> QED BY <1>n, <2>1 DEF Monotone, Numbers
<1>17. ASSUME Crash PROVE Monotone
  <2>1. faults' = faults /\ crashes' = crashes + 1 /\ overtaken' = overtaken
    BY <1>17 DEF Crash
  <2> QED BY <1>n, <2>1 DEF Monotone, Numbers
<1> QED BY <1>1, <1>2, <1>3, <1>4, <1>5, <1>6, <1>7, <1>8, <1>9,
           <1>10, <1>11, <1>12, <1>13, <1>14, <1>15, <1>16, <1>17
        DEF Next, Handle, Flush, Leave

\* The stored counter is written: it rises, or a claim puts back what it read.
CounterMoves ==
  \/ row'.bsOp >= row.bsOp
  \/ \E c \in Conns : /\ mem[c].pc = "claiming" /\ row'.bsOp = mem[c].last
                      /\ overtaken' = (overtaken \/ link.conn # c)

\* Who writes the counter of the row.
LEMMA CounterMovesStep ==
  ASSUME TypeOK, TypeOK', Next
  PROVE  CounterMoves
<1>n. Numbers
  BY NumbersOK
<1>1. ASSUME NEW c \in Conns, Connect(c) PROVE CounterMoves
  <2>1. row' = row \/ RowIs("terminated", row.bsOp)
    BY <1>1, ConnectStep
  <2> QED BY <1>n, <2>1 DEF CounterMoves, Numbers, RowIs
<1>2. ASSUME NEW c \in Conns, Reread(c) PROVE CounterMoves
  <2>1. row' = row
    BY <1>2, RereadStep
  <2> QED BY <1>n, <2>1 DEF CounterMoves, Numbers
<1>3. ASSUME NEW c \in Conns, Claim(c) PROVE CounterMoves
  <2>1. \/ row' = row
        \/ /\ mem[c].pc = "claiming" /\ RowIs("active", mem[c].last)
           /\ overtaken' = (overtaken \/ link.conn # c)
    BY <1>3, ClaimStep
  <2> QED BY <1>n, <2>1 DEF CounterMoves, Numbers, RowIs
<1>4. ASSUME StartOperation PROVE CounterMoves
  <2>1. row' = row
    BY <1>4, StartStep
  <2> QED BY <1>n, <2>1 DEF CounterMoves, Numbers
<1>5. ASSUME Reissue PROVE CounterMoves
  <2>1. row' = row
    BY <1>5, ReissueStep
  <2> QED BY <1>n, <2>1 DEF CounterMoves, Numbers
<1>6. ASSUME ReceiveReply PROVE CounterMoves
  <2>1. row' = row
    BY <1>6, ReplyStep
  <2> QED BY <1>n, <2>1 DEF CounterMoves, Numbers
<1>7. ASSUME Finish PROVE CounterMoves
  <2>1. row' = row
    BY <1>7, FinishStep
  <2> QED BY <1>n, <2>1 DEF CounterMoves, Numbers
<1>8. ASSUME NEW c \in Conns, OpenOperation(c) PROVE CounterMoves
  BY <1>8, HandlesStep DEF Handles, CounterMoves
<1>9. ASSUME NEW c \in Conns, CloseOperation(c) PROVE CounterMoves
  BY <1>9, HandlesStep DEF Handles, CounterMoves
<1>10. ASSUME NEW c \in Conns, Refuse(c) PROVE CounterMoves
  <2>1. row' = row
    BY <1>10, RefuseStep
  <2> QED BY <1>n, <2>1 DEF CounterMoves, Numbers
<1>11. ASSUME NEW c \in Conns, FlushRead(c) PROVE CounterMoves
  <2>1. row' = row
    BY <1>11, FlushReadStep
  <2> QED BY <1>n, <2>1 DEF CounterMoves, Numbers
<1>12. ASSUME NEW c \in Conns, FlushWrite(c) PROVE CounterMoves
  <2>1. row' = row \/ \E b \in {row.bsOp, flush[c].read} : b >= row.bsOp /\ RowIs(row.status, b)
    BY <1>12, FlushWriteStep
  <2> QED BY <1>n, <2>1 DEF CounterMoves, Numbers, RowIs
<1>13. ASSUME Break PROVE CounterMoves
  <2>1. row' = row
    BY <1>13, BreakStep
  <2> QED BY <1>n, <2>1 DEF CounterMoves, Numbers
<1>14. ASSUME NEW c \in Conns, EndReading(c) PROVE CounterMoves
  <2>1. row' = row
    BY <1>14, EndStep
  <2> QED BY <1>n, <2>1 DEF CounterMoves, Numbers
<1>15. ASSUME NEW c \in Conns, FinalCounters(c) PROVE CounterMoves
  <2>1. row' = row \/ \E b \in {row.bsOp, mem[c].last} : b >= row.bsOp /\ RowIs(row.status, b)
    BY <1>15, FinalStep
  <2> QED BY <1>n, <2>1 DEF CounterMoves, Numbers, RowIs
<1>16. ASSUME NEW c \in Conns, HandBack(c) PROVE CounterMoves
  <2>1. RowIs("disconnected", row.bsOp)
    BY <1>16, HandBackStep
  <2> QED BY <1>n, <2>1 DEF CounterMoves, Numbers, RowIs
<1>17. ASSUME Crash PROVE CounterMoves
  <2>1. \E s : RowIs(s, row.bsOp)
    BY <1>17, CrashStep
  <2> QED BY <1>n, <2>1 DEF CounterMoves, Numbers, RowIs
<1> QED BY <1>1, <1>2, <1>3, <1>4, <1>5, <1>6, <1>7, <1>8, <1>9,
           <1>10, <1>11, <1>12, <1>13, <1>14, <1>15, <1>16, <1>17
        DEF Next, Handle, Flush, Leave

\* StoredOnlyRises, of one step.
Rises == row'.bsOp >= row.bsOp \/ overtaken' \/ faults > 0

\* A step lowers the stored counter only when it is overtaken or a statement failed.
LEMMA RisesStep ==
  ASSUME TypeOK, Handshake, CounterMoves
  PROVE  Rises
<1>1. CASE row'.bsOp >= row.bsOp
  BY <1>1 DEF Rises
<1>2. ASSUME NEW c \in Conns, mem[c].pc = "claiming", row'.bsOp = mem[c].last, overtaken' = (overtaken \/ link.conn # c)
      PROVE  Rises
  <2>1. CASE overtaken \/ link.conn # c
    BY <1>2, <2>1 DEF Rises
  <2>2. CASE ~overtaken /\ link.conn = c
    <3>1. faults = 0 => row.bsOp <= mem[c].last
      BY <1>2, <2>2 DEF Handshake, HandshakeAt
    <3>2. faults \in Nat /\ row.bsOp \in Int /\ mem[c].last \in Int
      BY NumbersOK, OperationsAssumption DEF Numbers, TypeOK
    <3> QED BY <1>2, <3>1, <3>2 DEF Rises
  <2> QED BY <2>1, <2>2
<1> QED BY <1>1, <1>2 DEF CounterMoves

\* Every step keeps late flushers harmless.
LEMMA LateFlushStep ==
  ASSUME TypeOK, TypeOK', FlushBound, LateFlush, Monotone, Rises, Next
  PROVE  LateFlush'
<1> SUFFICES ASSUME NEW d \in Conns, faults' = 0, ~overtaken', Late(d)'
             PROVE  mem'[d].last <= row'.bsOp
  BY DEF LateFlush
<1>n. Numbers
  BY NumbersOK
<1>f. faults = 0 /\ ~overtaken
  BY OperationsAssumption DEF Monotone, TypeOK
<1>r. row'.bsOp >= row.bsOp
  BY <1>f DEF Rises
<1>i. /\ mem[d].last \in Nat /\ mem'[d].last \in Nat /\ row.bsOp \in Nat /\ row'.bsOp \in Nat
  BY <1>n, NumbersNext DEF Numbers
<1>b. flush[d].running => mem[d].pc \in {"active", "counting", "handing back", "gone"}
  BY DEF FlushBound, FlushBoundAt, Owning
<1>k. ASSUME Late(d), mem'[d].last <= mem[d].last
      PROVE  mem'[d].last <= row'.bsOp
  <2>1. mem[d].last <= row.bsOp
    BY <1>f, <1>k DEF LateFlush
  <2> QED BY <1>i, <1>k, <1>r, <2>1
<1>e. flush'[d].running /\ mem'[d].pc \in {"handing back", "gone"}
  BY DEF Late
<1>m. ASSUME mem'[d] = mem[d], flush[d].running
      PROVE  mem'[d].last <= row'.bsOp
  <2>1. Late(d)
    BY <1>e, <1>m DEF Late
  <2>2. mem'[d].last <= mem[d].last
    BY <1>i, <1>m
  <2> QED BY <1>k, <2>1, <2>2
<1>1. ASSUME NEW c \in Conns, Connect(c) PROVE mem'[d].last <= row'.bsOp
  <2>1. flush' = flush /\ (mem' = mem \/ MemIs(c, "offered", row.bsOp, {}))
    BY <1>1, ConnectStep
  <2>2. CASE mem' = mem
    BY <1>e, <1>m, <2>1, <2>2
  <2>3. CASE MemIs(c, "offered", row.bsOp, {})
    <3>1. d # c /\ mem'[d] = mem[d]
      BY <2>3 DEF MemIs, Late
    <3> QED BY <1>e, <1>m, <2>1, <3>1
  <2> QED BY <2>1, <2>2, <2>3
<1>2. ASSUME NEW c \in Conns, Reread(c) PROVE mem'[d].last <= row'.bsOp
  <2>1. flush' = flush /\ d # c /\ mem'[d] = mem[d]
    BY <1>2, RereadStep DEF MemIs, Late
  <2> QED BY <1>e, <1>m, <2>1
<1>3. ASSUME NEW c \in Conns, Claim(c) PROVE mem'[d].last <= row'.bsOp
  <2>1. flush' = flush /\ mem[c].pc = "claiming" /\ (d # c => mem'[d] = mem[d])
    BY <1>3, ClaimStep DEF MemIs
  <2>2. d # c
    BY <1>b, <2>1 DEF Late
  <2> QED BY <1>e, <1>m, <2>1, <2>2
<1>4. ASSUME StartOperation PROVE mem'[d].last <= row'.bsOp
  <2>1. mem' = mem /\ flush' = flush
    BY <1>4, StartStep
  <2> QED BY <1>e, <1>m, <2>1
<1>5. ASSUME Reissue PROVE mem'[d].last <= row'.bsOp
  <2>1. mem' = mem /\ flush' = flush
    BY <1>5, ReissueStep
  <2> QED BY <1>e, <1>m, <2>1
<1>6. ASSUME ReceiveReply PROVE mem'[d].last <= row'.bsOp
  <2>1. mem' = mem /\ flush' = flush
    BY <1>6, ReplyStep
  <2> QED BY <1>e, <1>m, <2>1
<1>7. ASSUME Finish PROVE mem'[d].last <= row'.bsOp
  <2>1. mem' = mem /\ flush' = flush
    BY <1>7, FinishStep
  <2> QED BY <1>e, <1>m, <2>1
<1>8. ASSUME NEW c \in Conns, OpenOperation(c) PROVE mem'[d].last <= row'.bsOp
  <2>1. d # c /\ mem'[d] = mem[d] /\ flush'[d] = flush[d]
    BY <1>8, HandlesStep DEF Handles, Late
  <2> QED BY <1>e, <1>m, <2>1
<1>9. ASSUME NEW c \in Conns, CloseOperation(c) PROVE mem'[d].last <= row'.bsOp
  <2>1. d # c /\ mem'[d] = mem[d] /\ flush'[d] = flush[d]
    BY <1>9, HandlesStep DEF Handles, Late
  <2> QED BY <1>e, <1>m, <2>1
<1>10. ASSUME NEW c \in Conns, Refuse(c) PROVE mem'[d].last <= row'.bsOp
  <2>1. flush' = flush /\ (d # c => mem'[d] = mem[d]) /\ (d = c => mem[c].pc = "offered")
    BY <1>10, EndsStep DEF Ends, Late
  <2>2. d # c
    BY <1>b, <2>1 DEF Late
  <2> QED BY <1>e, <1>m, <2>1, <2>2
<1>11. ASSUME NEW c \in Conns, FlushRead(c) PROVE mem'[d].last <= row'.bsOp
  <2>1. mem' = mem /\ flush[c].running /\ (d # c => flush'[d] = flush[d])
    BY <1>11, FlushReadStep DEF FlushIs
  <2> QED BY <1>e, <1>m, <2>1
<1>12. ASSUME NEW c \in Conns, FlushWrite(c) PROVE mem'[d].last <= row'.bsOp
  <2>1. mem' = mem /\ (d # c => flush'[d] = flush[d])
    BY <1>12, FlushWriteStep DEF FlushIs
  <2>2. flush[d].running
    BY <1>12, <2>1, FlushWriteStep DEF FlushIs, Late
  <2> QED BY <1>e, <1>m, <2>1, <2>2
<1>13. ASSUME Break PROVE mem'[d].last <= row'.bsOp
  <2>1. mem' = mem /\ flush' = flush
    BY <1>13, BreakStep
  <2> QED BY <1>e, <1>m, <2>1
<1>14. ASSUME NEW c \in Conns, EndReading(c) PROVE mem'[d].last <= row'.bsOp
  <2>1. flush' = flush /\ (d # c => mem'[d] = mem[d]) /\ (d = c => mem[c].pc = "offered")
    BY <1>14, EndsStep DEF Ends, Late
  <2>2. d # c
    BY <1>b, <2>1 DEF Late
  <2> QED BY <1>e, <1>m, <2>1, <2>2
<1>15. ASSUME NEW c \in Conns, FinalCounters(c) PROVE mem'[d].last <= row'.bsOp
  <2>1. flush' = flush /\ MemIs(c, "handing back", mem[c].last, mem[c].open)
    BY <1>15, FinalStep
  <2>2. CASE d # c
    <3>1. mem'[d] = mem[d]
      BY <2>1, <2>2 DEF MemIs
    <3> QED BY <1>e, <1>m, <2>1, <3>1
  <2>3. CASE d = c
    <3>0. \A x \in Nat : x = mem[d].last => mem'[d].last = x
      BY <2>1, <2>3, Zenon DEF MemIs
    <3>1. mem'[d].last <= mem[d].last
      BY <1>i, <3>0
    <3>2. \E b \in {row.bsOp, mem[c].last} : b >= mem[c].last /\ RowIs(row.status, b)
      BY <1>15, FinalStep
    <3>3. row'.bsOp >= mem[d].last
      BY <2>3, <3>2 DEF RowIs
    <3> QED BY <1>i, <3>1, <3>3
  <2> QED BY <2>2, <2>3
<1>16. ASSUME NEW c \in Conns, HandBack(c) PROVE mem'[d].last <= row'.bsOp
  <2>1. flush' = flush /\ mem[c].pc = "handing back" /\ MemIs(c, "gone", mem[c].last, mem[c].open)
    BY <1>16, HandBackStep
  <2>2. CASE d # c
    <3>1. mem'[d] = mem[d]
      BY <2>1, <2>2 DEF MemIs
    <3> QED BY <1>e, <1>m, <2>1, <3>1
  <2>3. CASE d = c
    <3>0. \A x \in Nat : x = mem[d].last => mem'[d].last = x
      BY <2>1, <2>3, Zenon DEF MemIs
    <3>1. mem'[d].last <= mem[d].last
      BY <1>i, <3>0
    <3>2. Late(d)
      BY <1>e, <2>1, <2>3 DEF Late
    <3> QED BY <1>k, <3>1, <3>2
  <2> QED BY <2>2, <2>3
<1>17. ASSUME Crash PROVE mem'[d].last <= row'.bsOp
  BY <1>17, CrashStep DEF Late
<1> QED BY <1>1, <1>2, <1>3, <1>4, <1>5, <1>6, <1>7, <1>8, <1>9,
           <1>10, <1>11, <1>12, <1>13, <1>14, <1>15, <1>16, <1>17
        DEF Next, Handle, Flush, Leave

\* Every step respects the handshake in progress.
LEMMA HandshakeStep ==
  ASSUME TypeOK, TypeOK', Owned, FlushBound, LateFlush, Handshake, Monotone, Next
  PROVE  Handshake'
<1> SUFFICES ASSUME NEW d \in Conns, ~overtaken', link'.conn = d, mem'[d].pc \in {"offered", "claiming"}
             PROVE  HandshakeAt(d)'
  BY DEF Handshake, HandshakeAt
<1>n. Numbers
  BY NumbersOK
<1>o. ~overtaken
  BY DEF Monotone
<1>i. mem[d].last \in Nat /\ row.bsOp \in Nat /\ row'.bsOp \in Nat /\ faults \in Nat /\ station.answered \subseteq Int
  BY <1>n, NumbersNext, OperationsAssumption DEF Numbers, TypeOK
<1>h. ASSUME link.conn = d, mem[d].pc \in {"offered", "claiming"}
      PROVE  /\ row.status = "disconnected" /\ link.frames = <<>> /\ link.replies = {}
             /\ \A n \in station.answered : n <= row.bsOp /\ (mem[d].pc = "claiming" => n <= mem[d].last)
             /\ mem[d].pc = "claiming" /\ faults = 0 => row.bsOp <= mem[d].last
             /\ \A c \in Conns : mem[c].pc \notin Owning
  BY <1>h, <1>o DEF Handshake, HandshakeAt, Owned
<1>k. ASSUME link' = link, mem'[d] = mem[d], station' = station, row'.status = "disconnected", row'.bsOp >= row.bsOp,
             faults' = 0 => faults = 0 /\ row'.bsOp <= row.bsOp
      PROVE  HandshakeAt(d)'
  <2>1. link.conn = d /\ mem[d].pc \in {"offered", "claiming"}
    BY <1>k
  <2> QED BY <1>h, <1>i, <1>k, <2>1 DEF HandshakeAt
<1>u. ASSUME link' = link, mem'[d] = mem[d], station' = station, row' = row, faults' = faults
      PROVE  HandshakeAt(d)'
  <2>1. link.conn = d /\ mem[d].pc \in {"offered", "claiming"}
    BY <1>u
  <2>2. row'.status = "disconnected" /\ row'.bsOp >= row.bsOp /\ row'.bsOp <= row.bsOp
    BY <1>h, <1>i, <1>u, <2>1
  <2> QED BY <1>k, <1>u, <2>2
<1>d. link' # Down
  BY DownFields
<1>1. ASSUME NEW c \in Conns, Connect(c) PROVE HandshakeAt(d)'
  <2>0. link = Down /\ station' = station /\ row.status = "disconnected"
    BY <1>1, ConnectStep
  <2>1. link' # link
    BY <1>d, <2>0
  <2>2. /\ Consistent /\ MemIs(c, "offered", row.bsOp, {}) /\ row' = row /\ LinkIs(c, <<>>, {})
    BY <1>1, <2>1, ConnectStep
  <2>3. link'.conn = c /\ link'.frames = <<>> /\ link'.replies = {} /\ d = c /\ mem'[d].pc = "offered"
    BY <2>2 DEF LinkIs, MemIs
  <2> QED BY <2>0, <2>2, <2>3 DEF HandshakeAt, Consistent
<1>2. ASSUME NEW c \in Conns, Reread(c) PROVE HandshakeAt(d)'
  <2>1. /\ link.conn = c /\ mem[c].pc = "offered" /\ row' = row /\ link' = link /\ station' = station
        /\ MemIs(c, "claiming", row.bsOp, mem[c].open)
    BY <1>2, RereadStep
  <2>2. d = c
    BY <2>1
  <2>3. mem'[d].pc = "claiming" /\ mem'[d].last = row.bsOp
    BY <2>1, <2>2 DEF MemIs
  <2> QED BY <1>h, <1>i, <2>1, <2>2, <2>3 DEF HandshakeAt
<1>3. ASSUME NEW c \in Conns, Claim(c) PROVE HandshakeAt(d)'
  <2>1. CASE overtaken' = (overtaken \/ link.conn # c) /\ link' = link /\ MemIs(c, "active", mem[c].last, Reopened(c))
    <3>1. link.conn = c /\ mem'[c].pc = "active" /\ d = c
      BY <2>1 DEF MemIs
    <3> QED BY <3>1
  <2>2. CASE /\ row' = row /\ station' = station /\ MemIs(c, "gone", mem[c].last, mem[c].open)
             /\ (link.conn = c /\ link' = Down) \/ (link.conn # c /\ link' = link)
    <3>1. link' = link /\ d # c /\ mem'[d] = mem[d]
      BY <1>d, <2>2 DEF MemIs
    <3>2. faults' = faults
      BY <1>3, ClaimStep
    <3> QED BY <1>u, <2>2, <3>1, <3>2
  <2> QED BY <1>3, <2>1, <2>2, ClaimStep
<1>4. ASSUME StartOperation PROVE HandshakeAt(d)'
  <2>1. Connected /\ mem' = mem /\ link'.conn = link.conn
    BY <1>4, StartStep DEF LinkIs
  <2> QED BY <2>1 DEF Connected
<1>5. ASSUME Reissue PROVE HandshakeAt(d)'
  <2>1. Connected /\ mem' = mem /\ link'.conn = link.conn
    BY <1>5, ReissueStep DEF LinkIs
  <2> QED BY <2>1 DEF Connected
<1>6. ASSUME ReceiveReply PROVE HandshakeAt(d)'
  <2>1. mem' = mem /\ link'.conn = link.conn /\ link.replies # {}
    BY <1>6, ReplyStep DEF LinkIs
  <2> QED BY <1>h, <2>1
<1>7. ASSUME Finish PROVE HandshakeAt(d)'
  <2>1. Connected /\ mem' = mem /\ link'.conn = link.conn
    BY <1>7, FinishStep DEF LinkIs
  <2> QED BY <2>1 DEF Connected
<1>8. ASSUME NEW c \in Conns, OpenOperation(c) PROVE HandshakeAt(d)'
  <2>1. d = c /\ mem'[c].pc = "active"
    BY <1>8, HandlesStep DEF Handles
  <2> QED BY <2>1
<1>9. ASSUME NEW c \in Conns, CloseOperation(c) PROVE HandshakeAt(d)'
  <2>1. d = c /\ mem'[c].pc = "active"
    BY <1>9, HandlesStep DEF Handles
  <2> QED BY <2>1
<1>10. ASSUME NEW c \in Conns, Refuse(c) PROVE HandshakeAt(d)'
  <2>1. Ends(c)
    BY <1>10, EndsStep
  <2>2. link' = link /\ row' = row /\ station' = station /\ faults' = faults /\ d # c /\ mem'[d] = mem[d]
    BY <1>d, <2>1 DEF Ends
  <2> QED BY <1>u, <2>2
<1>11. ASSUME NEW c \in Conns, FlushRead(c) PROVE HandshakeAt(d)'
  <2>1. link' = link /\ row' = row /\ station' = station /\ faults' = faults /\ mem' = mem
    BY <1>11, FlushReadStep
  <2> QED BY <1>u, <2>1
<1>12. ASSUME NEW c \in Conns, FlushWrite(c) PROVE HandshakeAt(d)'
  <2>1. link' = link /\ station' = station /\ mem' = mem /\ flush[c].read # NoValue
    BY <1>12, FlushWriteStep
  <2>2. link.conn = d /\ mem[d].pc \in {"offered", "claiming"}
    BY <2>1
  <2>3. CASE row' = row /\ faults' # 0
    BY <1>h, <1>i, <1>k, <2>1, <2>2, <2>3
  <2>4. CASE faults' = faults /\ \E b \in {row.bsOp, flush[c].read} : b >= row.bsOp /\ RowIs(row.status, b)
    <3>1. PICK b \in {row.bsOp, flush[c].read} : b >= row.bsOp /\ RowIs(row.status, b)
      BY <2>4
    <3>2. row'.status = "disconnected" /\ row'.bsOp = b
      BY <1>h, <2>2, <3>1 DEF RowIs
    <3>3. flush[c].running /\ mem[c].pc \in Owning \cup {"gone"} /\ flush[c].read <= mem[c].last
      BY <2>1 DEF FlushBound, FlushBoundAt
    <3>4. mem[c].pc = "gone"
      BY <1>h, <2>2, <3>3
    <3>5. faults = 0 => mem[c].last <= row.bsOp
      BY <1>o, <3>3, <3>4 DEF LateFlush, Late
    <3>6. flush[c].read \in Int /\ mem[c].last \in Nat
      BY <1>n DEF Numbers
    <3>7. faults = 0 => b <= row.bsOp
      BY <1>i, <3>3, <3>5, <3>6
    <3> QED BY <1>k, <2>1, <2>4, <3>1, <3>2, <3>7
  <2> QED BY <1>12, <2>3, <2>4, FlushWriteStep
<1>13. ASSUME Break PROVE HandshakeAt(d)'
  BY <1>13, <1>d, BreakStep
<1>14. ASSUME NEW c \in Conns, EndReading(c) PROVE HandshakeAt(d)'
  <2>1. Ends(c)
    BY <1>14, EndsStep
  <2>2. link' = link /\ row' = row /\ station' = station /\ faults' = faults /\ d # c /\ mem'[d] = mem[d]
    BY <1>d, <2>1 DEF Ends
  <2> QED BY <1>u, <2>2
<1>15. ASSUME NEW c \in Conns, FinalCounters(c) PROVE HandshakeAt(d)'
  <2>1. link' = link /\ mem[c].pc = "counting" /\ MemIs(c, "handing back", mem[c].last, mem[c].open)
    BY <1>15, FinalStep
  <2>2. d # c /\ mem'[d] = mem[d]
    BY <2>1 DEF MemIs
  <2> QED BY <1>h, <2>1, <2>2 DEF Owning
<1>16. ASSUME NEW c \in Conns, HandBack(c) PROVE HandshakeAt(d)'
  <2>1. link' = link /\ mem[c].pc = "handing back" /\ MemIs(c, "gone", mem[c].last, mem[c].open)
    BY <1>16, HandBackStep
  <2>2. d # c /\ mem'[d] = mem[d]
    BY <2>1 DEF MemIs
  <2> QED BY <1>h, <2>1, <2>2 DEF Owning
<1>17. ASSUME Crash PROVE HandshakeAt(d)'
  BY <1>17, <1>d, CrashStep
<1> QED BY <1>1, <1>2, <1>3, <1>4, <1>5, <1>6, <1>7, <1>8, <1>9,
           <1>10, <1>11, <1>12, <1>13, <1>14, <1>15, <1>16, <1>17
        DEF Next, Handle, Flush, Leave

\* What the connection that has the row knows stays known, to it or to the row.
KeepsAt(d) ==
  mem[d].pc \in {"active", "counting"} =>
    \/ mem'[d].pc \in {"active", "counting"} /\ mem'[d].last >= mem[d].last
    \/ row'.bsOp >= mem[d].last

\* Without failures the counter a connection reached is in memory or stored.
LEMMA KeepsStep ==
  ASSUME TypeOK, TypeOK', Next, faults' = 0, crashes' = 0, NEW d \in Conns
  PROVE  KeepsAt(d)
<1>n. mem[d].last \in Nat /\ mem'[d].last \in Nat
  BY NumbersOK, NumbersNext DEF Numbers
<1>m. ASSUME mem'[d] = mem[d] PROVE KeepsAt(d)
  <2>1. mem'[d].last >= mem[d].last
    BY <1>m, <1>n
  <2> QED BY <1>m, <2>1 DEF KeepsAt
<1>v. ASSUME mem[d].pc \notin {"active", "counting"} PROVE KeepsAt(d)
  BY <1>v DEF KeepsAt
<1>1. ASSUME NEW c \in Conns, Connect(c) PROVE KeepsAt(d)
  <2>1. mem[c].pc = "unused" /\ (mem' = mem \/ MemIs(c, "offered", row.bsOp, {}))
    BY <1>1, ConnectStep
  <2>2. d # c => mem'[d] = mem[d]
    BY <2>1 DEF MemIs
  <2> QED BY <1>m, <1>v, <2>1, <2>2
<1>2. ASSUME NEW c \in Conns, Reread(c) PROVE KeepsAt(d)
  <2>1. mem[c].pc = "offered" /\ (d # c => mem'[d] = mem[d])
    BY <1>2, RereadStep DEF MemIs
  <2> QED BY <1>m, <1>v, <2>1
<1>3. ASSUME NEW c \in Conns, Claim(c) PROVE KeepsAt(d)
  <2>1. mem[c].pc = "claiming" /\ (d # c => mem'[d] = mem[d])
    BY <1>3, ClaimStep DEF MemIs
  <2> QED BY <1>m, <1>v, <2>1
<1>4. ASSUME StartOperation PROVE KeepsAt(d)
  BY <1>4, <1>m, StartStep
<1>5. ASSUME Reissue PROVE KeepsAt(d)
  BY <1>5, <1>m, ReissueStep
<1>6. ASSUME ReceiveReply PROVE KeepsAt(d)
  BY <1>6, <1>m, ReplyStep
<1>7. ASSUME Finish PROVE KeepsAt(d)
  BY <1>7, <1>m, FinishStep
<1>8. ASSUME NEW c \in Conns, OpenOperation(c) PROVE KeepsAt(d)
  <2>1. Handles(c)
    BY <1>8, HandlesStep
  <2> QED BY <1>m, <2>1 DEF Handles, KeepsAt
<1>9. ASSUME NEW c \in Conns, CloseOperation(c) PROVE KeepsAt(d)
  <2>1. Handles(c)
    BY <1>9, HandlesStep
  <2> QED BY <1>m, <2>1 DEF Handles, KeepsAt
<1>10. ASSUME NEW c \in Conns, Refuse(c) PROVE KeepsAt(d)
  <2>1. Ends(c)
    BY <1>10, EndsStep
  <2> QED BY <1>m, <2>1 DEF Ends, KeepsAt
<1>11. ASSUME NEW c \in Conns, FlushRead(c) PROVE KeepsAt(d)
  BY <1>11, <1>m, FlushReadStep
<1>12. ASSUME NEW c \in Conns, FlushWrite(c) PROVE KeepsAt(d)
  BY <1>12, <1>m, FlushWriteStep
<1>13. ASSUME Break PROVE KeepsAt(d)
  BY <1>13, <1>m, BreakStep
<1>14. ASSUME NEW c \in Conns, EndReading(c) PROVE KeepsAt(d)
  <2>1. Ends(c)
    BY <1>14, EndsStep
  <2> QED BY <1>m, <2>1 DEF Ends, KeepsAt
<1>15. ASSUME NEW c \in Conns, FinalCounters(c) PROVE KeepsAt(d)
  <2>1. d # c => mem'[d] = mem[d]
    BY <1>15, FinalStep DEF MemIs
  <2>2. \E b \in {row.bsOp, mem[c].last} : b >= mem[c].last /\ RowIs(row.status, b)
    BY <1>15, FinalStep
  <2>3. row'.bsOp >= mem[c].last
    BY <2>2 DEF RowIs
  <2> QED BY <1>m, <2>1, <2>3 DEF KeepsAt
<1>16. ASSUME NEW c \in Conns, HandBack(c) PROVE KeepsAt(d)
  <2>1. mem[c].pc = "handing back" /\ (d # c => mem'[d] = mem[d])
    BY <1>16, HandBackStep DEF MemIs
  <2> QED BY <1>m, <1>v, <2>1
<1>17. ASSUME Crash PROVE KeepsAt(d)
  BY <1>17, CrashStep
<1> QED BY <1>1, <1>2, <1>3, <1>4, <1>5, <1>6, <1>7, <1>8, <1>9,
           <1>10, <1>11, <1>12, <1>13, <1>14, <1>15, <1>16, <1>17
        DEF Next, Handle, Flush, Leave

\* Only the connection with the row answers.
NewlyAnswered ==
  \A n \in station'.answered \cup link'.replies :
    \/ n \in station.answered \cup link.replies
    \/ \E d \in Conns : mem'[d].pc \in {"active", "counting"} /\ n <= mem'[d].last

\* What is newly answered was handled at or below the counter.
LEMMA NewlyAnsweredStep ==
  ASSUME TypeOK, TypeOK', Next
  PROVE  NewlyAnswered
<1>s. ASSUME station'.answered \subseteq station.answered \cup link.replies, link'.replies \subseteq link.replies
      PROVE  NewlyAnswered
  BY <1>s DEF NewlyAnswered
<1>d. link' = Down => link'.replies = {}
  BY DownFields
<1>l. link' = link => link'.replies \subseteq link.replies
  OBVIOUS
<1>t. station' = station => station'.answered \subseteq station.answered \cup link.replies
  OBVIOUS
<1>1. ASSUME NEW c \in Conns, Connect(c) PROVE NewlyAnswered
  <2>1. station' = station /\ (link' = link \/ LinkIs(c, <<>>, {}))
    BY <1>1, ConnectStep
  <2> QED BY <1>s, <1>l, <1>t, <2>1 DEF LinkIs
<1>2. ASSUME NEW c \in Conns, Reread(c) PROVE NewlyAnswered
  BY <1>2, <1>s, <1>d, <1>l, <1>t, RereadStep
<1>3. ASSUME NEW c \in Conns, Claim(c) PROVE NewlyAnswered
  <2>1. station'.answered = station.answered
    BY <1>3, ClaimStep DEF StationIs
  <2>2. link' = link \/ link' = Down
    BY <1>3, ClaimStep
  <2> QED BY <1>s, <1>d, <1>l, <2>1, <2>2
<1>4. ASSUME StartOperation PROVE NewlyAnswered
  <2>1. link'.replies = link.replies
    BY <1>4, StartStep DEF LinkIs
  <2>2. station'.answered = station.answered
    BY <1>4, StartStep DEF StationIs
  <2> QED BY <1>s, <2>1, <2>2
<1>5. ASSUME Reissue PROVE NewlyAnswered
  <2>1. link'.replies = link.replies
    BY <1>5, ReissueStep DEF LinkIs
  <2>2. station'.answered = station.answered
    BY <1>5, ReissueStep DEF StationIs
  <2> QED BY <1>s, <2>1, <2>2
<1>6. ASSUME ReceiveReply PROVE NewlyAnswered
  <2>1. PICK n \in link.replies : /\ LinkIs(link.conn, link.frames, link.replies \ {n})
                                /\ StationIs(station.last, station.open, station.answered \cup {n}, station.todo)
    BY <1>6, ReplyStep
  <2>2. link'.replies = link.replies \ {n} /\ station'.answered = station.answered \cup {n}
    BY <2>1 DEF LinkIs, StationIs
  <2> QED BY <1>s, <2>2
<1>7. ASSUME Finish PROVE NewlyAnswered
  <2>1. link'.replies = link.replies
    BY <1>7, FinishStep DEF LinkIs
  <2>2. station'.answered = station.answered
    BY <1>7, FinishStep DEF StationIs
  <2> QED BY <1>s, <2>1, <2>2
<1>8. ASSUME NEW c \in Conns, OpenOperation(c) PROVE NewlyAnswered
  <2>1. station' = station /\ LinkIs(link.conn, Tail(link.frames), link.replies \cup {Frame.id})
    BY <1>8, OpenStep
  <2>2. link'.replies = link.replies \cup {Frame.id}
    BY <2>1 DEF LinkIs
  <2>3. PICK l \in {mem[c].last, Frame.id} : l >= Frame.id /\ MemIs(c, "active", l, mem[c].open \cup {Frame.id})
    BY <1>8, OpenStep
  <2>4. mem'[c].pc = "active" /\ Frame.id <= mem'[c].last
    BY <2>3 DEF MemIs
  <2> QED BY <2>1, <2>2, <2>4 DEF NewlyAnswered
<1>9. ASSUME NEW c \in Conns, CloseOperation(c) PROVE NewlyAnswered
  <2>1. station' = station /\ LinkIs(link.conn, Tail(link.frames), link.replies)
    BY <1>9, CloseStep
  <2>2. link'.replies = link.replies
    BY <2>1 DEF LinkIs
  <2> QED BY <1>s, <1>t, <2>1, <2>2
<1>10. ASSUME NEW c \in Conns, Refuse(c) PROVE NewlyAnswered
  BY <1>10, <1>s, <1>d, <1>l, <1>t, RefuseStep
<1>11. ASSUME NEW c \in Conns, FlushRead(c) PROVE NewlyAnswered
  BY <1>11, <1>s, <1>d, <1>l, <1>t, FlushReadStep
<1>12. ASSUME NEW c \in Conns, FlushWrite(c) PROVE NewlyAnswered
  BY <1>12, <1>s, <1>d, <1>l, <1>t, FlushWriteStep
<1>13. ASSUME Break PROVE NewlyAnswered
  <2>1. link' = Down /\ station'.answered = station.answered
    BY <1>13, BreakStep DEF StationIs
  <2> QED BY <1>s, <1>d, <2>1
<1>14. ASSUME NEW c \in Conns, EndReading(c) PROVE NewlyAnswered
  BY <1>14, <1>s, <1>d, <1>l, <1>t, EndStep
<1>15. ASSUME NEW c \in Conns, FinalCounters(c) PROVE NewlyAnswered
  BY <1>15, <1>s, <1>d, <1>l, <1>t, FinalStep
<1>16. ASSUME NEW c \in Conns, HandBack(c) PROVE NewlyAnswered
  BY <1>16, <1>s, <1>d, <1>l, <1>t, HandBackStep
<1>17. ASSUME Crash PROVE NewlyAnswered
  <2>1. link' = Down /\ station'.answered = station.answered
    BY <1>17, CrashStep DEF StationIs
  <2> QED BY <1>s, <1>d, <2>1
<1> QED BY <1>1, <1>2, <1>3, <1>4, <1>5, <1>6, <1>7, <1>8, <1>9,
           <1>10, <1>11, <1>12, <1>13, <1>14, <1>15, <1>16, <1>17
        DEF Next, Handle, Flush, Leave

\* Every step keeps what was answered known.
LEMMA AnsweredStep ==
  ASSUME TypeOK, TypeOK', AnsweredKnown, Monotone, Rises, Next
  PROVE  AnsweredKnown'
<1> SUFFICES ASSUME crashes' = 0, faults' = 0, ~overtaken', NEW n \in station'.answered \cup link'.replies
             PROVE  n <= row'.bsOp \/ \E d \in Conns : mem'[d].pc \in {"active", "counting"} /\ n <= mem'[d].last
  BY DEF AnsweredKnown
<1>1. crashes = 0 /\ faults = 0 /\ ~overtaken
  BY OperationsAssumption DEF Monotone, TypeOK
<1>2. row'.bsOp >= row.bsOp
  BY <1>1 DEF Rises
<1>0. row'.bsOp \in 0..MaxOps
  BY DEF TypeOK, RowType
<1>3. /\ row.bsOp \in Nat /\ row'.bsOp \in Nat
      /\ \A d \in Conns : mem[d].last \in Nat /\ mem'[d].last \in Nat
  BY <1>0, NumbersOK, NumbersNext, OperationsAssumption DEF Numbers
<1>4. CASE n \in station.answered \cup link.replies
  <2>0. n \in Int
    BY <1>4, NumbersOK DEF Numbers
  <2>1. CASE n <= row.bsOp
    BY <1>2, <1>3, <2>0, <2>1
  <2>2. ASSUME NEW d \in Conns, mem[d].pc \in {"active", "counting"}, n <= mem[d].last
        PROVE  n <= row'.bsOp \/ \E e \in Conns : mem'[e].pc \in {"active", "counting"} /\ n <= mem'[e].last
    <3>1. KeepsAt(d)
      BY KeepsStep
    <3> QED BY <1>3, <2>0, <2>2, <3>1 DEF KeepsAt
  <2> QED BY <1>1, <1>4, <2>1, <2>2 DEF AnsweredKnown
<1>5. CASE n \notin station.answered \cup link.replies
  BY <1>5, NewlyAnsweredStep DEF NewlyAnswered
<1> QED BY <1>4, <1>5

\* Every step keeps the session, unless something else went wrong.
LEMMA SurvivesStep ==
  ASSUME TypeOK, TypeOK', Owned, AnsweredKnown, SessionSurvives, Monotone, Next
  PROVE  SessionSurvives'
<1> SUFFICES ASSUME row'.status = "terminated", crashes' = 0, faults' = 0, ~overtaken'
             PROVE  FALSE
  BY NumbersNext, OperationsAssumption DEF SessionSurvives, TypeOK
<1>1. crashes = 0 /\ faults = 0 /\ ~overtaken
  BY OperationsAssumption DEF Monotone, TypeOK
<1>2. row.status # "terminated"
  BY <1>1 DEF SessionSurvives
<1>3. row' # row
  BY <1>2
<1>4. ASSUME NEW c \in Conns, Connect(c) PROVE FALSE
  <2>1. row.status = "disconnected" /\ ~Consistent
    BY <1>3, <1>4, ConnectStep
  <2>2. \A d \in Conns : mem[d].pc \notin Owning
    BY <2>1 DEF Owned
  <2>3. \A n \in station.answered : n <= row.bsOp
    BY <1>1, <2>2 DEF AnsweredKnown, Owning
  <2> QED BY <2>1, <2>3 DEF Consistent
<1>6. ASSUME NEW c \in Conns, Claim(c) PROVE FALSE
  <2>1. RowIs("active", mem[c].last)
    BY <1>3, <1>6, ClaimStep
  <2> QED BY <1>2, <2>1 DEF RowIs
<1>7. ASSUME NEW c \in Conns, OpenOperation(c) \/ CloseOperation(c) PROVE FALSE
  BY <1>2, <1>7, HandlesStep DEF Handles, TypeOK, RowType
<1>8. ASSUME NEW c \in Conns, FlushWrite(c) PROVE FALSE
  <2>1. PICK b \in {row.bsOp, flush[c].read} : RowIs(row.status, b)
    BY <1>3, <1>8, FlushWriteStep
  <2> QED BY <1>2, <2>1 DEF RowIs
<1>9. ASSUME NEW c \in Conns, FinalCounters(c) PROVE FALSE
  <2>1. PICK b \in {row.bsOp, mem[c].last} : RowIs(row.status, b)
    BY <1>3, <1>9, FinalStep
  <2> QED BY <1>2, <2>1 DEF RowIs
<1>10. ASSUME NEW c \in Conns, HandBack(c) PROVE FALSE
  <2>1. RowIs("disconnected", row.bsOp)
    BY <1>10, HandBackStep
  <2> QED BY <2>1 DEF RowIs
<1>11. ASSUME Crash PROVE FALSE
  BY <1>11, CrashStep
<1>12. ASSUME NEW c \in Conns, Reread(c) \/ Refuse(c) \/ FlushRead(c) \/ EndReading(c) PROVE FALSE
  BY <1>3, <1>12 DEF Reread, Refuse, FlushRead, EndReading
<1>13. ASSUME StartOperation \/ Reissue \/ ReceiveReply \/ Finish \/ Break PROVE FALSE
  BY <1>3, <1>13 DEF StartOperation, Reissue, ReceiveReply, Finish, Break
<1> QED BY <1>4, <1>6, <1>7, <1>8, <1>9, <1>10, <1>11, <1>12, <1>13 DEF Next, Handle, Flush, Leave

-----------------------------------------------------------------------------
(* The frames on their way.                                                *)

\* Append and Tail, index by index.
LEMMA AppendFrame ==
  ASSUME NEW F \in Seq(FrameType), NEW x \in FrameType
  PROVE  /\ Append(F, x) \in Seq(FrameType) /\ Len(F) \in Nat /\ Len(Append(F, x)) = Len(F) + 1
         /\ \A i \in 1..Len(F) : Append(F, x)[i] = F[i]
         /\ Append(F, x)[Len(F) + 1] = x
<1> HIDE DEF FrameType
<1> QED OBVIOUS

\* The frames left after the first.
LEMMA TailFrame ==
  ASSUME NEW F \in Seq(FrameType), F # <<>>
  PROVE  /\ Tail(F) \in Seq(FrameType) /\ Len(F) \in Nat /\ Len(F) > 0 /\ Len(Tail(F)) = Len(F) - 1
         /\ Head(F) = F[1] /\ \A i \in 1..(Len(F) - 1) : Tail(F)[i] = F[i + 1]
<1> HIDE DEF FrameType
<1> QED OBVIOUS

\* The id and command of a frame.
LEMMA FrameIds ==
  ASSUME NEW F \in Seq(FrameType), NEW i \in 1..Len(F)
  PROVE  F[i].id \in Int /\ F[i].cmd \in {"open", "close", "error"}
<1>1. F[i] \in FrameType
  <2> HIDE DEF FrameType
  <2> QED OBVIOUS
<1> QED BY <1>1, OperationsAssumption DEF FrameType, Ids

\* A frame more, after all the others.
LEMMA OneMore ==
  ASSUME NEW F \in Seq(FrameType), NEW x \in FrameType, NEW l \in Int, NEW O,
         Ordered(F), Acceptable(F, l, O), \A i \in 1..Len(F) : Before(F[i], x),
         x.cmd = "open" => x.id > l \/ x.id \in O,
         x.cmd = "close" => x.id \in O \/ Opens(F, x.id, Len(F))
  PROVE  Ordered(Append(F, x)) /\ Acceptable(Append(F, x), l, O)
<1> DEFINE G == Append(F, x)
<1>1. /\ G \in Seq(FrameType) /\ Len(F) \in Nat /\ Len(G) = Len(F) + 1
      /\ \A i \in 1..Len(F) : G[i] = F[i]
      /\ G[Len(F) + 1] = x
  BY AppendFrame
<1> HIDE DEF G
<1>2. ASSUME NEW i \in 1..Len(G), NEW j \in 1..Len(G), i < j PROVE Before(G[i], G[j])
  <2>1. i \in 1..Len(F)
    BY <1>1, <1>2
  <2>2. CASE j \in 1..Len(F)
    BY <1>1, <1>2, <2>1, <2>2 DEF Ordered
  <2>3. CASE j = Len(F) + 1
    BY <1>1, <2>1, <2>3
  <2> QED BY <1>1, <2>2, <2>3
<1>3. ASSUME NEW j \in 1..Len(G)
      PROVE  /\ G[j].cmd = "open" => G[j].id > l \/ G[j].id \in O
             /\ G[j].cmd = "close" => G[j].id \in O \/ Opens(G, G[j].id, j - 1)
  <2>1. CASE j \in 1..Len(F)
    <3>1. G[j] = F[j] /\ \A i \in 1..(j - 1) : G[i] = F[i]
      BY <1>1, <2>1
    <3>2. Opens(F, F[j].id, j - 1) => Opens(G, G[j].id, j - 1)
      BY <3>1 DEF Opens
    <3> QED BY <2>1, <3>1, <3>2 DEF Acceptable
  <2>2. CASE j = Len(F) + 1
    <3>1. G[j] = x /\ j - 1 = Len(F)
      BY <1>1, <2>2
    <3>2. Opens(F, x.id, Len(F)) => Opens(G, x.id, j - 1)
      BY <1>1, <3>1 DEF Opens
    <3> QED BY <3>1, <3>2
  <2> QED BY <1>1, <2>1, <2>2
<1>4. Ordered(G) /\ Acceptable(G, l, O)
  BY <1>2, <1>3 DEF Ordered, Acceptable
<1> QED BY <1>4 DEF G

\* The first frame is gone: the others stay in order.
LEMMA OneLess ==
  ASSUME NEW F \in Seq(FrameType), F # <<>>, Ordered(F)
  PROVE  /\ Ordered(Tail(F))
         /\ \A j \in 1..Len(Tail(F)) : /\ j + 1 \in 1..Len(F) /\ Tail(F)[j] = F[j + 1]
                                       /\ Before(Head(F), F[j + 1])
         /\ \A j \in 1..Len(Tail(F)), n \in Int :
              Opens(F, n, j) => (Head(F).cmd = "open" /\ Head(F).id = n) \/ Opens(Tail(F), n, j - 1)
         /\ \A n \in Int :
              Opens(F, n, Len(F)) => (Head(F).cmd = "open" /\ Head(F).id = n) \/ Opens(Tail(F), n, Len(Tail(F)))
<1> DEFINE G == Tail(F)
           h == Head(F)
<1>1. /\ Len(F) \in Nat /\ Len(F) > 0 /\ Len(G) = Len(F) - 1 /\ h = F[1]
      /\ \A i \in 1..(Len(F) - 1) : G[i] = F[i + 1]
  BY TailFrame
<1> HIDE DEF G, h
<1>2. ASSUME NEW j \in 1..Len(G) PROVE j + 1 \in 1..Len(F) /\ G[j] = F[j + 1] /\ Before(h, F[j + 1])
  <2>1. 1 \in 1..Len(F) /\ j + 1 \in 1..Len(F) /\ 1 < j + 1 /\ j \in 1..(Len(F) - 1)
    BY <1>1
  <2> QED BY <1>1, <2>1 DEF Ordered
<1>3. ASSUME NEW i \in 1..Len(G), NEW j \in 1..Len(G), i < j PROVE Before(G[i], G[j])
  <2>1. i + 1 < j + 1
    BY <1>1, <1>3
  <2> QED BY <1>2, <2>1 DEF Ordered
<1>4. ASSUME NEW k \in 0..Len(G), NEW n \in Int, Opens(F, n, k + 1)
      PROVE  (h.cmd = "open" /\ h.id = n) \/ Opens(G, n, k)
  <2>1. PICK i \in 1..(k + 1) : F[i].cmd = "open" /\ F[i].id = n
    BY <1>4 DEF Opens
  <2>2. CASE i = 1
    BY <1>1, <2>1, <2>2
  <2>3. CASE i # 1
    <3>1. i - 1 \in 1..k /\ i - 1 \in 1..Len(G) /\ (i - 1) + 1 = i
      BY <1>1, <2>3
    <3>2. G[i - 1] = F[i]
      BY <1>2, <3>1
    <3> QED BY <2>1, <3>1, <3>2 DEF Opens
  <2> QED BY <2>2, <2>3
<1>5. \A j \in 1..Len(G), n \in Int : Opens(F, n, j) => (h.cmd = "open" /\ h.id = n) \/ Opens(G, n, j - 1)
  <2> SUFFICES ASSUME NEW j \in 1..Len(G), NEW n \in Int, Opens(F, n, j)
               PROVE  (h.cmd = "open" /\ h.id = n) \/ Opens(G, n, j - 1)
    OBVIOUS
  <2>1. j - 1 \in 0..Len(G) /\ (j - 1) + 1 = j
    BY <1>1
  <2> QED BY <1>4, <2>1
<1>6. \A n \in Int : Opens(F, n, Len(F)) => (h.cmd = "open" /\ h.id = n) \/ Opens(G, n, Len(G))
  <2>1. Len(G) \in 0..Len(G) /\ Len(G) + 1 = Len(F)
    BY <1>1
  <2> QED BY <1>4, <2>1
<1>7. Ordered(G)
  BY <1>3 DEF Ordered
<1> QED BY <1>2, <1>5, <1>6, <1>7 DEF G, h

\* The reader opens the operation of the first frame (OpenOperation).
LEMMA AfterOpen ==
  ASSUME NEW F \in Seq(FrameType), F # <<>>, Head(F).cmd = "open", NEW l \in Int, NEW k \in {l, Head(F).id},
         NEW O, NEW S \in SUBSET Int, Ordered(F), Acceptable(F, l, O), TakenUp(F, S, O)
  PROVE  /\ Ordered(Tail(F)) /\ Acceptable(Tail(F), k, O \cup {Head(F).id})
         /\ TakenUp(Tail(F), S, O \cup {Head(F).id})
<1> DEFINE G == Tail(F)
           h == Head(F)
           Q == O \cup {h.id}
<1>1. /\ Ordered(G)
      /\ \A j \in 1..Len(G) : j + 1 \in 1..Len(F) /\ G[j] = F[j + 1] /\ Before(h, F[j + 1])
      /\ \A j \in 1..Len(G), n \in Int : Opens(F, n, j) => (h.cmd = "open" /\ h.id = n) \/ Opens(G, n, j - 1)
      /\ \A n \in Int : Opens(F, n, Len(F)) => (h.cmd = "open" /\ h.id = n) \/ Opens(G, n, Len(G))
  BY OneLess
<1>2. h.cmd = "open" /\ k \in {l, h.id}
  OBVIOUS
<1>3. O \subseteq Q /\ h.id \in Q
  OBVIOUS
<1> HIDE DEF G, h, Q
<1>4. ASSUME NEW j \in 1..Len(G)
      PROVE  /\ G[j].cmd = "open" => G[j].id > k \/ G[j].id \in Q
             /\ G[j].cmd = "close" => G[j].id \in Q \/ Opens(G, G[j].id, j - 1)
  <2>1. j + 1 \in 1..Len(F) /\ G[j] = F[j + 1] /\ Before(h, F[j + 1]) /\ j \in Int
    BY <1>1
  <2>2. F[j + 1].id \in Int
    BY <2>1, FrameIds
  <2>3. /\ F[j + 1].cmd = "open" => F[j + 1].id > l \/ F[j + 1].id \in O
        /\ F[j + 1].cmd = "close" => F[j + 1].id \in O \/ Opens(F, F[j + 1].id, (j + 1) - 1)
    BY <2>1 DEF Acceptable
  <2>4. (j + 1) - 1 = j
    BY <2>1
  <2>5. F[j + 1].cmd = "open" => F[j + 1].id > h.id
    BY <2>1, <2>2 DEF Before
  <2>6. F[j + 1].cmd = "close" => F[j + 1].id \in Q \/ Opens(G, F[j + 1].id, j - 1)
    BY <1>1, <1>3, <2>2, <2>3, <2>4
  <2> QED BY <1>2, <1>3, <2>1, <2>3, <2>5, <2>6
<1>5. ASSUME NEW n \in S
      PROVE  /\ n \in Q \/ Opens(G, n, Len(G))
             /\ \A i \in 1..Len(G) : G[i].id = n => G[i].cmd = "open"
  <2>1. n \in O \/ Opens(F, n, Len(F))
    BY DEF TakenUp
  <2>2. \A i \in 1..Len(F) : F[i].id = n => F[i].cmd = "open"
    BY DEF TakenUp
  <2>3. n \in Q \/ Opens(G, n, Len(G))
    BY <1>1, <1>3, <2>1
  <2>4. \A i \in 1..Len(G) : G[i].id = n => G[i].cmd = "open"
    BY <1>1, <2>2
  <2> QED BY <2>3, <2>4
<1>6. Acceptable(G, k, Q)
  BY <1>4 DEF Acceptable
<1>7. TakenUp(G, S, Q)
  BY <1>5 DEF TakenUp
<1> QED BY <1>1, <1>6, <1>7 DEF G, h, Q

\* The reader ends the operation of the first frame (CloseOperation).
LEMMA AfterClose ==
  ASSUME NEW F \in Seq(FrameType), F # <<>>, Head(F).cmd # "open", NEW l \in Int,
         NEW O, NEW S \in SUBSET Int, Ordered(F), Acceptable(F, l, O), TakenUp(F, S, O)
  PROVE  /\ Ordered(Tail(F)) /\ Acceptable(Tail(F), l, O \ {Head(F).id})
         /\ TakenUp(Tail(F), S, O \ {Head(F).id})
<1> DEFINE G == Tail(F)
           h == Head(F)
           Q == O \ {h.id}
<1>1. /\ Ordered(G)
      /\ \A j \in 1..Len(G) : j + 1 \in 1..Len(F) /\ G[j] = F[j + 1] /\ Before(h, F[j + 1])
      /\ \A j \in 1..Len(G), n \in Int : Opens(F, n, j) => (h.cmd = "open" /\ h.id = n) \/ Opens(G, n, j - 1)
      /\ \A n \in Int : Opens(F, n, Len(F)) => (h.cmd = "open" /\ h.id = n) \/ Opens(G, n, Len(G))
  BY OneLess
<1>2. h.cmd # "open" /\ h = F[1] /\ 1 \in 1..Len(F) /\ h.id \in Int
  BY TailFrame, FrameIds
<1>3. \A n \in O : n # h.id => n \in Q
  OBVIOUS
<1> HIDE DEF G, h, Q
<1>4. ASSUME NEW j \in 1..Len(G)
      PROVE  /\ G[j].cmd = "open" => G[j].id > l \/ G[j].id \in Q
             /\ G[j].cmd = "close" => G[j].id \in Q \/ Opens(G, G[j].id, j - 1)
  <2>1. j + 1 \in 1..Len(F) /\ G[j] = F[j + 1] /\ Before(h, F[j + 1]) /\ j \in Int
    BY <1>1
  <2>2. F[j + 1].id \in Int
    BY <2>1, FrameIds
  <2>3. /\ F[j + 1].cmd = "open" => F[j + 1].id > l \/ F[j + 1].id \in O
        /\ F[j + 1].cmd = "close" => F[j + 1].id \in O \/ Opens(F, F[j + 1].id, (j + 1) - 1)
    BY <2>1 DEF Acceptable
  <2>4. (j + 1) - 1 = j
    BY <2>1
  <2>5. F[j + 1].id # h.id
    BY <1>2, <2>1, <2>2 DEF Before
  <2>6. F[j + 1].cmd = "close" => F[j + 1].id \in Q \/ Opens(G, F[j + 1].id, j - 1)
    BY <1>1, <1>2, <1>3, <2>2, <2>3, <2>4, <2>5
  <2> QED BY <1>3, <2>1, <2>3, <2>5, <2>6
<1>5. ASSUME NEW n \in S
      PROVE  /\ n \in Q \/ Opens(G, n, Len(G))
             /\ \A i \in 1..Len(G) : G[i].id = n => G[i].cmd = "open"
  <2>1. n \in O \/ Opens(F, n, Len(F))
    BY DEF TakenUp
  <2>2. \A i \in 1..Len(F) : F[i].id = n => F[i].cmd = "open"
    BY DEF TakenUp
  <2>3. n # h.id
    BY <1>2, <2>2
  <2>4. n \in Q \/ Opens(G, n, Len(G))
    BY <1>1, <1>2, <1>3, <2>1, <2>3
  <2>5. \A i \in 1..Len(G) : G[i].id = n => G[i].cmd = "open"
    BY <1>1, <2>2
  <2> QED BY <2>4, <2>5
<1>6. Acceptable(G, l, Q)
  BY <1>4 DEF Acceptable
<1>7. TakenUp(G, S, Q)
  BY <1>5 DEF TakenUp
<1> QED BY <1>1, <1>6, <1>7 DEF G, h, Q

\* A link without frames.
LEMMA NoFrames ==
  ASSUME NEW l, NEW O
  PROVE  /\ Ordered(<<>>) /\ Acceptable(<<>>, l, O) /\ TakenUp(<<>>, {}, O)
         /\ \A n : ~Opens(<<>>, n, Len(<<>>))
  BY DEF Ordered, Acceptable, TakenUp, Opens

-----------------------------------------------------------------------------
(* One operation at a time.                                                *)

\* A station with one operation at a time starts one when it has none open.
LEMMA StartsAlone ==
  ASSUME TypeOK, MaxOpen <= 1, StartOperation
  PROVE  station.open = {}
<1>1. station.open \subseteq Ids /\ Cardinality(station.open) < MaxOpen /\ MaxOpen \in Nat /\ MaxOps \in Nat
  BY OperationsAssumption DEF TypeOK, StationType, StartOperation
<1>0. IsFiniteSet(Ids)
  BY <1>1, FS_Interval DEF Ids
<1>2. IsFiniteSet(station.open)
  BY <1>0, <1>1, FS_Subset
<1>3. Cardinality(station.open) \in Nat
  BY <1>2, FS_CardinalityType
<1>4. Cardinality(station.open) = 0
  BY <1>1, <1>3
<1> QED BY <1>2, <1>4, FS_EmptySet

\* Every step keeps the station at its newest operation.
LEMMA WindowStep ==
  ASSUME TypeOK, MaxOpen <= 1, Window, Next
  PROVE  Window'
<1>s. station' = station => Window'
  BY DEF Window
<1>k. ASSUME NEW o \in SUBSET station.open, NEW t \in SUBSET o, NEW a, StationIs(station.last, o, a, t)
      PROVE  Window'
  BY <1>k DEF Window, StationIs
<1>1. ASSUME NEW c \in Conns, Connect(c) PROVE Window'
  BY <1>1, <1>s, ConnectStep
<1>2. ASSUME NEW c \in Conns, Reread(c) PROVE Window'
  BY <1>2, <1>s, RereadStep
<1>3. ASSUME NEW c \in Conns, Claim(c) PROVE Window'
  <2>1. station' = station \/ StationIs(station.last, station.open, station.answered, station.open)
    BY <1>3, ClaimStep
  <2> QED BY <1>k, <1>s, <2>1
<1>4. ASSUME StartOperation PROVE Window'
  <2>1. StationIs(station.last + 1, station.open \cup {station.last + 1}, station.answered, station.todo)
    BY <1>4, StartStep
  <2>2. station.open = {} /\ station.todo = {}
    BY <1>4, StartsAlone DEF StartOperation
  <2> QED BY <2>1, <2>2 DEF Window, StationIs
<1>5. ASSUME Reissue PROVE Window'
  <2>1. StationIs(station.last, station.open, station.answered, station.todo \ {Min(station.todo)})
    BY <1>5, ReissueStep
  <2>2. station.todo \ {Min(station.todo)} \subseteq station.open
    BY DEF Window
  <2> QED BY <1>k, <2>1, <2>2
<1>6. ASSUME ReceiveReply PROVE Window'
  <2>1. PICK n \in link.replies : StationIs(station.last, station.open, station.answered \cup {n}, station.todo)
    BY <1>6, ReplyStep
  <2>2. station.todo \subseteq station.open
    BY DEF Window
  <2> QED BY <1>k, <2>1, <2>2
<1>7. ASSUME Finish PROVE Window'
  <2>1. PICK n \in station.open : StationIs(station.last, station.open \ {n}, station.answered, station.todo \ {n})
    BY <1>7, FinishStep
  <2>2. station.todo \ {n} \subseteq station.open \ {n}
    BY DEF Window
  <2> QED BY <1>k, <2>1, <2>2
<1>8. ASSUME NEW c \in Conns, OpenOperation(c) PROVE Window'
  BY <1>8, <1>s, OpenStep
<1>9. ASSUME NEW c \in Conns, CloseOperation(c) PROVE Window'
  BY <1>9, <1>s, CloseStep
<1>10. ASSUME NEW c \in Conns, Refuse(c) PROVE Window'
  BY <1>10, <1>s, RefuseStep
<1>11. ASSUME NEW c \in Conns, FlushRead(c) PROVE Window'
  BY <1>11, <1>s, FlushReadStep
<1>12. ASSUME NEW c \in Conns, FlushWrite(c) PROVE Window'
  BY <1>12, <1>s, FlushWriteStep
<1>13. ASSUME Break PROVE Window'
  <2>1. StationIs(station.last, station.open, station.answered, {})
    BY <1>13, BreakStep
  <2> QED BY <1>k, <2>1
<1>14. ASSUME NEW c \in Conns, EndReading(c) PROVE Window'
  BY <1>14, <1>s, EndStep
<1>15. ASSUME NEW c \in Conns, FinalCounters(c) PROVE Window'
  BY <1>15, <1>s, FinalStep
<1>16. ASSUME NEW c \in Conns, HandBack(c) PROVE Window'
  BY <1>16, <1>s, HandBackStep
<1>17. ASSUME Crash PROVE Window'
  <2>1. StationIs(station.last, station.open, station.answered, {})
    BY <1>17, CrashStep
  <2> QED BY <1>k, <2>1
<1> QED BY <1>1, <1>2, <1>3, <1>4, <1>5, <1>6, <1>7, <1>8, <1>9,
           <1>10, <1>11, <1>12, <1>13, <1>14, <1>15, <1>16, <1>17
        DEF Next, Handle, Flush, Leave

\* The station's numbering goes on.
LEMMA NumberingStep ==
  ASSUME TypeOK, Next
  PROVE  station'.last >= station.last
<1>n. station.last \in Int
  BY NumbersOK DEF Numbers
<1>s. station' = station => station'.last >= station.last
  BY <1>n
<1>k. ASSUME NEW o, NEW a, NEW t, NEW l \in {station.last, station.last + 1}, StationIs(l, o, a, t)
      PROVE  station'.last >= station.last
  BY <1>k, <1>n DEF StationIs
<1>1. ASSUME NEW c \in Conns, Connect(c) PROVE station'.last >= station.last
  BY <1>1, <1>s, ConnectStep
<1>2. ASSUME NEW c \in Conns, Reread(c) PROVE station'.last >= station.last
  BY <1>2, <1>s, RereadStep
<1>3. ASSUME NEW c \in Conns, Claim(c) PROVE station'.last >= station.last
  BY <1>3, <1>k, <1>s, ClaimStep
<1>4. ASSUME StartOperation PROVE station'.last >= station.last
  BY <1>4, <1>k, <1>s, StartStep
<1>5. ASSUME Reissue PROVE station'.last >= station.last
  BY <1>5, <1>k, <1>s, ReissueStep
<1>6. ASSUME ReceiveReply PROVE station'.last >= station.last
  BY <1>6, <1>k, <1>s, ReplyStep
<1>7. ASSUME Finish PROVE station'.last >= station.last
  BY <1>7, <1>k, <1>s, FinishStep
<1>8. ASSUME NEW c \in Conns, OpenOperation(c) PROVE station'.last >= station.last
  BY <1>8, <1>s, OpenStep
<1>9. ASSUME NEW c \in Conns, CloseOperation(c) PROVE station'.last >= station.last
  BY <1>9, <1>s, CloseStep
<1>10. ASSUME NEW c \in Conns, Refuse(c) PROVE station'.last >= station.last
  BY <1>10, <1>s, RefuseStep
<1>11. ASSUME NEW c \in Conns, FlushRead(c) PROVE station'.last >= station.last
  BY <1>11, <1>s, FlushReadStep
<1>12. ASSUME NEW c \in Conns, FlushWrite(c) PROVE station'.last >= station.last
  BY <1>12, <1>s, FlushWriteStep
<1>13. ASSUME Break PROVE station'.last >= station.last
  BY <1>13, <1>k, <1>s, BreakStep
<1>14. ASSUME NEW c \in Conns, EndReading(c) PROVE station'.last >= station.last
  BY <1>14, <1>s, EndStep
<1>15. ASSUME NEW c \in Conns, FinalCounters(c) PROVE station'.last >= station.last
  BY <1>15, <1>s, FinalStep
<1>16. ASSUME NEW c \in Conns, HandBack(c) PROVE station'.last >= station.last
  BY <1>16, <1>s, HandBackStep
<1>17. ASSUME Crash PROVE station'.last >= station.last
  BY <1>17, <1>k, <1>s, CrashStep
<1> QED BY <1>1, <1>2, <1>3, <1>4, <1>5, <1>6, <1>7, <1>8, <1>9,
           <1>10, <1>11, <1>12, <1>13, <1>14, <1>15, <1>16, <1>17
        DEF Next, Handle, Flush, Leave

\* The newest id a reader or the row knows is one of the station's.
LEMMA KnownBelowStep ==
  ASSUME TypeOK, TypeOK', FlushBound, Below, Next
  PROVE  row'.bsOp <= station.last /\ \A d \in Conns : mem'[d].last <= station.last
<1> DEFINE B == station.last
           Known == row'.bsOp <= B /\ \A d \in Conns : mem'[d].last <= B
<1>n. /\ B \in Int /\ row.bsOp \in Nat
      /\ \A d \in Conns : mem[d].last \in Nat /\ flush[d].read \in Int
  BY NumbersOK DEF Numbers
<1>b. row.bsOp <= B /\ \A d \in Conns : mem[d].last <= B /\ flush[d].read <= B
  BY <1>n DEF Below, FlushBound, FlushBoundAt
<1>f. ASSUME link.frames # <<>> PROVE Frame.id <= B
  <2>1. link.frames \in Seq(FrameType)
    BY DEF TypeOK, LinkType
  <2>2. Head(link.frames) = link.frames[1] /\ 1 \in 1..Len(link.frames)
    BY <1>f, <2>1, TailFrame
  <2> QED BY <2>2 DEF Below, Frame
<1>r. row' = row => row'.bsOp <= B
  BY <1>b
<1>q. ASSUME NEW s, NEW b \in Int, b <= B, RowIs(s, b) PROVE row'.bsOp <= B
  BY <1>q DEF RowIs
<1>m. mem' = mem => \A d \in Conns : mem'[d].last <= B
  BY <1>b
<1>p. ASSUME NEW c \in Conns, NEW p, NEW o, NEW l \in Int, l <= B, MemIs(c, p, l, o)
      PROVE  \A d \in Conns : mem'[d].last <= B
  <2> SUFFICES ASSUME NEW d \in Conns PROVE mem'[d].last <= B
    OBVIOUS
  <2>1. CASE d = c
    BY <1>p, <2>1 DEF MemIs
  <2>2. CASE d # c
    BY <1>b, <1>p, <2>2 DEF MemIs
  <2> QED BY <2>1, <2>2
<1> HIDE DEF B
<1>1. ASSUME NEW c \in Conns, Connect(c) PROVE Known
  <2>1. row' = row \/ RowIs("terminated", row.bsOp)
    BY <1>1, ConnectStep
  <2>2. mem' = mem \/ MemIs(c, "offered", row.bsOp, {})
    BY <1>1, ConnectStep
  <2>3. row'.bsOp <= B
    BY <1>b, <1>n, <1>q, <1>r, <2>1
  <2>4. \A d \in Conns : mem'[d].last <= B
    BY <1>b, <1>m, <1>n, <1>p, <2>2
  <2> QED BY <2>3, <2>4
<1>2. ASSUME NEW c \in Conns, Reread(c) PROVE Known
  <2>1. row' = row /\ MemIs(c, "claiming", row.bsOp, mem[c].open)
    BY <1>2, RereadStep
  <2>2. \A d \in Conns : mem'[d].last <= B
    BY <1>b, <1>n, <1>p, <2>1
  <2> QED BY <1>r, <2>1, <2>2
<1>3. ASSUME NEW c \in Conns, Claim(c) PROVE Known
  <2>1. row' = row \/ RowIs("active", mem[c].last)
    BY <1>3, ClaimStep
  <2>2. MemIs(c, "active", mem[c].last, Reopened(c)) \/ MemIs(c, "gone", mem[c].last, mem[c].open)
    BY <1>3, ClaimStep
  <2>3. row'.bsOp <= B
    BY <1>b, <1>n, <1>q, <1>r, <2>1
  <2>4. \A d \in Conns : mem'[d].last <= B
    BY <1>b, <1>n, <1>p, <2>2
  <2> QED BY <2>3, <2>4
<1>4. ASSUME StartOperation PROVE Known
  BY <1>4, <1>m, <1>r, StartStep
<1>5. ASSUME Reissue PROVE Known
  BY <1>5, <1>m, <1>r, ReissueStep
<1>6. ASSUME ReceiveReply PROVE Known
  BY <1>6, <1>m, <1>r, ReplyStep
<1>7. ASSUME Finish PROVE Known
  BY <1>7, <1>m, <1>r, FinishStep
<1>8. ASSUME NEW c \in Conns, OpenOperation(c) PROVE Known
  <2>1. RowIs(row.status, row.bsOp) /\ Reading(c) /\ Frame \in FrameType
    BY <1>8, OpenStep
  <2>2. PICK l \in {mem[c].last, Frame.id} : MemIs(c, "active", l, mem[c].open \cup {Frame.id})
    BY <1>8, OpenStep
  <2>3. Frame.id \in Int
    BY <2>1, OperationsAssumption DEF FrameType, Ids
  <2>4. l <= B /\ l \in Int
    BY <1>b, <1>f, <1>n, <2>1, <2>3 DEF Reading
  <2>5. row'.bsOp <= B
    BY <1>b, <1>n, <1>q, <2>1
  <2>6. \A d \in Conns : mem'[d].last <= B
    BY <1>p, <2>2, <2>4
  <2> QED BY <2>5, <2>6
<1>9. ASSUME NEW c \in Conns, CloseOperation(c) PROVE Known
  <2>1. RowIs(row.status, row.bsOp) /\ MemIs(c, "active", mem[c].last, mem[c].open \ {Frame.id})
    BY <1>9, CloseStep
  <2>2. row'.bsOp <= B
    BY <1>b, <1>n, <1>q, <2>1
  <2>3. \A d \in Conns : mem'[d].last <= B
    BY <1>b, <1>n, <1>p, <2>1
  <2> QED BY <2>2, <2>3
<1>10. ASSUME NEW c \in Conns, Refuse(c) PROVE Known
  <2>1. row' = row /\ MemIs(c, "counting", mem[c].last, mem[c].open)
    BY <1>10, RefuseStep
  <2>2. \A d \in Conns : mem'[d].last <= B
    BY <1>b, <1>n, <1>p, <2>1
  <2> QED BY <1>r, <2>1, <2>2
<1>11. ASSUME NEW c \in Conns, FlushRead(c) PROVE Known
  BY <1>11, <1>m, <1>r, FlushReadStep
<1>12. ASSUME NEW c \in Conns, FlushWrite(c) PROVE Known
  <2>1. mem' = mem /\ (row' = row \/ \E b \in {row.bsOp, flush[c].read} : RowIs(row.status, b))
    BY <1>12, FlushWriteStep
  <2>2. row'.bsOp <= B
    BY <1>b, <1>n, <1>q, <1>r, <2>1
  <2> QED BY <1>m, <2>1, <2>2
<1>13. ASSUME Break PROVE Known
  BY <1>13, <1>m, <1>r, BreakStep
<1>14. ASSUME NEW c \in Conns, EndReading(c) PROVE Known
  <2>1. row' = row /\ (MemIs(c, "counting", mem[c].last, mem[c].open) \/ MemIs(c, "gone", mem[c].last, mem[c].open))
    BY <1>14, EndStep
  <2>2. \A d \in Conns : mem'[d].last <= B
    BY <1>b, <1>n, <1>p, <2>1
  <2> QED BY <1>r, <2>1, <2>2
<1>15. ASSUME NEW c \in Conns, FinalCounters(c) PROVE Known
  <2>0. mem[c].last \in Int /\ mem[c].last <= B
    BY <1>b, <1>n
  <2>1. row' = row \/ \E b \in {row.bsOp, mem[c].last} : RowIs(row.status, b)
    BY <1>15, FinalStep
  <2>2. MemIs(c, "handing back", mem[c].last, mem[c].open)
    BY <1>15, FinalStep
  <2>3. row'.bsOp <= B
    BY <1>b, <1>n, <1>q, <1>r, <2>1
  <2>4. \A d \in Conns : mem'[d].last <= B
    BY <1>p, <2>0, <2>2
  <2> QED BY <2>3, <2>4
<1>16. ASSUME NEW c \in Conns, HandBack(c) PROVE Known
  <2>1. RowIs("disconnected", row.bsOp) /\ MemIs(c, "gone", mem[c].last, mem[c].open)
    BY <1>16, HandBackStep
  <2>2. row'.bsOp <= B
    BY <1>b, <1>n, <1>q, <2>1
  <2>3. \A d \in Conns : mem'[d].last <= B
    BY <1>b, <1>n, <1>p, <2>1
  <2> QED BY <2>2, <2>3
<1>17. ASSUME Crash PROVE Known
  <2>1. RowIs(IF row.status = "active" THEN "disconnected" ELSE row.status, row.bsOp)
    BY <1>17, CrashStep
  <2>2. \A d \in Conns : mem'[d].last = mem[d].last
    BY <1>17, CrashStep
  <2>3. row'.bsOp <= B
    BY <1>b, <1>n, <1>q, <2>1
  <2>4. \A d \in Conns : mem'[d].last <= B
    BY <1>b, <2>2
  <2> QED BY <2>3, <2>4
<1>z. Known
  BY <1>1, <1>2, <1>3, <1>4, <1>5, <1>6, <1>7, <1>8, <1>9,
     <1>10, <1>11, <1>12, <1>13, <1>14, <1>15, <1>16, <1>17
  DEF Next, Handle, Flush, Leave
<1> QED BY <1>z DEF B

\* The frames on their way are the ones there were, or one more of the station.
FramesOf ==
  \/ link'.frames = link.frames
  \/ link'.frames = <<>>
  \/ link.frames # <<>> /\ link'.frames = Tail(link.frames)
  \/ \E x \in FrameType : link'.frames = Append(link.frames, x) /\ x.id <= station'.last

\* The frames of the link are read from the front and written at the end.
LEMMA FramesStep ==
  ASSUME TypeOK, Window, Next
  PROVE  FramesOf
<1>s. link' = link => FramesOf
  BY DEF FramesOf
<1>d. link' = Down => FramesOf
  BY DownFields DEF FramesOf
<1>a. ASSUME NEW cmd \in {"open", "close", "error"}, NEW n \in Ids, NEW o, NEW t, NEW l, NEW r, NEW k, NEW a,
             LinkIs(k, Append(link.frames, [cmd |-> cmd, id |-> n]), r), StationIs(l, o, a, t), n <= l
      PROVE  FramesOf
  <2>1. [cmd |-> cmd, id |-> n] \in FrameType
    BY DEF FrameType
  <2>2. link'.frames = Append(link.frames, [cmd |-> cmd, id |-> n])
    BY <1>a, Zenon DEF LinkIs
  <2>3. n <= station'.last
    BY <1>a DEF StationIs
  <2>4. [cmd |-> cmd, id |-> n].id <= station'.last
    BY <2>3
  <2> QED BY <2>1, <2>2, <2>4, Zenon DEF FramesOf
<1>n. station.last \in Int /\ station.open \subseteq Ids
  BY NumbersOK DEF Numbers, TypeOK, StationType
<1>w. \A n \in station.open : n <= station.last
  BY <1>n DEF Window
<1>1. ASSUME NEW c \in Conns, Connect(c) PROVE FramesOf
  <2>1. link' = link \/ LinkIs(c, <<>>, {})
    BY <1>1, ConnectStep
  <2>2. LinkIs(c, <<>>, {}) => link'.frames = <<>>
    BY Zenon DEF LinkIs
  <2> QED BY <1>s, <2>1, <2>2 DEF FramesOf
<1>2. ASSUME NEW c \in Conns, Reread(c) PROVE FramesOf
  BY <1>2, <1>d, <1>s, RereadStep
<1>3. ASSUME NEW c \in Conns, Claim(c) PROVE FramesOf
  BY <1>3, <1>d, <1>s, ClaimStep
<1>4. ASSUME StartOperation PROVE FramesOf
  <2>1. /\ LinkIs(link.conn, Append(link.frames, [cmd |-> "open", id |-> station.last + 1]), link.replies)
        /\ StationIs(station.last + 1, station.open \cup {station.last + 1}, station.answered, station.todo)
        /\ station.last + 1 \in Ids
    BY <1>4, StartStep
  <2>2. station.last + 1 <= station.last + 1
    BY <1>n
  <2> QED BY <1>a, <2>1, <2>2
<1>5. ASSUME Reissue PROVE FramesOf
  <2> DEFINE n == Min(station.todo)
  <2>1. /\ LinkIs(link.conn, Append(link.frames, [cmd |-> "open", id |-> n]), link.replies)
        /\ StationIs(station.last, station.open, station.answered, station.todo \ {n})
        /\ n \in station.todo
    BY <1>5, ReissueStep
  <2> HIDE DEF n
  <2>2. n \in station.open
    BY <2>1 DEF Window
  <2> QED BY <1>a, <1>n, <1>w, <2>1, <2>2
<1>6. ASSUME ReceiveReply PROVE FramesOf
  <2>1. PICK n \in link.replies : LinkIs(link.conn, link.frames, link.replies \ {n})
    BY <1>6, ReplyStep
  <2>2. link'.frames = link.frames
    BY <2>1, Zenon DEF LinkIs
  <2> QED BY <2>2 DEF FramesOf
<1>7. ASSUME Finish PROVE FramesOf
  <2>1. PICK n \in station.open \cap station.answered, cmd \in {"close", "error"} :
          /\ LinkIs(link.conn, Append(link.frames, [cmd |-> cmd, id |-> n]), link.replies)
          /\ StationIs(station.last, station.open \ {n}, station.answered, station.todo \ {n})
    BY <1>7, FinishStep
  <2> QED BY <1>a, <1>n, <1>w, <2>1
<1>8. ASSUME NEW c \in Conns, OpenOperation(c) PROVE FramesOf
  <2>1. LinkIs(link.conn, Tail(link.frames), link.replies \cup {Frame.id}) /\ Reading(c)
    BY <1>8, OpenStep
  <2>2. link'.frames = Tail(link.frames)
    BY <2>1, Zenon DEF LinkIs
  <2> QED BY <2>1, <2>2, Zenon DEF FramesOf, Reading
<1>9. ASSUME NEW c \in Conns, CloseOperation(c) PROVE FramesOf
  <2>1. LinkIs(link.conn, Tail(link.frames), link.replies) /\ Reading(c)
    BY <1>9, CloseStep
  <2>2. link'.frames = Tail(link.frames)
    BY <2>1, Zenon DEF LinkIs
  <2> QED BY <2>1, <2>2, Zenon DEF FramesOf, Reading
<1>10. ASSUME NEW c \in Conns, Refuse(c) PROVE FramesOf
  BY <1>10, <1>d, <1>s, RefuseStep
<1>11. ASSUME NEW c \in Conns, FlushRead(c) PROVE FramesOf
  BY <1>11, <1>d, <1>s, FlushReadStep
<1>12. ASSUME NEW c \in Conns, FlushWrite(c) PROVE FramesOf
  BY <1>12, <1>d, <1>s, FlushWriteStep
<1>13. ASSUME Break PROVE FramesOf
  BY <1>13, <1>d, <1>s, BreakStep
<1>14. ASSUME NEW c \in Conns, EndReading(c) PROVE FramesOf
  BY <1>14, <1>d, <1>s, EndStep
<1>15. ASSUME NEW c \in Conns, FinalCounters(c) PROVE FramesOf
  BY <1>15, <1>d, <1>s, FinalStep
<1>16. ASSUME NEW c \in Conns, HandBack(c) PROVE FramesOf
  BY <1>16, <1>d, <1>s, HandBackStep
<1>17. ASSUME Crash PROVE FramesOf
  BY <1>17, <1>d, <1>s, CrashStep
<1> QED BY <1>1, <1>2, <1>3, <1>4, <1>5, <1>6, <1>7, <1>8, <1>9,
           <1>10, <1>11, <1>12, <1>13, <1>14, <1>15, <1>16, <1>17
        DEF Next, Handle, Flush, Leave

\* Every step leaves the station's numbers ahead of everybody's.
LEMMA BelowStep ==
  ASSUME TypeOK, TypeOK', FlushBound, Below, Window, Next
  PROVE  Below'
<1> DEFINE F == link.frames
           G == link'.frames
           B == station.last
           C == station'.last
<1>1. B \in Int /\ C \in Int /\ C >= B /\ row'.bsOp \in Int /\ F \in Seq(FrameType)
  BY NumberingStep, NumbersOK, OperationsAssumption DEF Numbers, TypeOK, StationType, RowType
<1>2. row'.bsOp <= B /\ \A d \in Conns : mem'[d].last <= B
  BY KnownBelowStep
<1>3. row'.bsOp <= C /\ \A d \in Conns : mem'[d].last <= C
  BY <1>1, <1>2, NumbersNext
<1>4. \/ G = F \/ G = <<>> \/ (F # <<>> /\ G = Tail(F))
      \/ \E x \in FrameType : G = Append(F, x) /\ x.id <= C
  BY FramesStep DEF FramesOf
<1>5. \A i \in 1..Len(F) : F[i].id <= C
  <2> SUFFICES ASSUME NEW i \in 1..Len(F) PROVE F[i].id <= C
    OBVIOUS
  <2>1. F[i].id \in Int /\ F[i].id <= B
    BY <1>1, FrameIds DEF Below
  <2> HIDE DEF F, B, C
  <2> QED BY <1>1, <2>1
<1>6. \A i \in 1..Len(G) : G[i].id <= C
  <2> HIDE DEF F, G, B, C
  <2>1. CASE G = F \/ G = <<>>
    BY <1>5, <2>1
  <2>2. CASE F # <<>> /\ G = Tail(F)
    <3>1. \A i \in 1..Len(G) : i + 1 \in 1..Len(F) /\ G[i] = F[i + 1]
      BY <1>1, <2>2, TailFrame
    <3> QED BY <1>5, <3>1
  <2>3. ASSUME NEW x \in FrameType, G = Append(F, x), x.id <= C
        PROVE  \A i \in 1..Len(G) : G[i].id <= C
    <3>1. \A i \in 1..Len(G) : (i \in 1..Len(F) /\ G[i] = F[i]) \/ G[i] = x
      BY <1>1, <2>3, AppendFrame
    <3> QED BY <1>5, <2>3, <3>1
  <2> QED BY <1>4, <2>1, <2>2, <2>3
<1> QED BY <1>3, <1>6 DEF Below

\* Every step keeps the station and the reader in agreement.
LEMMA InSequenceStep ==
  ASSUME TypeOK, TypeOK', MaxOpen <= 1, Handshake, Below, Window, InSequence, Monotone, Next
  PROVE  InSequence'
<1> SUFFICES ASSUME NEW d \in Conns, ~overtaken', link'.conn = d, mem'[d].pc = "active"
             PROVE  InSequenceAt(d)'
  BY Zenon DEF InSequence
<1> DEFINE F == link.frames
           R == link.replies
           S == station.open
           T == station.todo
           A == station.answered
           l == mem[d].last
           O == mem[d].open
<1>n. /\ F \in Seq(FrameType) /\ l \in Nat /\ S \subseteq Ids /\ S \subseteq Int /\ station.last \in Int /\ Ids \subseteq Int
      /\ 0 \notin Ids
  BY NumbersOK DEF Numbers, TypeOK, StationType, Ids
<1>w. S \subseteq {station.last} /\ T \subseteq S
  BY DEF Window
<1>b. l <= station.last /\ \A i \in 1..Len(F) : F[i].id <= station.last
  BY DEF Below
<1>o. ~overtaken
  BY DEF Monotone
<1>h. ASSUME link.conn = d, mem[d].pc = "active"
      PROVE  Agree(F, R, S, T, A, l, O)
  BY <1>h, <1>o DEF InSequence, InSequenceAt
<1>u. ASSUME link' = link, station' = station, mem'[d] = mem[d]
      PROVE  InSequenceAt(d)'
  BY <1>h, <1>u, Zenon DEF InSequenceAt
<1>k. ASSUME NEW G, NEW Q, NEW s, NEW t, NEW a, NEW m, NEW P, NEW z, NEW x, mem' = mem, LinkIs(z, G, Q),
             StationIs(x, s, a, t), Agree(G, Q, s, t, a, l, O)
      PROVE  InSequenceAt(d)'
  <2>1. link'.frames = G /\ link'.replies = Q
    BY <1>k, Zenon DEF LinkIs
  <2>2. station'.open = s /\ station'.todo = t /\ station'.answered = a
    BY <1>k, Zenon DEF StationIs
  <2>3. mem'[d].last = l /\ mem'[d].open = O
    BY <1>k, Zenon
  <2> HIDE DEF F, R, S, T, A, l, O
  <2> QED BY <1>k, <2>1, <2>2, <2>3, Zenon DEF InSequenceAt
<1>m. ASSUME NEW G, NEW Q, NEW m, NEW P, NEW z, station' = station, link.conn = d, LinkIs(z, G, Q),
             MemIs(d, "active", m, P), Agree(G, Q, S, T, A, m, P)
      PROVE  InSequenceAt(d)'
  <2>1. link'.frames = G /\ link'.replies = Q
    BY <1>m, Zenon DEF LinkIs
  <2>2. station'.open = S /\ station'.todo = T /\ station'.answered = A
    BY <1>m, Zenon
  <2>3. mem'[d].last = m /\ mem'[d].open = P
    BY <1>m, Zenon DEF MemIs
  <2> HIDE DEF F, R, S, T, A, l, O
  <2> QED BY <1>m, <2>1, <2>2, <2>3, Zenon DEF InSequenceAt
<1>d. link' # Down
  BY DownFields
<1>z. Connected => mem[link.conn].pc = "active"
  BY DEF Connected
<1>1. ASSUME NEW c \in Conns, Connect(c) PROVE InSequenceAt(d)'
  <2>1. LinkIs(c, <<>>, {}) /\ MemIs(c, "offered", row.bsOp, {})
    BY <1>1, <1>d, ConnectStep
  <2>2. d = c
    BY <2>1 DEF LinkIs
  <2> QED BY <2>1, <2>2 DEF MemIs
<1>2. ASSUME NEW c \in Conns, Reread(c) PROVE InSequenceAt(d)'
  <2>1. link.conn = c /\ link' = link /\ MemIs(c, "claiming", row.bsOp, mem[c].open)
    BY <1>2, RereadStep
  <2> QED BY <2>1 DEF MemIs
<1>3. ASSUME NEW c \in Conns, Claim(c) PROVE InSequenceAt(d)'
  <2>1. CASE /\ MemIs(c, "active", mem[c].last, Reopened(c)) /\ link' = link /\ overtaken' = (overtaken \/ link.conn # c)
             /\ \/ link.conn = c /\ StationIs(station.last, S, A, S)
                \/ link.conn # c
    <3>1. c = d /\ link.conn = d /\ mem[d].pc = "claiming" /\ StationIs(station.last, S, A, S)
      BY <1>3, <2>1, ClaimStep
    <3>2. F = <<>> /\ R = {} /\ \A n \in A : n <= l
      BY <1>o, <3>1 DEF Handshake, HandshakeAt
    <3>3. \A n \in S : (n > l \/ n \in Reopened(d)) /\ (n \in A => n \in Reopened(d))
      <4> SUFFICES ASSUME NEW n \in S PROVE (n > l \/ n \in Reopened(d)) /\ (n \in A => n \in Reopened(d))
        OBVIOUS
      <4>1. n = station.last /\ n \in Ids
        BY <1>n, <1>w
      <4>2. n > 0
        BY <4>1 DEF Ids
      <4>3. n = l => n \in Reopened(d)
        BY <4>2 DEF Reopened
      <4>4. n >= l /\ n \in Int
        BY <1>b, <1>n, <4>1
      <4>5. n \in A => n = l
        BY <1>n, <3>2, <4>4
      <4> HIDE DEF l
      <4> QED BY <1>n, <4>3, <4>4, <4>5
    <3>4. Agree(<<>>, {}, S, S, A, l, Reopened(d))
      <4>1. ToTakeUp(S, A, l, Reopened(d))
        BY <3>3 DEF ToTakeUp
      <4>2. S \ S = {}
        OBVIOUS
      <4> HIDE DEF F, R, S, T, A, l, O
      <4> QED BY <4>1, <4>2, NoFrames, Zenon DEF Agree
    <3>5. link'.frames = <<>> /\ link'.replies = {}
      BY <2>1, <3>2
    <3>6. station'.open = S /\ station'.todo = S /\ station'.answered = A
      BY <3>1, Zenon DEF StationIs
    <3>7. mem'[d].last = l /\ mem'[d].open = Reopened(d)
      BY <2>1, <3>1, Zenon DEF MemIs
    <3> HIDE DEF F, R, S, T, A, l, O
    <3> QED BY <3>4, <3>5, <3>6, <3>7, Zenon DEF InSequenceAt
  <2>2. CASE /\ MemIs(c, "gone", mem[c].last, mem[c].open) /\ station' = station
             /\ (link.conn = c /\ link' = Down) \/ (link.conn # c /\ link' = link)
    <3>1. link' = link /\ d # c /\ mem'[d] = mem[d]
      BY <1>d, <2>2 DEF MemIs
    <3> QED BY <1>u, <2>2, <3>1
  <2> QED BY <1>3, <2>1, <2>2, ClaimStep
<1>4. ASSUME StartOperation PROVE InSequenceAt(d)'
  <2> DEFINE x == [cmd |-> "open", id |-> station.last + 1]
  <2>1. /\ LinkIs(link.conn, Append(F, x), R) /\ mem' = mem /\ Connected /\ T = {} /\ station.last + 1 \in Ids
        /\ StationIs(station.last + 1, S \cup {station.last + 1}, A, T)
    BY <1>4, StartStep
  <2>2. S = {}
    BY <1>4, StartsAlone
  <2>3. link.conn = d /\ mem[d].pc = "active"
    BY <1>z, <2>1 DEF LinkIs
  <2>4. Agree(F, R, S, T, A, l, O)
    BY <1>h, <2>3
  <2>5. x \in FrameType /\ x.cmd = "open" /\ x.id = station.last + 1
    BY <2>1 DEF FrameType
  <2> HIDE DEF F, R, S, T, A, l, O, x
  <2>6. \A i \in 1..Len(F) : F[i].id \in Int /\ F[i].id < x.id
    BY <1>b, <1>n, <2>5, FrameIds
  <2>7. Ordered(Append(F, x)) /\ Acceptable(Append(F, x), l, O)
    <3>1. \A i \in 1..Len(F) : Before(F[i], x)
      BY <2>6 DEF Before
    <3>2. x.id > l /\ l \in Int
      BY <1>b, <1>n, <2>5
    <3>3. Ordered(F) /\ Acceptable(F, l, O)
      BY <2>4 DEF Agree
    <3>4. x.cmd # "close"
      BY <2>5
    <3> QED BY <1>n, <2>5, <3>1, <3>2, <3>3, <3>4, OneMore
  <2>8. TakenUp(Append(F, x), {station.last + 1}, O)
    <3>1. /\ Len(F) \in Nat /\ Len(Append(F, x)) = Len(F) + 1
          /\ \A i \in 1..Len(F) : Append(F, x)[i] = F[i]
          /\ Append(F, x)[Len(F) + 1] = x
      BY <1>n, <2>5, AppendFrame
    <3>2. Opens(Append(F, x), station.last + 1, Len(Append(F, x)))
      BY <2>5, <3>1 DEF Opens
    <3>3. ASSUME NEW i \in 1..Len(Append(F, x)), Append(F, x)[i].id = station.last + 1
          PROVE  Append(F, x)[i].cmd = "open"
      <4>1. CASE i \in 1..Len(F)
        BY <1>n, <2>5, <2>6, <3>1, <3>3, <4>1
      <4>2. CASE i = Len(F) + 1
        BY <2>5, <3>1, <4>2
      <4> QED BY <3>1, <4>1, <4>2
    <3> QED BY <3>2, <3>3 DEF TakenUp
  <2>9. (S \cup {station.last + 1}) \ T = {station.last + 1} /\ ToTakeUp(T, A, l, O)
    BY <2>1, <2>2 DEF ToTakeUp
  <2>10. Agree(Append(F, x), R, S \cup {station.last + 1}, T, A, l, O)
    BY <2>1, <2>7, <2>8, <2>9, Zenon DEF Agree
  <2> QED BY <1>k, <2>1, <2>10
<1>5. ASSUME Reissue PROVE InSequenceAt(d)'
  <2> DEFINE n == Min(station.todo)
             x == [cmd |-> "open", id |-> n]
  <2>1. /\ LinkIs(link.conn, Append(F, x), R) /\ mem' = mem /\ Connected /\ n \in T
        /\ StationIs(station.last, S, A, T \ {n})
    BY <1>5, ReissueStep
  <2>2. link.conn = d /\ mem[d].pc = "active"
    BY <1>z, <2>1 DEF LinkIs
  <2>3. Agree(F, R, S, T, A, l, O)
    BY <1>h, <2>2
  <2> HIDE DEF n
  <2>4. n \in Ids /\ S = {n} /\ T = {n}
    BY <1>n, <1>w, <2>1
  <2>5. x \in FrameType /\ x.cmd = "open" /\ x.id = n
    BY <2>4 DEF FrameType
  <2> HIDE DEF F, R, S, T, A, l, O, x
  <2>6. F = <<>> /\ R = {} /\ (n > l \/ n \in O)
    BY <2>3, <2>4 DEF Agree, ToTakeUp
  <2>7. Ordered(Append(F, x)) /\ Acceptable(Append(F, x), l, O)
    <3>1. \A i \in 1..Len(F) : Before(F[i], x)
      BY <2>6
    <3>2. Ordered(F) /\ Acceptable(F, l, O)
      BY <2>3 DEF Agree
    <3>3. x.cmd # "close" /\ l \in Int
      BY <1>n, <2>5
    <3> QED BY <1>n, <2>5, <2>6, <3>1, <3>2, <3>3, OneMore
  <2>8. TakenUp(Append(F, x), {n}, O)
    <3>1. Len(F) = 0 /\ Len(Append(F, x)) = Len(F) + 1 /\ Append(F, x)[Len(F) + 1] = x
      BY <1>n, <2>5, <2>6, AppendFrame
    <3>2. Len(Append(F, x)) = 1 /\ Append(F, x)[1] = x
      BY <3>1
    <3> QED BY <2>5, <3>2 DEF TakenUp, Opens
  <2>9. T \ {n} = {} /\ S \ (T \ {n}) = {n} /\ ToTakeUp(T \ {n}, A, l, O)
    BY <2>4 DEF ToTakeUp
  <2>10. Agree(Append(F, x), R, S, T \ {n}, A, l, O)
    BY <2>7, <2>8, <2>9, Zenon DEF Agree
  <2> QED BY <1>k, <2>1, <2>10
<1>6. ASSUME ReceiveReply PROVE InSequenceAt(d)'
  <2>1. PICK n \in R : /\ LinkIs(link.conn, F, R \ {n})
                       /\ StationIs(station.last, S, A \cup {n}, T)
    BY <1>6, ReplyStep
  <2>2. mem' = mem /\ link.conn = d
    BY <1>6, <2>1, ReplyStep DEF LinkIs
  <2>3. Agree(F, R, S, T, A, l, O)
    BY <1>h, <2>2
  <2> HIDE DEF F, R, S, T, A, l, O
  <2>4. T = {}
    BY <2>1, <2>3 DEF Agree
  <2>5. ToTakeUp(T, A \cup {n}, l, O)
    BY <2>4 DEF ToTakeUp
  <2>6. Agree(F, R \ {n}, S, T, A \cup {n}, l, O)
    BY <2>3, <2>4, <2>5, Zenon DEF Agree
  <2> QED BY <1>k, <2>1, <2>2, <2>6
<1>7. ASSUME Finish PROVE InSequenceAt(d)'
  <2>1. PICK n \in S \cap A, cmd \in {"close", "error"} :
          /\ LinkIs(link.conn, Append(F, [cmd |-> cmd, id |-> n]), R)
          /\ StationIs(station.last, S \ {n}, A, T \ {n})
    BY <1>7, FinishStep
  <2> DEFINE x == [cmd |-> cmd, id |-> n]
  <2>2. mem' = mem /\ Connected
    BY <1>7, FinishStep
  <2>3. link.conn = d /\ mem[d].pc = "active"
    BY <1>z, <2>1, <2>2 DEF LinkIs
  <2>4. Agree(F, R, S, T, A, l, O)
    BY <1>h, <2>3
  <2>5. S = {n} /\ n = station.last /\ n \in Ids /\ T \subseteq {n} /\ n \in A
    BY <1>n, <1>w, <2>1
  <2>6. x \in FrameType /\ x.cmd # "open" /\ x.id = n
    BY <2>5 DEF FrameType
  <2>0. LinkIs(link.conn, Append(F, x), R)
    BY <2>1
  <2> HIDE DEF F, R, S, T, A, l, O, x
  <2>7. (n \in O \/ Opens(F, n, Len(F))) /\ \A i \in 1..Len(F) : F[i].id = n => F[i].cmd = "open"
    <3>1. CASE n \in T
      <4>1. F = <<>> /\ n \in O
        BY <2>4, <2>5, <3>1 DEF Agree, ToTakeUp
      <4> QED BY <4>1
    <3>2. CASE n \notin T
      BY <2>4, <2>5, <3>2 DEF Agree, TakenUp
    <3> QED BY <3>1, <3>2
  <2>8. Ordered(Append(F, x)) /\ Acceptable(Append(F, x), l, O)
    <3>1. ASSUME NEW i \in 1..Len(F) PROVE Before(F[i], x)
      <4>1. F[i].id \in Int /\ F[i].id <= n /\ n \in Int
        BY <1>b, <1>n, <2>5, FrameIds
      <4>2. F[i].id < n \/ (F[i].id = n /\ F[i].cmd = "open")
        BY <2>7, <4>1
      <4> QED BY <2>6, <4>2 DEF Before
    <3>2. Ordered(F) /\ Acceptable(F, l, O)
      BY <2>4 DEF Agree
    <3>3. l \in Int
      BY <1>n
    <3> QED BY <1>n, <2>6, <2>7, <3>1, <3>2, <3>3, OneMore
  <2>9. T \ {n} = {} /\ (S \ {n}) \ (T \ {n}) = {}
    BY <2>5
  <2>10. ToTakeUp({}, A, l, O) /\ TakenUp(Append(F, x), {}, O)
    BY DEF ToTakeUp, TakenUp
  <2>11. Agree(Append(F, x), R, S \ {n}, T \ {n}, A, l, O)
    BY <2>8, <2>9, <2>10, Zenon DEF Agree
  <2> QED BY <1>k, <2>0, <2>1, <2>2, <2>11
<1>8. ASSUME NEW c \in Conns, OpenOperation(c) PROVE InSequenceAt(d)'
  <2>1. /\ Reading(c) /\ station' = station /\ LinkIs(link.conn, Tail(F), R \cup {Frame.id})
        /\ Frame.cmd = "open"
    BY <1>8, OpenStep
  <2>2. c = d /\ link.conn = d /\ mem[d].pc = "active" /\ F # <<>> /\ Frame = Head(F)
    BY <2>1 DEF Reading, LinkIs, Frame
  <2>3. PICK k \in {l, Head(F).id} : MemIs(d, "active", k, O \cup {Head(F).id})
    BY <1>8, <2>2, OpenStep
  <2>4. Agree(F, R, S, T, A, l, O)
    BY <1>h, <2>2
  <2>5. LinkIs(link.conn, Tail(F), R \cup {Head(F).id})
    BY <2>1, <2>2
  <2>6. Head(F).cmd = "open"
    BY <2>1, <2>2
  <2> HIDE DEF F, R, S, T, A, l, O
  <2>a. T = {}
    BY <2>2, <2>4, Zenon DEF Agree
  <2>7. T = {} /\ S \ T \in SUBSET Int /\ l \in Int
    BY <1>n, <2>a
  <2>8. Ordered(F) /\ Acceptable(F, l, O) /\ TakenUp(F, S \ T, O)
    BY <2>4 DEF Agree
  <2>9. /\ Ordered(Tail(F)) /\ Acceptable(Tail(F), k, O \cup {Head(F).id})
        /\ TakenUp(Tail(F), S \ T, O \cup {Head(F).id})
    BY <1>n, <2>2, <2>3, <2>6, <2>7, <2>8, AfterOpen
  <2>10. ToTakeUp(T, A, k, O \cup {Head(F).id})
    BY <2>7 DEF ToTakeUp
  <2>11. Agree(Tail(F), R \cup {Head(F).id}, S, T, A, k, O \cup {Head(F).id})
    BY <2>7, <2>9, <2>10, Zenon DEF Agree
  <2> QED BY <1>m, <2>1, <2>2, <2>3, <2>5, <2>11
<1>9. ASSUME NEW c \in Conns, CloseOperation(c) PROVE InSequenceAt(d)'
  <2>1. /\ Reading(c) /\ station' = station /\ LinkIs(link.conn, Tail(F), R)
        /\ Frame.cmd # "open"
    BY <1>9, CloseStep
  <2>2. c = d /\ link.conn = d /\ mem[d].pc = "active" /\ F # <<>> /\ Frame = Head(F)
    BY <2>1 DEF Reading, LinkIs, Frame
  <2>3. MemIs(d, "active", l, O \ {Head(F).id})
    BY <1>9, <2>2, CloseStep
  <2>4. Agree(F, R, S, T, A, l, O)
    BY <1>h, <2>2
  <2>5. LinkIs(link.conn, Tail(F), R)
    BY <2>1, <2>2
  <2>6. Head(F).cmd # "open"
    BY <2>1, <2>2
  <2> HIDE DEF F, R, S, T, A, l, O
  <2>a. T = {}
    BY <2>2, <2>4, Zenon DEF Agree
  <2>7. T = {} /\ S \ T \in SUBSET Int /\ l \in Int
    BY <1>n, <2>a
  <2>8. Ordered(F) /\ Acceptable(F, l, O) /\ TakenUp(F, S \ T, O)
    BY <2>4 DEF Agree
  <2>9. /\ Ordered(Tail(F)) /\ Acceptable(Tail(F), l, O \ {Head(F).id})
        /\ TakenUp(Tail(F), S \ T, O \ {Head(F).id})
    BY <1>n, <2>2, <2>6, <2>7, <2>8, AfterClose
  <2>10. ToTakeUp(T, A, l, O \ {Head(F).id})
    BY <2>7 DEF ToTakeUp
  <2>11. Agree(Tail(F), R, S, T, A, l, O \ {Head(F).id})
    BY <2>7, <2>9, <2>10, Zenon DEF Agree
  <2> QED BY <1>m, <2>1, <2>2, <2>3, <2>5, <2>11
<1>10. ASSUME NEW c \in Conns, Refuse(c) PROVE InSequenceAt(d)'
  BY <1>10, <1>d, RefuseStep
<1>11. ASSUME NEW c \in Conns, FlushRead(c) PROVE InSequenceAt(d)'
  BY <1>11, <1>u, FlushReadStep
<1>12. ASSUME NEW c \in Conns, FlushWrite(c) PROVE InSequenceAt(d)'
  BY <1>12, <1>u, FlushWriteStep
<1>13. ASSUME Break PROVE InSequenceAt(d)'
  BY <1>13, <1>d, BreakStep
<1>14. ASSUME NEW c \in Conns, EndReading(c) PROVE InSequenceAt(d)'
  <2>1. link' = link /\ station' = station /\ link.conn # c
    BY <1>14, EndStep
  <2>2. d # c /\ mem'[d] = mem[d]
    BY <1>14, <2>1, EndStep DEF MemIs
  <2> QED BY <1>u, <2>1, <2>2
<1>15. ASSUME NEW c \in Conns, FinalCounters(c) PROVE InSequenceAt(d)'
  <2>1. link' = link /\ station' = station /\ MemIs(c, "handing back", mem[c].last, mem[c].open)
    BY <1>15, FinalStep
  <2>2. d # c /\ mem'[d] = mem[d]
    BY <2>1 DEF MemIs
  <2> QED BY <1>u, <2>1, <2>2
<1>16. ASSUME NEW c \in Conns, HandBack(c) PROVE InSequenceAt(d)'
  <2>1. link' = link /\ station' = station /\ MemIs(c, "gone", mem[c].last, mem[c].open)
    BY <1>16, HandBackStep
  <2>2. d # c /\ mem'[d] = mem[d]
    BY <2>1 DEF MemIs
  <2> QED BY <1>u, <2>1, <2>2
<1>17. ASSUME Crash PROVE InSequenceAt(d)'
  BY <1>17, <1>d, CrashStep
<1> QED BY <1>1, <1>2, <1>3, <1>4, <1>5, <1>6, <1>7, <1>8, <1>9,
           <1>10, <1>11, <1>12, <1>13, <1>14, <1>15, <1>16, <1>17
        DEF Next, Handle, Flush, Leave

\* No step refuses an operation of a station that is in sequence.
LEMMA RefusedStep ==
  ASSUME TypeOK, InSequence, NeverRefused, Monotone, Next
  PROVE  NeverRefused'
<1> SUFFICES ASSUME ~overtaken' PROVE refused' = {}
  BY DEF NeverRefused
<1>o. ~overtaken /\ refused = {}
  BY DEF Monotone, NeverRefused
<1>1. ASSUME NEW c \in Conns, Refuse(c) PROVE FALSE
  <2> DEFINE F == link.frames
  <2>1. /\ Reading(c)
        /\ \/ Frame.cmd = "open" /\ ~Admits(c, Frame.id)
           \/ Frame.cmd = "close" /\ Frame.id \notin mem[c].open
    BY <1>1, RefuseStep
  <2>2. InSequenceAt(c)
    BY <1>o, <2>1 DEF InSequence, Reading
  <2>3. Acceptable(F, mem[c].last, mem[c].open) /\ F \in Seq(FrameType)
    BY <2>2 DEF InSequenceAt, Agree, TypeOK, LinkType
  <2>4. Frame = F[1] /\ 1 \in 1..Len(F)
    BY <2>1, <2>3, TailFrame DEF Reading, Frame
  <2>5. ~Opens(F, F[1].id, 1 - 1)
    BY DEF Opens
  <2> HIDE DEF F
  <2>6. /\ F[1].cmd = "open" => F[1].id > mem[c].last \/ F[1].id \in mem[c].open
        /\ F[1].cmd = "close" => F[1].id \in mem[c].open \/ Opens(F, F[1].id, 1 - 1)
    BY <2>3, <2>4 DEF Acceptable
  <2> QED BY <2>1, <2>4, <2>5, <2>6 DEF Admits
<1>2. ASSUME refused' = refused PROVE refused' = {}
  BY <1>o, <1>2
<1>3. ASSUME NEW c \in Conns, Connect(c) \/ Reread(c) \/ Claim(c) \/ OpenOperation(c) \/ CloseOperation(c)
             \/ FlushRead(c) \/ FlushWrite(c) \/ EndReading(c) \/ FinalCounters(c) \/ HandBack(c)
      PROVE  refused' = {}
  BY <1>2, <1>3 DEF Connect, Reread, Claim, OpenOperation, CloseOperation, FlushRead, FlushWrite, EndReading,
                    FinalCounters, HandBack
<1>4. ASSUME StartOperation \/ Reissue \/ ReceiveReply \/ Finish \/ Break \/ Crash PROVE refused' = {}
  BY <1>2, <1>4 DEF StartOperation, Reissue, ReceiveReply, Finish, Break, Crash
<1> QED BY <1>1, <1>3, <1>4 DEF Next, Handle, Flush, Leave

-----------------------------------------------------------------------------
(* The theorems.                                                           *)

\* What holds whatever the station keeps open.
Inv ==
  /\ TypeOK /\ Owned /\ FlushBound /\ LateFlush /\ Handshake /\ AnsweredKnown /\ SessionSurvives

\* The invariant holds initially.
LEMMA InvInit == Init => Inv
<1> SUFFICES ASSUME Init PROVE Inv
  OBVIOUS
<1>1. /\ row \in RowType /\ row.status = "disconnected" /\ row.bsOp = 0
      /\ station \in StationType /\ station.answered = {}
  BY OperationsAssumption DEF Init, RowType, StationType, Ids
<1>2. \A c \in Conns : mem[c] = Unused /\ flush[c] = Quiet
  BY DEF Init
<1>3. Unused \in MemType /\ Unused.pc = "unused" /\ Unused.last = 0
  BY OperationsAssumption DEF Unused, MemType, Ids
<1>4. Quiet \in FlushType /\ ~Quiet.running /\ Quiet.read = NoValue
  BY OperationsAssumption DEF Quiet, FlushType, NoValue
<1>5. link = Down /\ refused = {} /\ ~overtaken /\ overtaken \in BOOLEAN /\ faults = 0 /\ crashes = 0
  BY DEF Init
<1>6. mem \in [Conns -> MemType] /\ flush \in [Conns -> FlushType]
  BY <1>3, <1>4 DEF Init
<1>7. TypeOK
  BY <1>1, <1>5, <1>6, DownType, OperationsAssumption DEF TypeOK
<1>8. Owned
  BY <1>2, <1>3 DEF Owned, Owning
<1>9. FlushBound
  <2>1. NoValue <= 0
    BY DEF NoValue
  <2> QED BY <1>2, <1>3, <1>4, <2>1 DEF FlushBound, FlushBoundAt
<1>10. LateFlush
  BY <1>2, <1>3 DEF LateFlush, Late
<1>11. Handshake
  BY <1>2, <1>3 DEF Handshake
<1>12. AnsweredKnown
  BY <1>1, <1>5, DownFields DEF AnsweredKnown
<1>13. SessionSurvives
  BY <1>1 DEF SessionSurvives
<1> QED BY <1>7, <1>8, <1>9, <1>10, <1>11, <1>12, <1>13 DEF Inv

\* A step keeps the invariant, and the stored counter only rises.
LEMMA InvNext == Inv /\ [Next]_vars => Inv' /\ (Rises \/ UNCHANGED vars)
<1> SUFFICES ASSUME Inv, [Next]_vars PROVE Inv' /\ (Rises \/ UNCHANGED vars)
  OBVIOUS
<1> USE DEF Inv
<1>1. CASE Next
  <2>1. TypeOK'
    BY <1>1, TypeStep
  <2>2. Owned'
    BY <1>1, <2>1, OwnedStep
  <2>3. FlushBound'
    BY <1>1, <2>1, FlushBoundStep
  <2>4. Monotone
    BY <1>1, MonotoneStep
  <2>5. Rises
    BY <1>1, <2>1, CounterMovesStep, RisesStep
  <2>6. LateFlush'
    BY <1>1, <2>1, <2>4, <2>5, LateFlushStep
  <2>7. Handshake'
    BY <1>1, <2>1, <2>4, HandshakeStep
  <2>8. AnsweredKnown'
    BY <1>1, <2>1, <2>4, <2>5, AnsweredStep
  <2>9. SessionSurvives'
    BY <1>1, <2>1, <2>4, SurvivesStep
  <2> QED BY <2>1, <2>2, <2>3, <2>5, <2>6, <2>7, <2>8, <2>9
<1>2. CASE UNCHANGED vars
  <2>1. /\ row' = row /\ mem' = mem /\ flush' = flush /\ link' = link /\ station' = station
        /\ refused' = refused /\ overtaken' = overtaken /\ faults' = faults /\ crashes' = crashes
    BY <1>2 DEF vars
  <2>2. TypeOK'
    BY <2>1 DEF TypeOK
  <2>3. Owned' /\ FlushBound' /\ LateFlush' /\ Handshake'
    BY <2>1, Zenon DEF Owned, FlushBound, FlushBoundAt, LateFlush, Late, Handshake, HandshakeAt
  <2>4. AnsweredKnown' /\ SessionSurvives'
    BY <2>1, Zenon DEF AnsweredKnown, SessionSurvives
  <2> QED BY <1>2, <2>2, <2>3, <2>4
<1> QED BY <1>1, <1>2

\* Inv is an invariant of the specification.
THEOREM OperationsInvariant == Spec => []Inv
<1>1. Init => Inv
  BY InvInit
<1>2. Inv /\ [Next]_vars => Inv'
  BY InvNext
<1> QED BY <1>1, <1>2, PTL DEF Spec

\* Whatever the station, the readers and the flushers do, ids and counters
\* stay those of the session (startBaseStationOperation, UpdateOperationIDs).
THEOREM TypeCorrect == Spec => []TypeOK
<1>1. Inv => TypeOK
  BY DEF Inv
<1> QED BY <1>1, OperationsInvariant, PTL

\* UpdateOperationIDs and the claim never take the stored counter back, for
\* any number of connections and however late their flushers write.
THEOREM CounterOnlyRises == Spec => StoredOnlyRises
<1>1. Inv /\ [Next]_vars => [row'.bsOp >= row.bsOp \/ overtaken' \/ faults > 0]_vars
  BY InvNext DEF Rises
<1> QED BY <1>1, OperationsInvariant, PTL DEF Spec, StoredOnlyRises

\* A session is retired by resumeCountersConsistent only after a crash, a
\* failing counter write, or the late claim of a connection given up.
THEOREM SessionKept == Spec => []SessionSurvives
<1>1. Inv => SessionSurvives
  BY DEF Inv
<1> QED BY <1>1, OperationsInvariant, PTL

\* What holds of a station with one operation at a time.
SeqInv == Inv /\ Below /\ Window /\ InSequence /\ NeverRefused

\* The invariant of a station with one operation at a time holds initially.
LEMMA SeqInit ==
  ASSUME Init
  PROVE  SeqInv
<1>1. Inv
  BY InvInit
<1>2. row.bsOp = 0 /\ station.last = 0 /\ station.open = {} /\ station.todo = {}
  BY DEF Init
<1>3. link = Down /\ refused = {} /\ \A c \in Conns : mem[c] = Unused
  BY DEF Init
<1>4. Unused.last = 0 /\ Unused.pc = "unused"
  BY DEF Unused
<1>5. Below
  BY <1>2, <1>3, <1>4, DownFields DEF Below
<1>6. Window
  BY <1>2 DEF Window
<1>7. InSequence
  BY <1>3, <1>4 DEF InSequence
<1>8. NeverRefused
  BY <1>3 DEF NeverRefused
<1> QED BY <1>1, <1>5, <1>6, <1>7, <1>8 DEF SeqInv

\* A step keeps the invariant of a station with one operation at a time.
LEMMA SeqNext ==
  ASSUME MaxOpen <= 1, SeqInv, [Next]_vars
  PROVE  SeqInv'
<1>1. Inv'
  BY InvNext DEF SeqInv
<1>2. CASE Next
  <2>1. TypeOK /\ TypeOK' /\ FlushBound /\ Handshake /\ Below /\ Window /\ InSequence /\ NeverRefused
    BY <1>1 DEF SeqInv, Inv
  <2>2. Monotone
    BY <1>2, <2>1, MonotoneStep
  <2>3. Below'
    BY <1>2, <2>1, BelowStep
  <2>4. Window'
    BY <1>2, <2>1, WindowStep
  <2>5. InSequence'
    BY <1>2, <2>1, <2>2, InSequenceStep
  <2>6. NeverRefused'
    BY <1>2, <2>1, <2>2, RefusedStep
  <2> QED BY <1>1, <2>3, <2>4, <2>5, <2>6 DEF SeqInv
<1>3. CASE UNCHANGED vars
  <2>1. /\ row' = row /\ mem' = mem /\ link' = link /\ station' = station
        /\ refused' = refused /\ overtaken' = overtaken
    BY <1>3 DEF vars
  <2>2. Below' /\ Window' /\ NeverRefused'
    BY <2>1, Zenon DEF SeqInv, Below, Window, NeverRefused
  <2>3. InSequence'
    BY <2>1, Zenon DEF SeqInv, InSequence, InSequenceAt
  <2> QED BY <1>1, <2>2, <2>3 DEF SeqInv
<1> QED BY <1>2, <1>3

\* A station that keeps one operation open at a time is never refused by
\* startBaseStationOperation or completeBaseStationOperation, over any number
\* of resumes, crashes and failing writes: what the resume reopens is enough.
THEOREM InSequenceNeverRefused ==
  ASSUME MaxOpen <= 1
  PROVE  Spec => []NeverRefused
<1>1. Init => SeqInv
  BY SeqInit
<1>2. SeqInv /\ [Next]_vars => SeqInv'
  BY SeqNext
<1>3. SeqInv => NeverRefused
  BY DEF SeqInv
<1> QED BY <1>1, <1>2, <1>3, PTL DEF Spec

=============================================================================
