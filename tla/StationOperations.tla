-------------------------- MODULE StationOperations --------------------------
(***************************************************************************)
(* The base station's own operations within one session, over all the      *)
(* connections that resume it: the ids the server admits, the operations   *)
(* it holds open, the newest id it persists in the background, and what a  *)
(* resume reopens.                                                         *)
(*                                                                         *)
(* The station numbers its operations upwards, keeps at most MaxOpen of    *)
(* them open, and after a resume completes or reissues those it has open   *)
(* with their original ids.  In its connect it requires the service center *)
(* to know every operation that was answered.                              *)
(***************************************************************************)
EXTENDS Integers, Sequences, FiniteSets, FiniteSetsExt

CONSTANTS
  MaxConns,    \* bound: connections opened, one after the other
  MaxOps,      \* bound: operations the station starts
  MaxOpen,     \* operations the station keeps open at a time
  Journalled,  \* the operations the server keeps a record of (att, det)
  MaxFaults,   \* bound: failing counter writes and lost records
  MaxCrashes   \* bound: deaths of the process

Conns == 1..MaxConns
Ids   == 1..MaxOps

ASSUME OperationsAssumption ==
  /\ {MaxConns, MaxOps, MaxOpen, MaxFaults, MaxCrashes} \subseteq Nat
  /\ Journalled \subseteq Ids

VARIABLES
  row,      \* the session row: its status, sn_bs_op_id, pending operations
  mem,      \* per connection: reader step, LastBsOpId, openBsOps, the offer
  flush,    \* per connection: counterFlush and the value its flusher read
  link,     \* the connection's frames to the server, replies to the station
  station,  \* the station: newest id, open ids, answered ids, ids to take up
  refused,  \* ids the server refused as out of sequence
  overtaken,  \* ghost: a connection the station had given up claimed the row
  faults, crashes

vars == <<row, mem, flush, link, station, refused, overtaken, faults, crashes>>

NoValue == 0 - 1

Unused == [pc |-> "unused", last |-> 0, open |-> {}, offer |-> {}]
Quiet  == [dirty |-> FALSE, running |-> FALSE, read |-> NoValue]
Down   == [conn |-> 0, frames |-> <<>>, replies |-> {}]

Init ==
  /\ row     = [status |-> "disconnected", bsOp |-> 0, ops |-> {}]
  /\ mem     = [c \in Conns |-> Unused]
  /\ flush   = [c \in Conns |-> Quiet]
  /\ link    = Down
  /\ station = [last |-> 0, open |-> {}, answered |-> {}, todo |-> {}]
  /\ refused = {}
  /\ overtaken = FALSE
  /\ faults  = 0
  /\ crashes = 0

Fault == faults < MaxFaults /\ faults' = faults + 1

-----------------------------------------------------------------------------
(* Connecting.                                                             *)

\* resumeCountersConsistent, for the operations the station requires.
Consistent == \A n \in station.answered : n <= row.bsOp

\* HandleResume and offerResume: the row is found, its records are loaded.
Connect(c) ==
  /\ link = Down /\ mem[c].pc = "unused"
  /\ \A d \in Conns : d < c => mem[d].pc # "unused"
  /\ row.status = "disconnected"
  /\ \/ /\ Consistent
        /\ mem' = [mem EXCEPT ![c] = [pc |-> "offered", last |-> row.bsOp, open |-> {},
                                      offer |-> row.ops]]
        /\ link' = [Down EXCEPT !.conn = c]
        /\ UNCHANGED row
     \/ /\ ~Consistent
        /\ row' = [row EXCEPT !.status = "terminated", !.ops = {}]
        /\ UNCHANGED <<mem, link>>
  /\ UNCHANGED <<flush, station, refused, overtaken, faults, crashes>>

\* PersistSession reads the row's counters again.
Reread(c) ==
  /\ mem[c].pc = "offered" /\ link.conn = c
  /\ mem' = [mem EXCEPT ![c].pc = "claiming", ![c].last = row.bsOp]
  /\ UNCHANGED <<row, flush, link, station, refused, overtaken, faults, crashes>>

\* Faulty: the resumed connection has no operation open.
ReopenNothing(c) == {}

\* Faulty: a session without operations reopens the connect operation.
ReopenZero(c) == {mem[c].last} \cup mem[c].offer

\* reopenResumedBaseStationOperations.
Reopened(c) == {n \in {mem[c].last} : n > 0} \cup mem[c].offer

\* The claim of a resumable row writes the counters read, and the handshake
\* completes; a row claimed by another connection ends this one.
Claim(c) ==
  /\ mem[c].pc = "claiming"
  /\ \/ /\ row.status = "disconnected"
        /\ row' = [row EXCEPT !.status = "active", !.bsOp = mem[c].last]
        /\ mem' = [mem EXCEPT ![c].pc = "active", ![c].open = Reopened(c)]
        /\ station' = IF link.conn = c THEN [station EXCEPT !.todo = station.open] ELSE station
        /\ overtaken' = (overtaken \/ link.conn # c)
        /\ UNCHANGED link
     \/ /\ row.status # "disconnected"
        /\ mem' = [mem EXCEPT ![c].pc = "gone"]
        /\ link' = IF link.conn = c THEN Down ELSE link
        /\ UNCHANGED <<row, station, overtaken>>
  /\ UNCHANGED <<flush, refused, faults, crashes>>

-----------------------------------------------------------------------------
(* The station.                                                            *)

Connected == link.conn # 0 /\ mem[link.conn].pc = "active"

Transmit(cmd, n) == link' = [link EXCEPT !.frames = Append(@, [cmd |-> cmd, id |-> n])]

\* A new operation, once those of the connection before are taken up.
StartOperation ==
  /\ Connected /\ station.todo = {}
  /\ station.last < MaxOps /\ Cardinality(station.open) < MaxOpen
  /\ station' = [station EXCEPT !.last = @ + 1, !.open = @ \cup {station.last + 1}]
  /\ Transmit("open", station.last + 1)
  /\ UNCHANGED <<row, mem, flush, refused, overtaken, faults, crashes>>

\* The oldest operation not taken up since the resume is sent again.
Reissue ==
  /\ Connected /\ station.todo # {}
  /\ station' = [station EXCEPT !.todo = @ \ {Min(station.todo)}]
  /\ Transmit("open", Min(station.todo))
  /\ UNCHANGED <<row, mem, flush, refused, overtaken, faults, crashes>>

ReceiveReply ==
  /\ \E n \in link.replies :
       /\ link' = [link EXCEPT !.replies = @ \ {n}]
       /\ station' = [station EXCEPT !.answered = @ \cup {n}]
  /\ UNCHANGED <<row, mem, flush, refused, overtaken, faults, crashes>>

\* An answered operation ends with its complete message, or with the error
\* exchange that replaces it.
Finish ==
  /\ Connected
  /\ \E n \in station.open \cap station.answered, cmd \in {"close", "error"} :
       /\ n \in station.todo => n = Min(station.todo)
       /\ Transmit(cmd, n)
       /\ station' = [station EXCEPT !.open = @ \ {n}, !.todo = @ \ {n}]
  /\ UNCHANGED <<row, mem, flush, refused, overtaken, faults, crashes>>

-----------------------------------------------------------------------------
(* The reader: sequenceOperation, the flush, the handler.                  *)

Frame == Head(link.frames)

Rest == [link EXCEPT !.frames = Tail(@)]

Reading(c) == mem[c].pc = "active" /\ link.conn = c /\ link.frames # <<>>

\* startBaseStationOperation's condition.
Admits(c, n) == n \in mem[c].open \/ n > mem[c].last

\* Faulty: the flusher is told only when it has to be started.
RequestIfIdle(c) ==
  IF flush[c].running THEN flush ELSE [flush EXCEPT ![c].dirty = TRUE, ![c].running = TRUE]

\* counterFlush.request; the flusher is started where none runs.
Request(c) == [flush EXCEPT ![c].dirty = TRUE, ![c].running = TRUE]

\* The handler of an opening command answers; the record it keeps for a
\* resume is best effort.
OpenOperation(c) ==
  /\ Reading(c) /\ Frame.cmd = "open" /\ Admits(c, Frame.id)
  /\ mem' = [mem EXCEPT ![c].last = Max({@, Frame.id}), ![c].open = @ \cup {Frame.id}]
  /\ \/ /\ row' = [row EXCEPT !.ops = @ \cup ({Frame.id} \cap Journalled)]
        /\ UNCHANGED faults
     \/ Frame.id \in Journalled /\ Fault /\ UNCHANGED row
  /\ flush' = Request(c)
  /\ link' = [Rest EXCEPT !.replies = @ \cup {Frame.id}]
  /\ UNCHANGED <<station, refused, overtaken, crashes>>

\* completeBaseStationOperation; the error exchange ends it in any case.
CloseOperation(c) ==
  /\ Reading(c)
  /\ Frame.cmd = "error" \/ (Frame.cmd = "close" /\ Frame.id \in mem[c].open)
  /\ mem' = [mem EXCEPT ![c].open = @ \ {Frame.id}]
  /\ row' = [row EXCEPT !.ops = @ \ (IF Frame.cmd = "close" THEN {Frame.id} ELSE {})]
  /\ flush' = Request(c)
  /\ link' = Rest
  /\ UNCHANGED <<station, refused, overtaken, faults, crashes>>

\* An id out of sequence closes the connection.
Refuse(c) ==
  /\ Reading(c)
  /\ \/ Frame.cmd = "open" /\ ~Admits(c, Frame.id)
     \/ Frame.cmd = "close" /\ Frame.id \notin mem[c].open
  /\ refused' = refused \cup {Frame.id}
  /\ mem' = [mem EXCEPT ![c].pc = "counting"]
  /\ link' = Down
  /\ UNCHANGED <<row, flush, station, overtaken, faults, crashes>>

-----------------------------------------------------------------------------
(* The flusher of a connection; it outlives its reader.                    *)

\* counterFlush.next takes the mark; UpdateSessionCounters reads the values.
FlushRead(c) ==
  /\ flush[c].running /\ flush[c].read = NoValue
  /\ flush' = [flush EXCEPT ![c] =
       IF @.dirty THEN [@ EXCEPT !.dirty = FALSE, !.read = mem[c].last] ELSE Quiet]
  /\ UNCHANGED <<row, mem, link, station, refused, overtaken, faults, crashes>>

\* Faulty: the statement stores whatever it is given.
StoreAny(n) == [row EXCEPT !.bsOp = n]

\* UpdateOperationIDs.
Store(n) == [row EXCEPT !.bsOp = Max({@, n})]

\* A failure is logged.
FlushWrite(c) ==
  /\ flush[c].read # NoValue
  /\ flush' = [flush EXCEPT ![c].read = NoValue]
  /\ \/ row' = Store(flush[c].read) /\ UNCHANGED faults
     \/ Fault /\ UNCHANGED row
  /\ UNCHANGED <<mem, link, station, refused, overtaken, crashes>>

-----------------------------------------------------------------------------
(* Losing the connection.                                                  *)

\* The connection breaks with whatever was on its way; the station may be
\* back before the reader has noticed.
Break ==
  /\ link.conn # 0
  /\ link' = Down
  /\ station' = [station EXCEPT !.todo = {}]
  /\ UNCHANGED <<row, mem, flush, refused, overtaken, faults, crashes>>

\* The reader of a lost connection ends; without a row it leaves nothing.
EndReading(c) ==
  /\ mem[c].pc \in {"offered", "active"} /\ link.conn # c
  /\ mem' = [mem EXCEPT ![c].pc = IF mem[c].pc = "active" THEN "counting" ELSE "gone"]
  /\ UNCHANGED <<row, flush, link, station, refused, overtaken, faults, crashes>>

\* Faulty: the flusher is trusted to have stored the newest id.
NothingFinal(c) == row

Final(c) == Store(mem[c].last)

\* The teardown writes the final counters.
FinalCounters(c) ==
  /\ mem[c].pc = "counting"
  /\ mem' = [mem EXCEPT ![c].pc = "handing back"]
  /\ \/ row' = Final(c) /\ UNCHANGED faults
     \/ Fault /\ UNCHANGED row
  /\ UNCHANGED <<flush, link, station, refused, overtaken, crashes>>

HandBack(c) ==
  /\ mem[c].pc = "handing back"
  /\ mem' = [mem EXCEPT ![c].pc = "gone"]
  /\ row' = [row EXCEPT !.status = "disconnected"]
  /\ UNCHANGED <<flush, link, station, refused, overtaken, faults, crashes>>

\* The process dies and is started again; an active row is reconciled.
Crash ==
  /\ crashes < MaxCrashes
  /\ crashes' = crashes + 1
  /\ mem' = [c \in Conns |-> IF mem[c].pc = "unused" THEN mem[c] ELSE [mem[c] EXCEPT !.pc = "gone"]]
  /\ flush' = [c \in Conns |-> Quiet]
  /\ link' = Down
  /\ station' = [station EXCEPT !.todo = {}]
  /\ row' = [row EXCEPT !.status = IF @ = "active" THEN "disconnected" ELSE @]
  /\ UNCHANGED <<refused, overtaken, faults>>

-----------------------------------------------------------------------------
Handle(c) == OpenOperation(c) \/ CloseOperation(c) \/ Refuse(c)

Flush(c) == FlushRead(c) \/ FlushWrite(c)

Leave(c) == FinalCounters(c) \/ HandBack(c)

Next ==
  \/ \E c \in Conns : \/ Connect(c) \/ Reread(c) \/ Claim(c)
                      \/ Handle(c) \/ Flush(c) \/ EndReading(c) \/ Leave(c)
  \/ StartOperation \/ Reissue \/ ReceiveReply \/ Finish
  \/ Break \/ Crash

Spec == Init /\ [][Next]_vars

\* Go schedules the flusher; nothing is asked of the station.
FairSpec == Spec /\ \A c \in Conns : WF_vars(Flush(c))

-----------------------------------------------------------------------------
(* Properties.                                                             *)

RowType     == [status : {"disconnected", "active", "terminated"}, bsOp : 0..MaxOps, ops : SUBSET Ids]
MemType     == [pc : {"unused", "offered", "claiming", "active", "counting", "handing back", "gone"},
                last : 0..MaxOps, open : SUBSET Ids, offer : SUBSET Ids]
FlushType   == [dirty : BOOLEAN, running : BOOLEAN, read : NoValue..MaxOps]
FrameType   == [cmd : {"open", "close", "error"}, id : Ids]
LinkType    == [conn : Conns \cup {0}, frames : Seq(FrameType), replies : SUBSET Ids]
StationType == [last : 0..MaxOps, open : SUBSET Ids, answered : SUBSET Ids, todo : SUBSET Ids]

\* The state the module keeps: no step numbers an operation outside the
\* session, and what is open, offered or refused was numbered by the station.
TypeOK ==
  /\ row \in RowType
  /\ mem \in [Conns -> MemType]
  /\ flush \in [Conns -> FlushType]
  /\ link \in LinkType
  /\ station \in StationType
  /\ refused \subseteq Ids
  /\ overtaken \in BOOLEAN
  /\ faults \in 0..MaxFaults /\ crashes \in 0..MaxCrashes

\* A station that follows the protocol with one operation at a time is never
\* refused, however connections are lost, the process dies and the counter
\* lags behind: the resume reopens what it may still complete or reissue.
\* Only the late claim of a connection it had given up can change that.
NeverRefused == refused = {} \/ overtaken

\* The stored counter never goes back, whichever flushers of earlier
\* connections, teardowns and claims write to the row (UpdateOperationIDs),
\* but by the claim of a connection the station has already given up, or one
\* that overtakes a flusher whose teardown could not write.
StoredOnlyRises == [][row'.bsOp >= row.bsOp \/ overtaken' \/ faults > 0]_vars

\* A session whose connections are lost one by one is resumed each time: it is
\* retired for the counters it lacks only when the process died, a counter
\* could not be written, or a connection the station had given up claimed it.
SessionSurvives ==
  row.status = "terminated" => crashes > 0 \/ faults > 0 \/ overtaken

\* A mark set while the flusher writes is not lost: what was admitted last is
\* stored, unless the process dies or the write fails.
AdmittedIsStored ==
  \A c \in Conns, n \in Ids :
    (mem[c].pc = "active" /\ mem[c].last = n) ~> (row.bsOp >= n \/ crashes > 0 \/ faults > 0)
=============================================================================
