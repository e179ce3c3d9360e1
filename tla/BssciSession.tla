---------------------------- MODULE BssciSession ----------------------------
(***************************************************************************)
(* The sessions of one base station at the BSSCI server: the connections   *)
(* it opens, the connect operation that resumes a session or starts a new  *)
(* one, the row of basestation_sessions a connection claims, the journal of*)
(* pending service-center operations kept with the row, the registry of    *)
(* live connections, and the teardown that hands a row back.               *)
(*                                                                         *)
(* Every connection has one reader; the service center's own operations    *)
(* are sent by other goroutines, one statement or frame at a time.  What   *)
(* the station asks for and answers is not constrained.  Sessions of       *)
(* different stations share nothing but the registry's lock.               *)
(***************************************************************************)
EXTENDS Integers, FiniteSets, FiniteSetsExt

CONSTANTS
  Conns,       \* connections: the runtime session ids (Session.ID)
  MaxRows,     \* bound: session rows created
  Uuids,       \* the snBsUuid values the station uses
  MaxScOps,    \* bound: operations allocated on a session row
  MaxSenders,  \* bound: service-center operations being sent at a time
  MaxFaults,   \* bound: failing statements and writes
  MaxCrashes,  \* bound: deaths of the process
  NoConn, NoRow

Rows  == 1..MaxRows
ScIds == -MaxScOps..-1

ASSUME SessionAssumption ==
  /\ {MaxRows, MaxScOps, MaxSenders, MaxFaults, MaxCrashes} \subseteq Nat
  /\ IsFiniteSet(Conns) /\ Uuids # {}
  /\ NoConn \notin Conns /\ NoRow \notin Rows

VARIABLES
  rows,     \* basestation_sessions: status, connection_id, sn_bs_uuid, sn_sc_op_id
  journal,  \* bssci_pending_operations: per row, the operations and who began them
  conn,     \* per connection: what its Session and its reader hold
  live,     \* sessionRegistry.byID
  cache,    \* per connection, the pending operations cached under its session id
  senders,  \* service-center operations between their lookup and their frame
  up,       \* whether the process runs
  unreadable, \* pending operations of earlier processes that this one cannot rebuild
  faults, crashes,  \* counted against their bounds
  issued,   \* ghost: every operation recorded under an id, with its connection
  open,     \* ghost: operations whose frame may have left, not yet settled
  contested \* ghost: rows changed by a connection that no longer is the only one at them

dbVars    == <<rows, journal>>
ghostVars == <<issued, open, contested>>
vars == <<rows, journal, conn, live, cache, senders, up, unreadable, faults, crashes, issued, open, contested>>

Absent == [status |-> "absent", conn |-> NoConn, uuid |-> CHOOSE u \in Uuids : TRUE, scOp |-> 0]

Unconnected ==
  [pc |-> "idle", sock |-> FALSE, uuid |-> CHOOSE u \in Uuids : TRUE, resumed |-> FALSE,
   prev |-> NoRow, offer |-> {}, row |-> NoRow, lastSc |-> 0]

Init ==
  /\ rows    = [r \in Rows |-> Absent]
  /\ journal = [r \in Rows |-> {}]
  /\ conn    = [c \in Conns |-> Unconnected]
  /\ live    = {}
  /\ cache   = [c \in Conns |-> {}]
  /\ senders = {}
  /\ up      = TRUE
  /\ unreadable = {}
  /\ faults  = 0
  /\ crashes = 0
  /\ issued  = {}
  /\ open    = {}
  /\ contested = {}

-----------------------------------------------------------------------------
(* The statements of the session and pending-operation repositories.  A    *)
(* row can be resumed exactly while it is disconnected: every statement    *)
(* that ends a row for good clears can_resume with it.                     *)

Fault == faults < MaxFaults /\ faults' = faults + 1

Active == {r \in Rows : rows[r].status = "active"}

\* FindResumableSession: the newest disconnected row the snBsUuid names.
FindResumable(u) == {r \in Rows : rows[r].status = "disconnected" /\ rows[r].uuid = u}

Disconnected == {r \in Rows : rows[r].status = "disconnected"}

\* TerminateSession carries no condition on the row's status or connection.
Terminated(R) ==
  [r \in Rows |-> IF r \in R THEN [rows[r] EXCEPT !.status = "terminated"] ELSE rows[r]]

\* DeleteBySession: the rows' journals go.
Discarded(R) == [r \in Rows |-> IF r \in R THEN {} ELSE journal[r]]

\* Faulty: any row may be activated again.
ResumableAlways(r) == TRUE

\* Faulty: the claim of a resumed row starts its counter again.
CounterReset(r) == 0

\* Faulty: the resumed session skips an id.
CounterPastLast(r) == rows[r].scOp - 1

\* PersistSession re-reads the counters of the row a resume claims.
PersistedCounter(r) == rows[r].scOp

\* ActivateSessionIfResumable's condition.
Resumable(r) == rows[r].status = "disconnected"

\* MarkDisconnected's condition.
HeldBy(r, c) == rows[r].status = "active" /\ rows[r].conn = c

\* Create: the journal's unique key is the row and the operation id.
Upsert(r, e) == [journal EXCEPT ![r] = {x \in @ : x.id # e.id} \cup {e}]

\* DeleteBySessionAndOperation.
Without(r, id) == [journal EXCEPT ![r] = {x \in @ : x.id # id}]

Lower(a, b) == IF a < b THEN a ELSE b

-----------------------------------------------------------------------------
(* The connect operation.                                                  *)

\* The reader of c goes to step p.
Goto(c, p) == conn' = [conn EXCEPT ![c].pc = p]

\* The listener hands a connection over.
Accept(c) ==
  /\ up /\ conn[c].pc = "idle"
  /\ conn' = [conn EXCEPT ![c].pc = "connecting", ![c].sock = TRUE]
  /\ UNCHANGED <<dbVars, live, cache, senders, up, unreadable, faults, crashes, ghostVars>>

\* The con is malformed, unauthorized, or a statement failed: the error
\* replaces conRsp, and nothing of the connection outlives it.
RejectConnect(c) ==
  /\ conn[c].pc = "connecting"
  /\ Goto(c, "closing")
  /\ UNCHANGED <<dbVars, live, cache, senders, up, unreadable, faults, crashes, ghostVars>>

\* handleConnect up to the resume outcome (HandleResume).  Whether counters
\* and version agree with the row is the station's word against the row.
Connect(c) ==
  /\ conn[c].pc = "connecting"
  /\ \E u \in Uuids :
       \/ /\ FindResumable(u) = {}
          /\ conn' = [conn EXCEPT ![c].pc = "offered", ![c].uuid = u]
       \/ /\ FindResumable(u) # {}
          /\ \E next \in {"loading", "retiring"} :
               conn' = [conn EXCEPT ![c].pc = next, ![c].uuid = u,
                                    ![c].prev = Max(FindResumable(u))]
  /\ UNCHANGED <<dbVars, live, cache, senders, up, unreadable, faults, crashes, ghostVars>>

\* retireInconsistentOutcome, then the connect starts a new session.  A
\* failed statement rejects the connect.
RetireInconsistent(c) ==
  /\ conn[c].pc = "retiring"
  /\ \/ /\ rows' = Terminated({conn[c].prev})
        /\ \/ /\ journal' = Discarded({conn[c].prev})
              /\ conn' = [conn EXCEPT ![c].pc = "offered", ![c].prev = NoRow]
              /\ UNCHANGED faults
           \/ Fault /\ Goto(c, "closing") /\ UNCHANGED journal
     \/ Fault /\ Goto(c, "closing") /\ UNCHANGED dbVars
  /\ UNCHANGED <<live, cache, senders, up, unreadable, crashes, issued, open, contested>>

LowestId(s, E) == IF E = {} THEN s ELSE Lower(s, Min({e.id : e \in E}))

\* reconstituteResumeOperations: what cannot be rebuilt depends on the record
\* and on the process alone, not on the connection that asks.
Lost(r) == {e \in journal[r] : [row |-> r, id |-> e.id, by |-> e.by] \in unreadable}

\* offerResume: the counters of the row, the journal as it is now without
\* the operations that cannot be rebuilt, and conRsp.  Their records go; where
\* that fails (K) they stay, and are dropped again by the next resume.
OfferResume(c) ==
  LET r == conn[c].prev IN
  /\ conn[c].pc = "loading"
  /\ \/ \E K \in SUBSET Lost(r) :
          /\ \/ K = {} /\ UNCHANGED faults
             \/ K # {} /\ Fault
          /\ journal' = [journal EXCEPT ![r] = @ \ (Lost(r) \ K)]
          /\ open' = {w \in open : ~(w.row = r /\ \E e \in Lost(r) : e.id = w.id)}
          /\ conn' = [conn EXCEPT
               ![c].pc = IF conn[c].sock THEN "offered" ELSE "closing",
               ![c].resumed = TRUE, ![c].offer = journal[r] \ Lost(r),
               ![c].lastSc = LowestId(rows[r].scOp, journal[r] \ Lost(r))]
     \/ Fault /\ Goto(c, "closing") /\ UNCHANGED <<journal, open>>
  /\ UNCHANGED <<rows, live, cache, senders, up, unreadable, crashes, issued, contested>>

\* handleConnectRefusal: the station refuses the conRsp; a resume that was
\* offered is retired (retireRefusedResume).
RefuseConnect(c) ==
  /\ conn[c].pc = "offered"
  /\ \/ /\ ~conn[c].resumed
        /\ UNCHANGED <<dbVars, faults>>
     \/ /\ conn[c].resumed
        /\ \/ /\ rows' = Terminated({conn[c].prev})
              /\ \/ journal' = Discarded({conn[c].prev}) /\ UNCHANGED faults
                 \/ Fault /\ UNCHANGED journal
           \/ Fault /\ UNCHANGED dbVars
  /\ Goto(c, "closing")
  /\ UNCHANGED <<live, cache, senders, up, unreadable, crashes, issued, open, contested>>

-----------------------------------------------------------------------------
(* conCmp: activateSession.                                                *)

\* PersistSession reads the row of a resumed session again and takes its
\* counters, over whatever the offer had computed.
ConnectComplete(c) ==
  /\ conn[c].pc = "offered"
  /\ conn' = [conn EXCEPT
       ![c].pc = IF conn[c].resumed THEN "claiming" ELSE "discarding",
       ![c].lastSc = IF conn[c].resumed THEN PersistedCounter(conn[c].prev) ELSE 0]
  /\ UNCHANGED <<dbVars, live, cache, senders, up, unreadable, faults, crashes, ghostVars>>

\* The claim writes the counters read before it.  The unique index on active
\* rows lets no second row become active.
ClaimRow(c) ==
  LET r == conn[c].prev IN
  /\ conn[c].pc = "claiming"
  /\ \/ /\ Resumable(r) /\ Active \subseteq {r}
        /\ rows' = [rows EXCEPT ![r].status = "active", ![r].conn = c,
                                ![r].scOp = conn[c].lastSc]
        /\ conn' = [conn EXCEPT ![c].pc = "registering", ![c].row = r]
        /\ UNCHANGED faults
     \/ /\ ~Resumable(r) \/ ~(Active \subseteq {r})
        /\ Goto(c, "closing")
        /\ UNCHANGED <<rows, faults>>
     \/ Fault /\ Goto(c, "closing") /\ UNCHANGED rows
  /\ UNCHANGED <<journal, live, cache, senders, up, unreadable, crashes, ghostVars>>

\* discardPriorSessionState, the active row: a failure to end it aborts the
\* activation, a failure to find it does not.
DiscardActive(c) ==
  /\ conn[c].pc = "discarding"
  /\ \/ /\ rows' = Terminated(Active)
        /\ \/ journal' = Discarded(Active) /\ Goto(c, "retiring rows") /\ UNCHANGED faults
           \/ Active # {} /\ Fault /\ Goto(c, "closing") /\ UNCHANGED journal
     \/ /\ Active # {} /\ Fault
        /\ \E next \in {"closing", "retiring rows"} : Goto(c, next)
        /\ UNCHANGED dbVars
  /\ UNCHANGED <<live, cache, senders, up, unreadable, crashes, issued, open, contested>>

\* discardPriorSessionState, the resumable rows: their journals are deleted
\* where that succeeds.
DiscardResumable(c) ==
  /\ conn[c].pc = "retiring rows"
  /\ \/ /\ rows' = Terminated(Disconnected)
        /\ \/ journal' = Discarded(Disconnected) /\ UNCHANGED faults
           \/ Disconnected # {} /\ Fault /\ UNCHANGED journal
        /\ Goto(c, "creating")
     \/ Fault /\ Goto(c, "closing") /\ UNCHANGED dbVars
  /\ UNCHANGED <<live, cache, senders, up, unreadable, crashes, issued, open, contested>>

\* CreateSession and its initial counters.  A failure to write those leaves
\* the row with the connection, whose teardown hands it back.
CreateRow(c) ==
  /\ conn[c].pc = "creating"
  /\ \/ \E r \in Rows :
          /\ rows[r].status = "absent" /\ \A q \in 1..(r - 1) : rows[q].status # "absent"
          /\ Active = {}
          /\ rows' = [rows EXCEPT ![r] = [status |-> "active", conn |-> c,
                                          uuid |-> conn[c].uuid, scOp |-> 0]]
          /\ \E next \in {"registering", "closing"} :
               /\ next = "closing" => faults < MaxFaults
               /\ faults' = faults + (IF next = "closing" THEN 1 ELSE 0)
               /\ conn' = [conn EXCEPT ![c].pc = next, ![c].row = r, ![c].lastSc = 0]
     \/ /\ Active # {} \/ \A r \in Rows : rows[r].status # "absent"
        /\ Goto(c, "closing")
        /\ UNCHANGED <<rows, faults>>
     \/ Fault /\ Goto(c, "closing") /\ UNCHANGED rows
  /\ UNCHANGED <<journal, live, cache, senders, up, unreadable, crashes, ghostVars>>

\* RegisterConnection; a failure publishes nothing.
Register(c) ==
  /\ conn[c].pc = "registering"
  /\ \/ Goto(c, "publishing") /\ UNCHANGED faults
     \/ Fault /\ Goto(c, "closing")
  /\ UNCHANGED <<dbVars, live, cache, senders, up, unreadable, crashes, ghostVars>>

\* Faulty: the connections replaced keep their sockets.
DisplacedStay(c) == conn

\* publishLiveSession closes the connections displace evicted.
Displaced(c) ==
  [d \in Conns |-> IF d \in live \ {c} THEN [conn[d] EXCEPT !.sock = FALSE] ELSE conn[d]]

Publish(c) ==
  /\ conn[c].pc = "publishing"
  /\ conn' = [Displaced(c) EXCEPT ![c].pc = "completing"]
  /\ live' = {c}
  /\ UNCHANGED <<dbVars, cache, senders, up, unreadable, faults, crashes, ghostVars>>

\* Faulty: the operations are sent again and not cached.
HydratedNothing(c) == cache

\* RestorePendingOperation, for every operation of the offer.
Hydrated(c) == [cache EXCEPT ![c] = {e.id : e \in conn[c].offer}]

\* completeHandshake, then reissueResumedOperations with the original ids; a
\* broken connection ends the reader.
CompleteHandshake(c) ==
  /\ conn[c].pc = "completing"
  /\ cache' = Hydrated(c)
  /\ \/ /\ conn[c].sock \/ conn[c].offer = {}
        /\ Goto(c, "complete")
        /\ open' = open \cup {[row |-> conn[c].row, id |-> e.id, by |-> e.by] : e \in conn[c].offer}
     \/ /\ ~conn[c].sock /\ conn[c].offer # {}
        /\ Goto(c, "closing")
        /\ UNCHANGED open
  /\ UNCHANGED <<dbVars, live, senders, up, unreadable, faults, crashes, issued, contested>>

-----------------------------------------------------------------------------
(* Service-center operations: SendDLDataQueue and its kind.                *)

\* queueingSession: a live connection whose handshake is complete.
Lookup(c) ==
  /\ c \in live /\ conn[c].pc = "complete"
  /\ Cardinality(senders) < MaxSenders
  /\ [conn |-> c, id |-> 0, pc |-> "found"] \notin senders
  /\ senders' = senders \cup {[conn |-> c, id |-> 0, pc |-> "found"]}
  /\ UNCHANGED <<dbVars, conn, live, cache, up, unreadable, faults, crashes, ghostVars>>

Moved(t, p) == (senders \ {t}) \cup {[t EXCEPT !.pc = p]}

\* Ghost: connection c acts on a row it no longer holds, or that another
\* connection is being offered.
Contending(c) ==
  LET r == conn[c].row
      offered == \E d \in Conns \ {c} :
                   conn[d].prev = r /\ conn[d].pc \in {"loading", "offered", "claiming"}
  IN  contested' = contested \cup (IF HeldBy(r, c) /\ ~offered THEN {} ELSE {r})

\* NextScOpID, on the session found, whatever became of it since.
Allocate(t) ==
  LET c == t.conn IN
  /\ t.pc = "found" /\ conn[c].lastSc > -MaxScOps
  /\ LET id == conn[c].lastSc - 1 IN
     /\ conn' = [conn EXCEPT ![c].lastSc = id]
     /\ senders' = (senders \ {t}) \cup {[conn |-> c, id |-> id, pc |-> "allocated"]}
     /\ Contending(t.conn)
  /\ UNCHANGED <<dbVars, live, cache, up, unreadable, faults, crashes, issued, open>>

\* UpdateSessionCounters.
WriteCounter(t) ==
  LET r == conn[t.conn].row IN
  /\ t.pc = "allocated"
  /\ \/ /\ rows' = [rows EXCEPT ![r].scOp = Lower(@, conn[t.conn].lastSc)]
        /\ senders' = Moved(t, "counted")
        /\ UNCHANGED faults
     \/ Fault /\ senders' = senders \ {t} /\ UNCHANGED rows
  /\ UNCHANGED <<journal, conn, live, cache, up, unreadable, crashes, ghostVars>>

\* Faulty: the frame is sent before its recovery record is written.
RecordNothing(t) == UNCHANGED journal

\* RecordPendingOperation writes the row, then the cache.
Recorded(t) == journal' = Upsert(conn[t.conn].row, [id |-> t.id, by |-> t.conn])

Record(t) ==
  /\ t.pc = "counted"
  /\ \/ /\ Recorded(t)
        /\ cache' = [cache EXCEPT ![t.conn] = @ \cup {t.id}]
        /\ issued' = issued \cup {[row |-> conn[t.conn].row, id |-> t.id, by |-> t.conn]}
        /\ senders' = Moved(t, "recorded")
        /\ UNCHANGED faults
     \/ Fault /\ senders' = senders \ {t} /\ UNCHANGED <<journal, cache, issued>>
  /\ Contending(t.conn)
  /\ UNCHANGED <<rows, conn, live, up, unreadable, crashes, open>>

\* writeDLDataQueue: sent; in doubt, which closes the transport and keeps
\* the record; or refused by a closed socket, which removes it again.
Send(t) ==
  LET c == t.conn
      w == [row |-> conn[c].row, id |-> t.id, by |-> c] IN
  /\ t.pc = "recorded"
  /\ \/ /\ conn[c].sock
        /\ open' = open \cup {w}
        /\ UNCHANGED <<journal, conn, cache, faults>>
     \/ /\ conn[c].sock /\ Fault
        /\ open' \in {open, open \cup {w}}
        /\ conn' = [conn EXCEPT ![c].sock = FALSE]
        /\ UNCHANGED <<journal, cache>>
     \/ /\ ~conn[c].sock
        /\ journal' = Without(conn[c].row, t.id)
        /\ cache' = [cache EXCEPT ![c] = @ \ {t.id}]
        /\ UNCHANGED <<conn, open, faults>>
     \/ /\ ~conn[c].sock /\ Fault
        /\ UNCHANGED <<journal, conn, cache, open>>
  /\ senders' = senders \ {t}
  /\ Contending(t.conn)
  /\ UNCHANGED <<rows, live, up, unreadable, crashes, issued>>

\* The station's response or error settles an operation the cache knows:
\* RemovePendingOperation deletes the row first, then the cache entry.
Answer(c) ==
  /\ conn[c].pc = "complete" /\ conn[c].sock
  /\ \E w \in open :
       /\ w.row = conn[c].row /\ w.id \in cache[c]
       /\ \/ /\ journal' = Without(w.row, w.id)
             /\ cache' = [cache EXCEPT ![c] = @ \ {w.id}]
             /\ open' = {x \in open : x.row # w.row \/ x.id # w.id}
             /\ UNCHANGED faults
          \/ Fault /\ UNCHANGED <<journal, cache, open>>
  /\ Contending(c)
  /\ UNCHANGED <<rows, conn, live, senders, up, unreadable, crashes, issued>>

-----------------------------------------------------------------------------
(* Losing a connection.                                                    *)

Reading == {"connecting", "offered", "complete"}

\* The transport breaks: the peer is gone, or the server closed the socket.
Break(c) ==
  /\ conn[c].sock
  /\ conn' = [conn EXCEPT ![c].sock = FALSE]
  /\ UNCHANGED <<dbVars, live, cache, senders, up, unreadable, faults, crashes, ghostVars>>

\* The reader ends: on a broken socket, a read deadline, an undecodable frame
\* or an operation id out of sequence, with the socket still open.
EndReading(c) ==
  /\ conn[c].pc \in Reading
  /\ Goto(c, "closing")
  /\ UNCHANGED <<dbVars, live, cache, senders, up, unreadable, faults, crashes, ghostVars>>

\* The teardown removes the connection from the registry.
Unpublish(c) ==
  /\ conn[c].pc = "closing"
  /\ live' = live \ {c}
  /\ Goto(c, IF conn[c].row = NoRow THEN "evicting" ELSE "counting")
  /\ UNCHANGED <<dbVars, cache, senders, up, unreadable, faults, crashes, ghostVars>>

\* UpdateSessionCounters with the final counters; a failure is logged.
WriteFinalCounters(c) ==
  /\ conn[c].pc = "counting"
  /\ \/ rows' = [rows EXCEPT ![conn[c].row].scOp = Lower(@, conn[c].lastSc)] /\ UNCHANGED faults
     \/ Fault /\ UNCHANGED rows
  /\ Goto(c, "handing back")
  /\ UNCHANGED <<journal, live, cache, senders, up, unreadable, crashes, ghostVars>>

\* MarkDisconnected: only a row this connection still holds.
HandBack(c) ==
  LET r == conn[c].row IN
  /\ conn[c].pc = "handing back"
  /\ \/ /\ rows' = IF HeldBy(r, c) THEN [rows EXCEPT ![r].status = "disconnected"] ELSE rows
        /\ UNCHANGED faults
     \/ Fault /\ UNCHANGED rows
  /\ Goto(c, "evicting")
  /\ UNCHANGED <<journal, live, cache, senders, up, unreadable, crashes, ghostVars>>

\* What senders still see of a Session whose reader is gone.
Gone(x) == [Unconnected EXCEPT !.pc = "gone", !.row = x.row, !.lastSc = x.lastSc]

\* EvictCachedOperations; the socket is closed after the teardown.
Evict(c) ==
  /\ conn[c].pc = "evicting"
  /\ cache' = [cache EXCEPT ![c] = {}]
  /\ conn' = [conn EXCEPT ![c] = Gone(@)]
  /\ UNCHANGED <<dbVars, live, senders, up, unreadable, faults, crashes, ghostVars>>

\* CloseSessionByEUI: the station got another identity.
CloseSessionByEUI ==
  /\ up
  /\ \E c \in live :
       /\ \/ /\ rows' = Terminated({conn[c].row})
             /\ UNCHANGED faults
          \/ Fault /\ UNCHANGED rows
       /\ live' = live \ {c}
       /\ conn' = [conn EXCEPT ![c].sock = FALSE]
  /\ UNCHANGED <<journal, cache, senders, up, unreadable, crashes, issued, open, contested>>

\* The process dies with everything it keeps in memory.
Crash ==
  /\ up /\ crashes < MaxCrashes
  /\ crashes' = crashes + 1
  /\ up' = FALSE
  /\ conn' = [c \in Conns |-> IF conn[c].pc = "idle" THEN conn[c] ELSE Gone(conn[c])]
  /\ live' = {}
  /\ cache' = [c \in Conns |-> {}]
  /\ senders' = {}
  /\ UNCHANGED <<dbVars, unreadable, faults, ghostVars>>

\* Faulty: a start leaves the rows of the previous process as they are.
NothingReconciled == rows

\* DisconnectAbandonedSessions.
Reconciled ==
  [r \in Rows |-> IF r \in Active THEN [rows[r] EXCEPT !.status = "disconnected"] ELSE rows[r]]

\* The pending operations on record.
Pending == UNION {{[row |-> r, id |-> e.id, by |-> e.by] : e \in journal[r]} : r \in Rows}

\* Start reconciles the abandoned rows before the listener accepts.  Records that
\* an earlier process wrote may hold key material this one cannot read.
Start ==
  /\ ~up
  /\ unreadable' \in SUBSET Pending
  /\ rows' = Reconciled
  /\ up' = TRUE
  /\ UNCHANGED <<journal, conn, live, cache, senders, faults, crashes, ghostVars>>

-----------------------------------------------------------------------------
Activate(c) ==
  \/ ClaimRow(c) \/ DiscardActive(c) \/ DiscardResumable(c) \/ CreateRow(c)
  \/ Register(c) \/ Publish(c) \/ CompleteHandshake(c)

Teardown(c) == Unpublish(c) \/ WriteFinalCounters(c) \/ HandBack(c) \/ Evict(c)

Sending(t) == Allocate(t) \/ WriteCounter(t) \/ Record(t) \/ Send(t)

Next ==
  \/ \E c \in Conns :
       \/ Accept(c) \/ RejectConnect(c) \/ Connect(c) \/ RetireInconsistent(c)
       \/ OfferResume(c) \/ RefuseConnect(c) \/ ConnectComplete(c)
       \/ Activate(c)
       \/ Lookup(c) \/ Answer(c)
       \/ Break(c) \/ EndReading(c) \/ Teardown(c)
  \/ \E t \in senders : Sending(t)
  \/ CloseSessionByEUI \/ Crash \/ Start

Spec == Init /\ [][Next]_vars

\* Go schedules every runnable goroutine: a reader goes on with its handler
\* and its teardown, and the process is started again.
Fairness ==
  /\ \A c \in Conns : WF_vars(Activate(c)) /\ WF_vars(Teardown(c))
  /\ WF_vars(Start)

FairSpec == Spec /\ Fairness

-----------------------------------------------------------------------------
(* Properties.                                                             *)

Ops     == [id : ScIds, by : Conns]
RowType == [status : {"absent", "active", "disconnected", "terminated"},
            conn : Conns \cup {NoConn}, uuid : Uuids, scOp : ScIds \cup {0}]
Steps   == {"idle", "connecting", "loading", "retiring", "offered", "claiming", "discarding",
            "retiring rows", "creating", "registering", "publishing", "completing", "complete",
            "closing", "counting", "handing back", "evicting", "gone"}
ConnType ==
  [pc : Steps, sock : BOOLEAN, uuid : Uuids, resumed : BOOLEAN, prev : Rows \cup {NoRow},
   offer : SUBSET Ops, row : Rows \cup {NoRow}, lastSc : ScIds \cup {0}]
SenderType == [conn : Conns, id : ScIds \cup {0}, pc : {"found", "allocated", "counted", "recorded"}]
IssueType  == [row : Rows, id : ScIds, by : Conns]

\* The state the module keeps.
TypeOK ==
  /\ rows \in [Rows -> RowType]
  /\ journal \in [Rows -> SUBSET Ops]
  /\ conn \in [Conns -> ConnType]
  /\ live \subseteq Conns
  /\ cache \in [Conns -> SUBSET ScIds]
  /\ senders \subseteq SenderType
  /\ up \in BOOLEAN
  /\ unreadable \subseteq IssueType
  /\ faults \in 0..MaxFaults /\ crashes \in 0..MaxCrashes
  /\ issued \subseteq IssueType
  /\ open \subseteq IssueType
  /\ contested \subseteq Rows

\* A connection in the registry is the one its row names, however late the
\* teardowns and claims of other connections of the station come: no other
\* connection was handed the row, and no teardown handed it back
\* (ActivateSessionIfResumable, MarkDisconnected, the reconciliation).
LiveOwnsRow ==
  \A c \in live :
    LET r == conn[c].row IN
    rows[r].status # "terminated" => rows[r].status = "active" /\ rows[r].conn = c

\* At most one connection can be written to: a connection the registry
\* dropped is closed, or its reader is on its way out (publishLiveSession).
OneLiveSocket ==
  \A c \in Conns : conn[c].pc = "complete" /\ conn[c].sock => c \in live

\* The connections of a station never share it: the one the registry knows has
\* the row, and no other can be written to.
OneOwner == LiveOwnsRow /\ OneLiveSocket

\* An operation whose frame may have left is in the journal of its row until
\* it is settled, so a resume of the session reissues it, unless a connection
\* changed the row while it no longer was the only one at it.
JournalCoversOpen ==
  \A w \in open :
    \/ rows[w.row].status = "terminated" \/ w.row \in contested
    \/ [id |-> w.id, by |-> w.by] \in journal[w.row]

\* Within a session no id is used for two operations, across all resumes of
\* it (NextScOpID, the counter written before the record, the counter a
\* resume restores), with the same exception.
IdsUsedOnce ==
  \A x, y \in issued : x.row = y.row /\ x.id = y.id /\ x.row \notin contested => x.by = y.by

\* An answer to a reissued operation finds it: an operation of the offer that
\* is not settled yet is cached under the live connection's session id
\* (RestorePendingOperation), with the same exception.
ReissuedIsCached ==
  \A c \in live : conn[c].pc = "complete" /\ conn[c].row \notin contested =>
    \A e \in conn[c].offer :
      [row |-> conn[c].row, id |-> e.id, by |-> e.by] \in open => e.id \in cache[c]

\* A terminated row is never used again: nothing makes it active or
\* resumable, and no later connection claims it.
TerminatedIsFinal ==
  [][\A r \in Rows : rows[r].status = "terminated" => rows'[r].status = "terminated"]_vars

\* A row a lost connection held does not stay active in its name: the
\* teardown, or the reconciliation at the next start, makes it resumable,
\* unless a statement failed.
LostRowHandedBack ==
  \A c \in Conns, r \in Rows :
    (conn[c].pc = "closing" /\ conn[c].row = r) ~> (~(rows[r].status = "active" /\ rows[r].conn = c) \/ faults > 0)
=============================================================================
