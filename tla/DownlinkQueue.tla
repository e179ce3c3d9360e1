--------------------------- MODULE DownlinkQueue ---------------------------
(***************************************************************************)
(* The downlink queue of the service center: the rows of downlink_queue,   *)
(* every SQL statement that moves one, and the goroutines that issue those *)
(* statements - dispatchers, the handlers of a base station's answers, the *)
(* reclaimer that runs when a station connects, the deletion of a station  *)
(* and the expiry sweep.  One action is one statement (PostgreSQL makes it *)
(* atomic) with the code up to the next statement or network write.        *)
(*                                                                         *)
(* The stations are an adversary here: a registered or forgotten station   *)
(* may answer anything about any downlink at any time, and a frame may be  *)
(* written, refused or left in doubt.  What the queue promises must hold   *)
(* all the same.  The rows are those of one tenant, organization and       *)
(* endpoint, so that part of every WHERE clause is true.                   *)
(***************************************************************************)
EXTENDS Naturals, Sequences

CONSTANTS
  Downlinks,         \* the queue rows
  Stations,          \* base stations, named by bs_eui
  Windows,           \* uplink telegrams, each opening one downlink window
  Dispatchers,       \* concurrent calls of the downlink dispatcher
  NoStation,         \* bs_eui IS NULL
  NoWindow,          \* a dispatch that fills no window (DispatchQueue)
  NoDownlink,        \* a dispatcher that has reserved no row
  RowID, QueID,      \* the columns id and que_id of each row
  QueueIDThreshold,  \* above it UpdateDownlinkStatus reads its key as a que_id
  MaxAttempts,       \* bound: a row released this often is not reserved again
  MayCrash,          \* whether the process may die
  DBMayFail          \* whether a statement of the dispatcher may fail

ASSUME SentinelAssumption ==
  /\ NoStation \notin Stations
  /\ NoWindow \notin Windows
  /\ NoDownlink \notin Downlinks

ASSUME IdAssumption ==
  /\ RowID \in [Downlinks -> Nat]
  /\ QueID \in [Downlinks -> Nat]
  /\ QueueIDThreshold \in Nat
  /\ MaxAttempts \in Nat
  /\ MayCrash \in BOOLEAN
  /\ DBMayFail \in BOOLEAN

VARIABLES
  status,      \* downlink_queue.status; "absent" before the INSERT
  bsEui,       \* downlink_queue.bs_eui
  attempts,    \* downlink_queue.attempts
  lateSent,    \* rows whose sent_after_expiry_at is set
  overdue,     \* rows with latest_at <= now
  issued,      \* per row, the results handed to the reporter, in order
  inFlight,    \* <<d, i>>: issued[d][i] waits in a background goroutine
  told,        \* <<d, i>>: issued[d][i] reached the downlink's originators
  claimed,     \* telegrams with messages.dl_window_claimed
  onWire,      \* ghost: dlDataQue frames that may have left for a window
  radiated,    \* ghost: <<d, n>>: a frame of d's attempt n may have left
  pc, job, via, win,  \* per dispatcher: its step, row, station and window
  try,         \* ghost: attempts of the row when the dispatcher reserved it
  answering,   \* <<s, d>>: a revoke answer between its two statements
  registered,  \* stations with a row in basestations
  deleting,    \* deleted stations whose downlinks Delete has yet to end
  stale        \* ghost: rows a release returned that was not the releaser's

rowVars      == <<status, bsEui, attempts, lateSent, stale>>
reportVars   == <<issued, inFlight, told>>
windowVars   == <<claimed, onWire, radiated>>
dispatchVars == <<pc, job, via, win, try>>
stationVars  == <<answering, registered, deleting>>
vars == <<rowVars, overdue, reportVars, windowVars, dispatchVars, stationVars>>

-----------------------------------------------------------------------------
(* Statuses and results (storage/mioty/types.go). "scheduled", "delivered"  *)
(* and "acked" are declared there and written by no statement.              *)

heldStatuses       == {"reserved", "queued", "revoking"}
revocableAtStation == {"reserved", "queued"}
revocableStatuses  == {"queued"}
TerminalStatuses   == {"transmitted", "failed", "expired", "revoked"}
Statuses == {"absent", "pending"} \cup heldStatuses \cup TerminalStatuses

\* Results the normalizer lets a dlDataRes carry.
Results == {"sent", "invalid", "expired"}

resultQueueStatuses ==
  [r \in Results |-> CASE r = "sent"    -> "transmitted"
                       [] r = "invalid" -> "failed"
                       [] r = "expired" -> "expired"]

\* The result a row's originators must have been told, once, when it ends.
ResultsOf(st) == {r \in Results : resultQueueStatuses[r] = st}

-----------------------------------------------------------------------------
Init ==
  /\ status     = [d \in Downlinks |-> "absent"]
  /\ bsEui      = [d \in Downlinks |-> NoStation]
  /\ attempts   = [d \in Downlinks |-> 0]
  /\ lateSent   = {}
  /\ overdue    = {}
  /\ issued     = [d \in Downlinks |-> <<>>]
  /\ inFlight   = {}
  /\ told       = {}
  /\ claimed    = {}
  /\ onWire     = [m \in Windows |-> 0]
  /\ radiated   = {}
  /\ pc         = [w \in Dispatchers |-> "idle"]
  /\ job        = [w \in Dispatchers |-> NoDownlink]
  /\ via        = [w \in Dispatchers |-> NoStation]
  /\ win        = [w \in Dispatchers |-> NoWindow]
  /\ try        = [w \in Dispatchers |-> 0]
  /\ answering  = {}
  /\ registered = Stations
  /\ deleting   = {}
  /\ stale      = {}

-----------------------------------------------------------------------------
(* What the statements share.                                              *)

\* SET status = to on the rows D.
Move(D, to) == status' = [d \in Downlinks |-> IF d \in D THEN to ELSE status[d]]

\* Faulty: an answer's statement that asks for the holder and not the status.
HeldOrEnded(d, s) == bsEui[d] = s

\* The WHERE clause of a station's answer: the row is held, and by it.
Held(d, s) == status[d] \in heldStatuses /\ bsEui[d] = s

\* deliver: one background goroutine per ended row tells its originators.
Report(D, r) ==
  /\ issued' = [d \in Downlinks |-> IF d \in D THEN Append(issued[d], r)
                                               ELSE issued[d]]
  /\ inFlight' = inFlight \cup {<<d, Len(issued[d]) + 1>> : d \in D}
  /\ UNCHANGED told

\* Faulty: a release that does not count the attempt.
ReturnUncounted(D) ==
  /\ Move(D, "pending")
  /\ bsEui' = [d \in Downlinks |-> IF d \in D THEN NoStation ELSE bsEui[d]]
  /\ UNCHANGED <<attempts, lateSent, stale>>

\* A release: pending again, one attempt more, no holder.
ReturnToQueue(D) ==
  /\ Move(D, "pending")
  /\ bsEui' = [d \in Downlinks |-> IF d \in D THEN NoStation ELSE bsEui[d]]
  /\ attempts' = [d \in Downlinks |-> IF d \in D THEN attempts[d] + 1
                                                 ELSE attempts[d]]
  /\ UNCHANGED <<lateSent, stale>>

\* Faulty: rows that end expired without a word to their originators.
EndExpiredSilently(D) ==
  /\ Move(D, "expired")
  /\ UNCHANGED <<bsEui, attempts, lateSent, stale, reportVars>>

\* The rows D end expired and their originators are to be told so.
EndExpired(D) ==
  /\ Move(D, "expired")
  /\ Report(D, "expired")
  /\ UNCHANGED <<bsEui, attempts, lateSent, stale>>

-----------------------------------------------------------------------------
(* The life of a row before a station holds it.                            *)

\* EnqueueDownlink: the row is inserted pending, for no station.
Enqueue(d) ==
  /\ status[d] = "absent"
  /\ Move({d}, "pending")
  /\ UNCHANGED <<bsEui, attempts, lateSent, stale, overdue, reportVars,
                 windowVars, dispatchVars, stationVars>>

\* The clock passes latest_at.
Elapse(d) ==
  /\ status[d] # "absent"
  /\ d \notin overdue
  /\ overdue' = overdue \cup {d}
  /\ UNCHANGED <<rowVars, reportVars, windowVars, dispatchVars, stationVars>>

\* RevokeDownlink with no station: an operator or Application Center revokes a
\* downlink that waits in the queue.
RevokeInQueue(d) ==
  /\ status[d] = "pending"
  /\ Move({d}, "revoked")
  /\ UNCHANGED <<bsEui, attempts, lateSent, stale, overdue, reportVars,
                 windowVars, dispatchVars, stationVars>>

-----------------------------------------------------------------------------
(* The dispatcher.  DispatchIfAvailable fills the window of a telegram:     *)
(* claim the window, reserve a row, send it, confirm it.  DispatchQueue     *)
(* sends one named row ahead of any window.                                 *)

\* Dispatcher w moves on to step p, or returns and drops its locals.
Step(w, p) == pc' = [pc EXCEPT ![w] = p] /\ UNCHANGED <<job, via, win, try>>

Return(w) ==
  /\ pc'  = [pc  EXCEPT ![w] = "idle"]
  /\ job' = [job EXCEPT ![w] = NoDownlink]
  /\ via' = [via EXCEPT ![w] = NoStation]
  /\ win' = [win EXCEPT ![w] = NoWindow]
  /\ try' = [try EXCEPT ![w] = 0]

\* ClaimDownlinkWindow for a telegram received over s; only one caller gets it.
ClaimWindow(w, s, m) ==
  /\ pc[w] = "idle"
  /\ s \in registered
  /\ m \notin claimed
  /\ claimed' = claimed \cup {m}
  /\ pc'  = [pc  EXCEPT ![w] = "claimed"]
  /\ via' = [via EXCEPT ![w] = s]
  /\ win' = [win EXCEPT ![w] = m]
  /\ UNCHANGED <<rowVars, overdue, reportVars, onWire, radiated, job, try,
                 stationVars>>

\* DispatchQueue: the serving station is chosen, no window is claimed.
ChooseStation(w, s) ==
  /\ pc[w] = "idle"
  /\ s \in registered
  /\ pc'  = [pc  EXCEPT ![w] = "chosen"]
  /\ via' = [via EXCEPT ![w] = s]
  /\ win' = [win EXCEPT ![w] = NoWindow]
  /\ UNCHANGED <<rowVars, overdue, reportVars, windowVars, job, try,
                 stationVars>>

\* Faulty: a reservation that takes rows another dispatcher has reserved.
ReservableTwice(d) == status[d] \in {"pending", "reserved"} /\ d \notin overdue

\* Faulty: a reservation that does not look at latest_at.
ReservableOverdue(d) == status[d] = "pending"

\* The WHERE clause of both reservations.  The priorities and ages that order
\* the rows are the users' choice: any of them may be first.
Reservable(d) == status[d] = "pending" /\ d \notin overdue

\* ReserveNextPendingDownlink ("claimed") or ReservePendingDownlinkByQueueID
\* ("chosen"), committed before any network write.
Reserve(w, d) ==
  /\ pc[w] \in {"claimed", "chosen"}
  /\ Reservable(d)
  /\ attempts[d] < MaxAttempts
  /\ Move({d}, "reserved")
  /\ bsEui' = [bsEui EXCEPT ![d] = via[w]]
  /\ pc'  = [pc  EXCEPT ![w] = "reserved"]
  /\ job' = [job EXCEPT ![w] = d]
  /\ try' = [try EXCEPT ![w] = attempts[d]]
  /\ UNCHANGED <<attempts, lateSent, stale, overdue, reportVars, windowVars,
                 via, win, stationVars>>

\* A dispatch that sent nothing goes on to give its window, if any, back.
Unfilled(w) == IF win[w] = NoWindow THEN Return(w) ELSE Step(w, "giveback")

\* No row to reserve, the row locked by another statement, or a failed query.
ReserveNothing(w) ==
  /\ pc[w] \in {"claimed", "chosen"}
  /\ Unfilled(w)
  /\ UNCHANGED <<rowVars, overdue, reportVars, windowVars, stationVars>>

\* The frame of the dispatcher's reservation may be on the wire, in its window.
Radiate(w) ==
  /\ onWire' = [m \in Windows |-> IF m = win[w] THEN onWire[m] + 1 ELSE onWire[m]]
  /\ radiated' = radiated \cup {<<job[w], try[w]>>}

\* SendDLDataQueue returned nil: the frame was written.
SendSucceeds(w) ==
  /\ pc[w] = "reserved"
  /\ Step(w, "sent")
  /\ Radiate(w)
  /\ UNCHANGED <<rowVars, overdue, reportVars, claimed, stationVars>>

\* Faulty: a write left in doubt gives the window back, as if nothing was sent.
SendAmbiguousRefunds(w) ==
  /\ pc[w] = "reserved"
  /\ Unfilled(w)
  /\ Radiate(w)
  /\ UNCHANGED <<rowVars, overdue, reportVars, claimed, stationVars>>

\* ErrAmbiguousWrite: the row stays reserved and the window stays claimed.
SendAmbiguous(w) ==
  /\ pc[w] = "reserved"
  /\ Return(w)
  /\ Radiate(w)
  /\ UNCHANGED <<rowVars, overdue, reportVars, claimed, stationVars>>

\* Faulty: a failed send that returns without releasing its row.
SendFailsAndReturns(w) ==
  /\ pc[w] = "reserved"
  /\ Unfilled(w)
  /\ UNCHANGED <<rowVars, overdue, reportVars, windowVars, stationVars>>

\* Any other send error: nothing reached the wire, the row is to be released.
SendFails(w) ==
  /\ pc[w] = "reserved"
  /\ Step(w, "unsent")
  /\ UNCHANGED <<rowVars, overdue, reportVars, windowVars, stationVars>>

\* Faulty: a confirmation that matches the holder and not the status.
ConfirmableOrEnded(d, s) == bsEui[d] = s

\* The rows markReservedAsQueued confirms for station s.
Confirmable(d, s) == status[d] = "reserved" /\ bsEui[d] = s

\* MarkReservedAsQueued after the send; a row it does not match keeps its state
\* and the dispatch still counts as done.
Confirm(w) ==
  /\ pc[w] = "sent"
  /\ Return(w)
  /\ Move({d \in Downlinks : d = job[w] /\ Confirmable(d, via[w])}, "queued")
  /\ UNCHANGED <<bsEui, attempts, lateSent, stale, overdue, reportVars, windowVars, stationVars>>

\* MarkReservedAsQueued failed: the row stays reserved.
ConfirmFails(w) ==
  /\ DBMayFail
  /\ pc[w] = "sent"
  /\ Return(w)
  /\ UNCHANGED <<rowVars, overdue, reportVars, windowVars, stationVars>>

\* The rows UpdateDownlinkStatus(dl.ID) names: above queueIDThreshold the key
\* is compared with que_id instead of id.
ReleaseTarget(d) ==
  {e \in Downlinks : IF RowID[d] > QueueIDThreshold
                       THEN status[e] # "absent" /\ QueID[e] = RowID[d]
                       ELSE e = d}

\* The reservation dispatcher w made still stands on row d.
Owns(w, d) == job[w] = d /\ status[d] = "reserved" /\ try[w] = attempts[d]

\* UpdateDownlinkStatus(pending) after a definite send failure.  The statement
\* looks neither at the row's status nor at its holder, and keeps bs_eui.
Release(w) ==
  LET D == ReleaseTarget(job[w])
  IN /\ pc[w] = "unsent"
     /\ Unfilled(w)
     /\ Move(D, "pending")
     /\ attempts' = [d \in Downlinks |-> IF d \in D THEN attempts[d] + 1
                                                    ELSE attempts[d]]
     /\ stale' = stale \cup {d \in D : ~Owns(w, d)}
     /\ UNCHANGED <<bsEui, lateSent, overdue, reportVars, windowVars, stationVars>>

\* The release itself fails: the row stays as it is.
ReleaseFails(w) ==
  /\ DBMayFail
  /\ pc[w] = "unsent"
  /\ Unfilled(w)
  /\ UNCHANGED <<rowVars, overdue, reportVars, windowVars, stationVars>>

\* ReleaseDownlinkWindow of a dispatch that sent nothing.
GiveWindowBack(w) ==
  /\ pc[w] = "giveback"
  /\ claimed' = claimed \ {win[w]}
  /\ Return(w)
  /\ UNCHANGED <<rowVars, overdue, reportVars, onWire, radiated, stationVars>>

\* ReleaseDownlinkWindow failed: the window stays claimed.
GiveBackFails(w) ==
  /\ DBMayFail
  /\ pc[w] = "giveback"
  /\ Return(w)
  /\ UNCHANGED <<rowVars, overdue, reportVars, windowVars, stationVars>>

-----------------------------------------------------------------------------
(* What a base station answers.                                            *)

\* ProcessQueueAck, dlDataQueRsp: repeats the reserved-to-queued confirmation.
QueueAck(s, d) ==
  /\ Confirmable(d, s)
  /\ Move({d}, "queued")
  /\ UNCHANGED <<bsEui, attempts, lateSent, stale, overdue, reportVars,
                 windowVars, dispatchVars, stationVars>>

\* ProcessQueueError, an error answer to dlDataQue: FailQueuedDownlink.
QueueError(s, d) ==
  /\ Held(d, s)
  /\ Move({d}, "failed")
  /\ Report({d}, "invalid")
  /\ UNCHANGED <<bsEui, attempts, lateSent, stale, overdue, windowVars,
                 dispatchVars, stationVars>>

\* ProcessDLDataResult, dlDataRes for a downlink its station holds.
DLDataResult(s, d, r) ==
  /\ Held(d, s)
  /\ Move({d}, resultQueueStatuses[r])
  /\ Report({d}, r)
  /\ UNCHANGED <<bsEui, attempts, lateSent, stale, overdue, windowVars,
                 dispatchVars, stationVars>>

\* finishedOrMissing: the first "sent" for a row its station held when it ended
\* expired is recorded on the row and filed; its originators are told nothing.
SentAfterExpiry(s, d) ==
  /\ status[d] = "expired"
  /\ bsEui[d] = s
  /\ d \notin lateSent
  /\ lateSent' = lateSent \cup {d}
  /\ UNCHANGED <<status, bsEui, attempts, stale, overdue, reportVars,
                 windowVars, dispatchVars, stationVars>>

\* revoke, first statement, ExpireRevokedDownlink: the answering station was
\* asked to drop an overdue downlink.
ExpireRevoked(s, d) ==
  /\ status[d] = "revoking"
  /\ bsEui[d] = s
  /\ EndExpired({d})
  /\ UNCHANGED <<overdue, windowVars, dispatchVars, stationVars>>

\* The first statement matched nothing; the handler goes on to the second.
NotRevoking(s, d) ==
  /\ status[d] # "absent"
  /\ ~(status[d] = "revoking" /\ bsEui[d] = s)
  /\ answering' = answering \cup {<<s, d>>}
  /\ UNCHANGED <<rowVars, overdue, reportVars, windowVars, dispatchVars,
                 registered, deleting>>

\* Faulty: a revoke answer that takes a downlink its holder already ended.
RevocableOrEnded(s, d) == bsEui[d] = s

\* The WHERE clause of RevokeDownlink for a station's answer.
RevocableAt(s, d) == status[d] \in revocableAtStation /\ bsEui[d] = s

\* revoke, second statement: the downlink the station still held ends revoked;
\* any other keeps its state.  The revoker learns it from the answer.
RevokeAtStation(s, d) ==
  /\ <<s, d>> \in answering
  /\ answering' = answering \ {<<s, d>>}
  /\ Move({e \in {d} : RevocableAt(s, e)}, "revoked")
  /\ UNCHANGED <<bsEui, attempts, lateSent, stale, overdue, reportVars,
                 windowVars, dispatchVars, registered, deleting>>

-----------------------------------------------------------------------------
(* What the reclaimer returns to the queue.  When a station connects, and   *)
(* which rows it keeps, is the session's business: here, at any time.       *)

\* ReclaimReservations on connect; Keep are the rows of reissued operations.
ReclaimReservations(s, Keep) ==
  LET D == {d \in Downlinks \ Keep : status[d] = "reserved" /\ bsEui[d] = s}
  IN /\ D # {}
     /\ ReturnToQueue(D)
     /\ UNCHANGED <<overdue, reportVars, windowVars, dispatchVars, stationVars>>

\* ReclaimEndpointQueue after an attach propagate: D are the queued rows sent
\* to the station by then.
ReclaimEndpointQueue(s, D) ==
  /\ D # {}
  /\ \A d \in D : status[d] = "queued" /\ bsEui[d] = s
  /\ ReturnToQueue(D)
  /\ UNCHANGED <<overdue, reportVars, windowVars, dispatchVars, stationVars>>

\* ReclaimDiscardedQueue, first statement: the new session is not resumed.
ReclaimDiscardedQueue(s) ==
  ReclaimEndpointQueue(s, {d \in Downlinks : status[d] = "queued" /\ bsEui[d] = s})

\* ReclaimDiscardedQueue, second statement: ExpireStationRevocations.
ExpireStationRevocations(s) ==
  LET D == {d \in Downlinks : status[d] = "revoking" /\ bsEui[d] = s}
  IN /\ D # {}
     /\ EndExpired(D)
     /\ UNCHANGED <<overdue, windowVars, dispatchVars, stationVars>>

-----------------------------------------------------------------------------
(* The deletion of a base station.                                         *)

\* Delete: the registration goes first.
DeleteStation(s) ==
  /\ s \in registered
  /\ registered' = registered \ {s}
  /\ deleting' = deleting \cup {s}
  /\ UNCHANGED <<rowVars, overdue, reportVars, windowVars, dispatchVars,
                 answering>>

\* EndDeletedStationDownlinks, once the session is closed.
EndDeletedStationDownlinks(s) ==
  /\ s \in deleting
  /\ deleting' = deleting \ {s}
  /\ EndExpired({d \in Downlinks : Held(d, s)})
  /\ UNCHANGED <<overdue, windowVars, dispatchVars, answering, registered>>

\* Its statement failed or timed out: the rows are left to the sweep.
EndDeletedFails(s) ==
  /\ DBMayFail
  /\ s \in deleting
  /\ deleting' = deleting \ {s}
  /\ UNCHANGED <<rowVars, overdue, reportVars, windowVars, dispatchVars,
                 answering, registered>>

\* The same EUI is registered again.
RegisterStation(s) ==
  /\ s \notin registered
  /\ registered' = registered \cup {s}
  /\ UNCHANGED <<rowVars, overdue, reportVars, windowVars, dispatchVars,
                 answering, deleting>>

-----------------------------------------------------------------------------
(* The expiry sweep.  Each statement moves a batch D of the rows it may     *)
(* move: BatchSize and SKIP LOCKED leave out any others.  SweepOnce issues  *)
(* its statements in a fixed order, again and again, and one that matches   *)
(* nothing changes nothing, so the rows see them in any order.              *)

\* Faulty: a sweep that takes every row no station holds, ended ones included.
OverdueNotHeld == {d \in overdue : status[d] \notin heldStatuses}

\* Rows the sweep ends while no station holds them.
OverdueUnheld == {d \in overdue : status[d] = "pending"}

ExpireOverdueUnheld(D) ==
  /\ D # {} /\ D \subseteq OverdueUnheld
  /\ EndExpired(D)
  /\ UNCHANGED <<overdue, windowVars, dispatchVars, stationVars>>

\* Faulty: a sweep that forgets the rows a removed station was asked to drop.
HeldAtRemovedUnasked ==
  {d \in Downlinks : /\ status[d] \in revocableAtStation
                     /\ bsEui[d] # NoStation
                     /\ bsEui[d] \notin registered}

\* Rows held by a station no registration names any more.
HeldAtRemoved ==
  {d \in Downlinks : /\ status[d] \in heldStatuses
                     /\ bsEui[d] # NoStation
                     /\ bsEui[d] \notin registered}

ExpireHeldAtRemovedStations(D) ==
  /\ D # {} /\ D \subseteq HeldAtRemoved
  /\ EndExpired(D)
  /\ UNCHANGED <<overdue, windowVars, dispatchVars, stationVars>>

\* Rows whose holder is to be asked to drop them.
OverdueHeld == {d \in overdue : status[d] \in revocableStatuses}

RevokeOverdueHeld(D) ==
  /\ D # {} /\ D \subseteq OverdueHeld
  /\ Move(D, "revoking")
  /\ UNCHANGED <<bsEui, attempts, lateSent, stale, overdue, reportVars,
                 windowVars, dispatchVars, stationVars>>

-----------------------------------------------------------------------------
(* The reporter's goroutines, and the crash that loses them.               *)

Tell(d, i) ==
  /\ <<d, i>> \in inFlight
  /\ inFlight' = inFlight \ {<<d, i>>}
  /\ told' = told \cup {<<d, i>>}
  /\ UNCHANGED <<rowVars, overdue, issued, windowVars, dispatchVars,
                 stationVars>>

\* The process dies: every goroutine is gone, the tables stay.
Crash ==
  /\ MayCrash
  /\ inFlight' = {}
  /\ pc'  = [w \in Dispatchers |-> "idle"]
  /\ job' = [w \in Dispatchers |-> NoDownlink]
  /\ via' = [w \in Dispatchers |-> NoStation]
  /\ win' = [w \in Dispatchers |-> NoWindow]
  /\ try' = [w \in Dispatchers |-> 0]
  /\ answering' = {}
  /\ deleting' = {}
  /\ UNCHANGED <<rowVars, overdue, issued, told, windowVars, registered>>

-----------------------------------------------------------------------------
Originator(d) == Enqueue(d) \/ Elapse(d) \/ RevokeInQueue(d)

Dispatch(w) ==
  \/ \E s \in Stations : ChooseStation(w, s)
  \/ \E s \in Stations, m \in Windows : ClaimWindow(w, s, m)
  \/ \E d \in Downlinks : Reserve(w, d)
  \/ ReserveNothing(w)
  \/ SendSucceeds(w) \/ SendAmbiguous(w) \/ SendFails(w)
  \/ Confirm(w) \/ ConfirmFails(w)
  \/ Release(w) \/ ReleaseFails(w)
  \/ GiveWindowBack(w) \/ GiveBackFails(w)

Answer(s, d) ==
  \/ QueueAck(s, d) \/ QueueError(s, d)
  \/ \E r \in Results : DLDataResult(s, d, r)
  \/ SentAfterExpiry(s, d)
  \/ ExpireRevoked(s, d) \/ NotRevoking(s, d) \/ RevokeAtStation(s, d)

Reclaim(s) ==
  \/ \E Keep \in SUBSET Downlinks : ReclaimReservations(s, Keep)
  \/ \E D \in SUBSET Downlinks : ReclaimEndpointQueue(s, D)
  \/ ReclaimDiscardedQueue(s) \/ ExpireStationRevocations(s)

Removal(s) ==
  \/ DeleteStation(s) \/ RegisterStation(s)
  \/ EndDeletedStationDownlinks(s) \/ EndDeletedFails(s)

SweepOnce ==
  \E D \in SUBSET Downlinks :
    ExpireOverdueUnheld(D) \/ ExpireHeldAtRemovedStations(D) \/ RevokeOverdueHeld(D)

Next ==
  \/ \E d \in Downlinks : Originator(d)
  \/ \E w \in Dispatchers : Dispatch(w)
  \/ \E s \in Stations, d \in Downlinks : Answer(s, d)
  \/ \E s \in Stations : Reclaim(s) \/ Removal(s)
  \/ SweepOnce
  \/ \E p \in inFlight : Tell(p[1], p[2])
  \/ Crash

Spec == Init /\ [][Next]_vars

\* A started dispatch runs to its end, a deletion ends its station's downlinks,
\* and the worker's ticker sweeps again and again, the oldest rows first.  No
\* fairness is asked of users, stations, connections or the clock.
FairSpec ==
  /\ Spec
  /\ \A w \in Dispatchers : WF_vars(pc[w] # "idle" /\ Dispatch(w))
  /\ \A s \in Stations : WF_vars(EndDeletedStationDownlinks(s))
  /\ \A d \in Downlinks :
       /\ WF_vars(\E D \in SUBSET Downlinks : d \in D /\ ExpireOverdueUnheld(D))
       /\ WF_vars(\E D \in SUBSET Downlinks : d \in D /\ ExpireHeldAtRemovedStations(D))

-----------------------------------------------------------------------------
(* Properties.                                                             *)

Steps == {"idle", "claimed", "chosen", "reserved", "sent", "unsent", "giveback"}

\* Every variable keeps its type.
TypeOK ==
  /\ status \in [Downlinks -> Statuses]
  /\ bsEui \in [Downlinks -> Stations \cup {NoStation}]
  /\ attempts \in [Downlinks -> Nat]
  /\ lateSent \subseteq Downlinks
  /\ stale \subseteq Downlinks
  /\ overdue \subseteq Downlinks
  /\ issued \in [Downlinks -> Seq(Results)]
  /\ inFlight \subseteq Downlinks \X Nat
  /\ told \subseteq Downlinks \X Nat
  /\ claimed \subseteq Windows
  /\ onWire \in [Windows -> Nat]
  /\ radiated \subseteq (Downlinks \cup {NoDownlink}) \X Nat
  /\ pc \in [Dispatchers -> Steps]
  /\ job \in [Dispatchers -> Downlinks \cup {NoDownlink}]
  /\ via \in [Dispatchers -> Stations \cup {NoStation}]
  /\ win \in [Dispatchers -> Windows \cup {NoWindow}]
  /\ try \in [Dispatchers -> Nat]
  /\ answering \subseteq Stations \X Downlinks
  /\ registered \subseteq Stations
  /\ deleting \subseteq Stations

\* At most one downlink goes out per downlink window (DispatchIfAvailable), a
\* frame whose write was left in doubt included, however many stations received
\* the telegram and whatever dispatch gave its claim back.
WindowFilledOnce == \A m \in Windows : onWire[m] <= 1

\* A row that ends transmitted, failed or expired is reported to its originators
\* exactly once, with the result its status stores, and a row that has not, or
\* that was revoked, never: whichever of the nine statements that end rows came
\* first, the later ones find nothing (finishedOrMissing, ReportStationResult,
\* ReportExpiredAtStation, ReportExpiredInQueue).
ReportedOnce ==
  \A d \in Downlinks \ stale :
    IF ResultsOf(status[d]) = {}
      THEN issued[d] = <<>>
      ELSE Len(issued[d]) = 1 /\ issued[d][1] \in ResultsOf(status[d])

\* What originators were told stays true: no report that reached them names
\* another outcome than the row still has (UpdateDownlinkResult: "A downlink
\* that already finished, expired or revoked included, keeps its outcome").
ToldStaysTrue ==
  \A p \in told : p[1] \notin stale =>
    p[2] = 1 /\ issued[p[1]][1] \in ResultsOf(status[p[1]])

\* Dispatcher w works on row d, by a reservation made at attempt try[w].
Working(w, d) == pc[w] \in {"reserved", "sent", "unsent"} /\ job[w] = d

\* A reservation belongs to one dispatcher: two that work on the same row never
\* both hold its current reservation, so a late one is told apart (dispatchReserved).
ReservationHasOneDispatcher ==
  \A w1, w2 \in Dispatchers, d \in Downlinks :
    /\ w1 # w2
    /\ Working(w1, d) /\ Working(w2, d)
    /\ try[w1] = attempts[d]
    => try[w2] # attempts[d]

\* A row in a final state never leaves it, except when a release that was not
\* the releaser's own strikes it (DLQueueStatus.Terminal).
OutcomeFinalButStale ==
  [][\A d \in Downlinks :
       status[d] \in TerminalStatuses /\ status'[d] # status[d] => d \in stale']_vars

\* A downlink whose lifetime elapsed is not dispatched again: no step reserves
\* it, and one its station was asked to drop never returns to the queue
\* (downlinkNotExpired; sqlReturningReleased: "a reconnect never makes an
\* overdue downlink dispatchable again").
OverdueNeverRedispatched ==
  [][\A d \in overdue :
       /\ status'[d] = "reserved" => status[d] = "reserved"
       /\ status[d] = "revoking" /\ status'[d] \notin {"revoking"} \cup TerminalStatuses
            => d \in stale']_vars

\* No reservation is stranded: while a row is reserved, either the dispatcher
\* that reserved it is still at work or its frame may have left for the station.
\* A frame that certainly did not leave puts the row back in the queue, "released
\* back to pending" (dispatchReserved) - as long as the process lives, its
\* statements succeed and the release names the row by its id.
ReservationAlive ==
  \A d \in Downlinks : status[d] = "reserved" =>
    \/ <<d, attempts[d]>> \in radiated
    \/ \E w \in Dispatchers : Working(w, d) /\ try[w] = attempts[d]

\* An originator that was told an outcome was told the last word: the row of a
\* reported downlink stays in a final state, "that no later BSSCI or SCACI message
\* moves it out of" (DLQueueStatus.Terminal), and "none is returned to the queue
\* where an endpoint could receive it twice" (DownlinkStationRemoval).
EndedStaysEnded ==
  \A d \in Downlinks : issued[d] # <<>> => status[d] \in TerminalStatuses

\* A downlink that is over, or that a registered station may still transmit.
Settled(d) ==
  \/ status[d] \in TerminalStatuses
  \/ /\ status[d] \in heldStatuses
     /\ bsEui[d] \in registered
     /\ <<d, attempts[d]>> \in radiated

\* Every overdue downlink is eventually over, unless a registered station may
\* hold it: no failed send, deletion, re-registration or late reservation leaves
\* it waiting for good (SweepOnce, EndDeletedStationDownlinks).
OverdueSettles == \A d \in Downlinks : d \in overdue ~> Settled(d)

-----------------------------------------------------------------------------
(* What the originators of downlinks see of the queue.                     *)

phase == [d \in Downlinks |-> CASE status[d] = "absent" -> "none"
                                [] status[d] \in TerminalStatuses -> status[d]
                                [] OTHER -> "open"]

Promise == INSTANCE DownlinkPromise WITH phase <- phase, struck <- stale

\* The queue keeps the promise: whatever dispatchers, stations, sweeps, deletions
\* and crashes do, originators see each downlink accepted, ended once and
\* reported once, and only an unguarded release (UpdateDownlinkStatus) strikes one.
KeepsPromise == Promise!Spec

-----------------------------------------------------------------------------
(* The strengthening that makes the invariants above inductive.            *)

\* A dispatcher that claimed a window and has not sent for it.
Claiming(w) ==
  pc[w] \in {"claimed", "reserved", "unsent", "giveback"} /\ win[w] \in Windows

WindowInv ==
  /\ WindowFilledOnce
  /\ \A w \in Dispatchers : Claiming(w) => win[w] \in claimed /\ onWire[win[w]] = 0
  /\ \A w1, w2 \in Dispatchers :
       Claiming(w1) /\ Claiming(w2) /\ win[w1] = win[w2] => w1 = w2
  /\ \A m \in Windows \ claimed : onWire[m] = 0

\* DispatchQueue never has a window.
ChosenInv == \A w \in Dispatchers : pc[w] = "chosen" => win[w] = NoWindow

ReportInv ==
  /\ ReportedOnce
  /\ \A p \in inFlight \cup told : p[2] \in 1..Len(issued[p[1]])

DispatchInv ==
  /\ ReservationHasOneDispatcher
  /\ \A w \in Dispatchers, d \in Downlinks :
       Working(w, d) =>
         /\ try[w] <= attempts[d]
         /\ try[w] = attempts[d] => status[d] \notin {"absent", "pending"}

\* The inductive invariant: what each window, each row's reports and each
\* dispatcher's reservation keep to, whoever moves next.
IInv == TypeOK /\ WindowInv /\ ChosenInv /\ ReportInv /\ DispatchInv
=============================================================================
