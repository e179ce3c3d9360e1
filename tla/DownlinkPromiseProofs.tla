----------------------- MODULE DownlinkPromiseProofs -----------------------
(***************************************************************************)
(* The downlink queue keeps its promise: DownlinkQueue implements          *)
(* DownlinkPromise, every step of it being a step of the promise or none.  *)
(***************************************************************************)
EXTENDS DownlinkQueueProofs

\* A row that is neither absent nor ended.
Open(d) == status[d] \notin {"absent"} \cup TerminalStatuses

\* What the promise sees of a row.
LEMMA PhaseOfRow ==
  /\ \A d \in Downlinks : Open(d) => phase[d] = "open"
  /\ \A d \in Downlinks : status[d] = "absent" => phase[d] = "none"
  /\ \A d \in Downlinks : status[d] \in TerminalStatuses => phase[d] = status[d]
BY DEF phase, Open, TerminalStatuses

\* The same after a step.
LEMMA PhaseOfRowNext ==
  /\ phase' \in [Downlinks -> {phase'[d] : d \in Downlinks}]
  /\ phase \in [Downlinks -> {phase[d] : d \in Downlinks}]
  /\ \A d \in Downlinks :
       status'[d] \notin {"absent"} \cup TerminalStatuses => phase'[d] = "open"
  /\ \A d \in Downlinks : status'[d] \in TerminalStatuses => phase'[d] = status'[d]
  /\ \A d \in Downlinks : status'[d] = status[d] => phase'[d] = phase[d]
BY DEF phase, TerminalStatuses

\* Nothing the originators see has changed.
Unseen == UNCHANGED <<phase, issued, inFlight, told, stale>>

\* Open rows that move and stay open are out of sight.
LEMMA MoveUnseen ==
  ASSUME NEW D, NEW to, Move(D, to), to \notin {"absent"} \cup TerminalStatuses,
         \A d \in D \cap Downlinks : Open(d), UNCHANGED <<reportVars, stale>>
  PROVE  Unseen
<1>1. \A d \in Downlinks : phase'[d] = phase[d]
  <2> SUFFICES ASSUME NEW d \in Downlinks PROVE phase'[d] = phase[d]
    OBVIOUS
  <2>1. CASE d \in D
    BY <2>1, PhaseOfRow, PhaseOfRowNext DEF Move
  <2>2. CASE d \notin D
    BY <2>2, PhaseOfRowNext DEF Move
  <2> QED BY <2>1, <2>2
<1>2. phase' = phase
  BY <1>1 DEF phase
<1> QED BY <1>2 DEF Unseen, reportVars

\* Open rows that end, each reported as its new status demands, finish.
LEMMA EndFinishes ==
  ASSUME NEW D \in SUBSET Downlinks, NEW to \in TerminalStatuses, Move(D, to),
         \A d \in D : Open(d), UNCHANGED stale,
         \/ /\ to = "revoked" /\ UNCHANGED reportVars
         \/ \E r \in Results : to = resultQueueStatuses[r] /\ Report(D, r),
         TypeOK
  PROVE  Promise!Next
<1>1. \A d \in D : phase[d] = "open"
  BY PhaseOfRow
<1>2. Promise!Become(D, to)
  <2>1. \A d \in Downlinks : phase'[d] = IF d \in D THEN to ELSE phase[d]
    BY PhaseOfRowNext DEF Move
  <2>2. phase' = [d \in Downlinks |-> phase'[d]]
    BY DEF phase
  <2> QED BY <2>1, <2>2 DEF Promise!Become
<1>3. to \in Promise!Outcomes
  BY DEF TerminalStatuses, Promise!Outcomes
<1>4. CASE to = "revoked" /\ UNCHANGED reportVars
  <2>1. Promise!ReportOf(to) = <<>>
    BY <1>4 DEF Promise!ReportOf
  <2>2. issued' = [d \in Downlinks |-> IF d \in D THEN issued[d] \o Promise!ReportOf(to)
                                                  ELSE issued[d]]
    <3>1. \A d \in Downlinks : issued[d] \o <<>> = issued[d]
      BY DEF TypeOK
    <3>2. issued = [d \in Downlinks |-> issued[d]]
      BY DEF TypeOK
    <3> QED BY <1>4, <2>1, <3>1, <3>2 DEF reportVars
  <2>3. Promise!Finish(D, to)
    BY <1>1, <1>2, <1>4, <2>1, <2>2 DEF Promise!Finish, reportVars
  <2> QED BY <1>3, <2>3 DEF Promise!Next
<1>5. ASSUME NEW r \in Results, to = resultQueueStatuses[r], Report(D, r) PROVE Promise!Next
  <2>1. Promise!ReportOf(to) = <<r>>
    BY <1>5 DEF Promise!ReportOf, Results, resultQueueStatuses
  <2>2. <<r>> # <<>>
    OBVIOUS
  <2>3. issued' = [d \in Downlinks |-> IF d \in D THEN issued[d] \o Promise!ReportOf(to)
                                                  ELSE issued[d]]
    <3>1. \A d \in Downlinks : issued[d] \o <<r>> = Append(issued[d], r)
      BY <1>5 DEF TypeOK
    <3> QED BY <1>5, <2>1, <3>1 DEF Report
  <2>4. inFlight' = inFlight \cup
          {<<d, Len(issued[d]) + 1>> : d \in {e \in D : Promise!ReportOf(to) # <<>>}}
    <3>1. {e \in D : Promise!ReportOf(to) # <<>>} = D
      BY <2>1, <2>2
    <3> QED BY <1>5, <3>1 DEF Report
  <2>5. Promise!Finish(D, to)
    BY <1>1, <1>2, <1>5, <2>3, <2>4 DEF Promise!Finish, Report
  <2> QED BY <1>3, <2>5 DEF Promise!Next
<1> QED BY <1>4, <1>5

\* Open rows that end expired, together.
LEMMA ExpiryFinishes ==
  ASSUME TypeOK, NEW D \in SUBSET Downlinks, EndExpired(D), \A d \in D : Open(d)
  PROVE  Promise!Next
<1>1. "expired" \in Results /\ resultQueueStatuses["expired"] = "expired"
  BY DEF Results, resultQueueStatuses
<1>2. "expired" \in TerminalStatuses BY DEF TerminalStatuses
<1> QED BY <1>1, <1>2, EndFinishes DEF EndExpired

\* A reserved, queued or revoking row is open, and so is a pending one.
LEMMA HeldIsOpen ==
  \A d \in Downlinks : status[d] \in heldStatuses \cup {"pending"} => Open(d)
BY DEF Open, heldStatuses, TerminalStatuses

\* A dispatcher's step is out of sight, unless its release strikes rows that
\* were not its own.
LEMMA DispatchKeeps ==
  ASSUME TypeOK, NEW w \in Dispatchers, Dispatch(w)
  PROVE  Promise!Next \/ Unseen
<1> USE DEF rowVars
<1>0. /\ {"reserved", "queued", "pending"} \cap ({"absent"} \cup TerminalStatuses) = {}
      /\ {"reserved", "queued"} \subseteq heldStatuses
  BY DEF TerminalStatuses, heldStatuses
<1>1. ASSUME UNCHANGED <<status, reportVars, stale>> PROVE Unseen
  BY <1>1 DEF Unseen, phase, reportVars
<1>2. ASSUME NEW d \in Downlinks, Reserve(w, d) PROVE Unseen
  BY <1>0, <1>2, MoveUnseen, HeldIsOpen DEF Reserve, Reservable
<1>3. CASE Confirm(w)
  BY <1>0, <1>3, MoveUnseen, HeldIsOpen DEF Confirm, Confirmable
<1>4. CASE Release(w)
  <2> DEFINE T == ReleaseTarget(job[w])
             S == {d \in T : ~Owns(w, d)}
  <2>1. T \in SUBSET Downlinks /\ S \in SUBSET Downlinks
    BY DEF ReleaseTarget
  <2>2. /\ Move(T, "pending") /\ stale' = stale \cup S /\ UNCHANGED reportVars
    BY <1>4 DEF Release
  <2> HIDE DEF T
  <2>3. \A d \in T \ S : Open(d)
    BY <1>0, <2>1, HeldIsOpen DEF Owns
  <2>4. \A d \in Downlinks : phase'[d] = IF d \in S THEN "open" ELSE phase[d]
    <3> SUFFICES ASSUME NEW d \in Downlinks
                 PROVE  phase'[d] = IF d \in S THEN "open" ELSE phase[d]
      OBVIOUS
    <3>1. CASE d \notin T
      BY <2>2, <3>1, PhaseOfRowNext DEF Move
    <3>2. CASE d \in T
      <4>1. phase'[d] = "open"
        BY <1>0, <2>2, <3>2, PhaseOfRowNext DEF Move
      <4> QED BY <2>3, <3>2, <4>1, PhaseOfRow
    <3> QED BY <3>1, <3>2
  <2>5. phase' = [d \in Downlinks |-> phase'[d]]
    BY DEF phase
  <2>6. Promise!Strike(S)
    BY <2>2, <2>4, <2>5 DEF Promise!Strike, Promise!Become, reportVars
  <2> QED BY <2>1, <2>6 DEF Promise!Next
<1> QED
  BY <1>1, <1>2, <1>3, <1>4 DEF Dispatch, ChooseStation, ClaimWindow, ReserveNothing,
     SendSucceeds, SendAmbiguous, SendFails, ConfirmFails, ReleaseFails, GiveWindowBack,
     GiveBackFails

\* Every step of the queue is a step of the promise, or out of sight.
LEMMA NextKeeps == TypeOK /\ [Next]_vars => [Promise!Next]_(Promise!promiseVars)
<1> SUFFICES ASSUME TypeOK, [Next]_vars PROVE Promise!Next \/ Unseen
  BY DEF Unseen, Promise!promiseVars
<1> USE DEF rowVars
<1>0. /\ {"queued", "pending", "revoking", "reserved"} \cap ({"absent"} \cup TerminalStatuses) = {}
      /\ heldStatuses = {"reserved", "queued", "revoking"}
      /\ revocableAtStation = {"reserved", "queued"}
      /\ revocableStatuses = {"queued"}
      /\ {"expired", "failed", "revoked"} \subseteq TerminalStatuses
      /\ "invalid" \in Results /\ resultQueueStatuses["invalid"] = "failed"
      /\ \A r \in Results : resultQueueStatuses[r] \in TerminalStatuses
  BY DEF TerminalStatuses, heldStatuses, revocableAtStation, revocableStatuses, Results,
     resultQueueStatuses
<1>1. ASSUME UNCHANGED <<status, reportVars, stale>> PROVE Unseen
  BY <1>1 DEF Unseen, phase, reportVars
<1>2. ASSUME NEW d \in Downlinks, Originator(d) PROVE Promise!Next \/ Unseen
  <2>1. CASE Enqueue(d)
    <3>1. phase[d] = "none"
      BY <2>1, PhaseOfRow DEF Enqueue
    <3>2. \A e \in Downlinks : phase'[e] = IF e \in {d} THEN "open" ELSE phase[e]
      BY <1>0, <2>1, PhaseOfRowNext DEF Enqueue, Move
    <3>3. phase' = [e \in Downlinks |-> phase'[e]]
      BY DEF phase
    <3>4. Promise!Accept(d)
      BY <2>1, <3>1, <3>2, <3>3 DEF Enqueue, Promise!Accept, Promise!Become, reportVars
    <3> QED BY <3>4 DEF Promise!Next
  <2>2. CASE Elapse(d)
    BY <1>1, <2>2 DEF Elapse
  <2>3. CASE RevokeInQueue(d)
    BY <1>0, <2>3, HeldIsOpen, EndFinishes DEF RevokeInQueue
  <2> QED BY <1>2, <2>1, <2>2, <2>3 DEF Originator
<1>3. ASSUME NEW s \in Stations, NEW d \in Downlinks, Answer(s, d) PROVE Promise!Next \/ Unseen
  <2>1. CASE QueueAck(s, d)
    BY <1>0, <2>1, MoveUnseen, HeldIsOpen DEF QueueAck, Confirmable
  <2>2. CASE QueueError(s, d)
    BY <1>0, <2>2, EndFinishes, HeldIsOpen DEF QueueError, Held
  <2>3. ASSUME NEW r \in Results, DLDataResult(s, d, r) PROVE Promise!Next
    BY <1>0, <2>3, EndFinishes, HeldIsOpen DEF DLDataResult, Held
  <2>4. CASE SentAfterExpiry(s, d) \/ NotRevoking(s, d)
    BY <1>1, <2>4 DEF SentAfterExpiry, NotRevoking
  <2>5. CASE ExpireRevoked(s, d)
    BY <1>0, <2>5, ExpiryFinishes, HeldIsOpen DEF ExpireRevoked
  <2>6. CASE RevokeAtStation(s, d)
    <3>1. {e \in {d} : RevocableAt(s, e)} \in SUBSET Downlinks
      OBVIOUS
    <3>2. \A e \in {e \in {d} : RevocableAt(s, e)} : Open(e)
      BY <1>0, HeldIsOpen DEF RevocableAt
    <3> QED BY <1>0, <2>6, <3>1, <3>2, EndFinishes DEF RevokeAtStation
  <2> QED BY <1>3, <2>1, <2>2, <2>3, <2>4, <2>5, <2>6 DEF Answer
<1>4. ASSUME NEW s \in Stations, Reclaim(s) PROVE Promise!Next \/ Unseen
  <2>1. ASSUME NEW Keep \in SUBSET Downlinks, ReclaimReservations(s, Keep) PROVE Unseen
    BY <1>0, <2>1, MoveUnseen, HeldIsOpen DEF ReclaimReservations, ReturnToQueue
  <2>2. ASSUME NEW D \in SUBSET Downlinks, ReclaimEndpointQueue(s, D) PROVE Unseen
    BY <1>0, <2>2, MoveUnseen, HeldIsOpen DEF ReclaimEndpointQueue, ReturnToQueue
  <2>3. CASE ReclaimDiscardedQueue(s)
    BY <2>2, <2>3 DEF ReclaimDiscardedQueue
  <2>4. CASE ExpireStationRevocations(s)
    BY <1>0, <2>4, ExpiryFinishes, HeldIsOpen DEF ExpireStationRevocations
  <2> QED BY <1>4, <2>1, <2>2, <2>3, <2>4 DEF Reclaim
<1>5. ASSUME NEW s \in Stations, Removal(s) PROVE Promise!Next \/ Unseen
  <2>1. CASE DeleteStation(s) \/ RegisterStation(s) \/ EndDeletedFails(s)
    BY <1>1, <2>1 DEF DeleteStation, RegisterStation, EndDeletedFails
  <2>2. CASE EndDeletedStationDownlinks(s)
    BY <2>2, ExpiryFinishes, HeldIsOpen DEF EndDeletedStationDownlinks, Held
  <2> QED BY <1>5, <2>1, <2>2 DEF Removal
<1>6. CASE SweepOnce
  <2>1. ASSUME NEW D \in SUBSET Downlinks, ExpireOverdueUnheld(D) PROVE Promise!Next
    BY <2>1, ExpiryFinishes, HeldIsOpen DEF ExpireOverdueUnheld, OverdueUnheld
  <2>2. ASSUME NEW D \in SUBSET Downlinks, ExpireHeldAtRemovedStations(D) PROVE Promise!Next
    BY <2>2, ExpiryFinishes, HeldIsOpen DEF ExpireHeldAtRemovedStations, HeldAtRemoved
  <2>3. ASSUME NEW D \in SUBSET Downlinks, RevokeOverdueHeld(D) PROVE Unseen
    BY <1>0, <2>3, MoveUnseen, HeldIsOpen DEF RevokeOverdueHeld, OverdueHeld
  <2> QED BY <1>6, <2>1, <2>2, <2>3 DEF SweepOnce
<1>7. ASSUME NEW p \in inFlight, Tell(p[1], p[2]) PROVE Promise!Next
  <2>1. p = <<p[1], p[2]>>
    BY DEF TypeOK
  <2>2. phase' = phase
    BY <1>7 DEF Tell, phase
  <2>3. Promise!Hear(p)
    BY <1>7, <2>1, <2>2 DEF Tell, Promise!Hear
  <2> QED BY <2>3 DEF Promise!Next
<1>8. CASE Crash
  <2>1. phase' = phase
    BY <1>8 DEF Crash, phase
  <2>2. Promise!LoseReports
    BY <1>8, <2>1 DEF Crash, Promise!LoseReports
  <2> QED BY <2>2 DEF Promise!Next
<1>9. CASE UNCHANGED vars
  BY <1>1, <1>9 DEF vars
<1> QED BY <1>2, <1>3, <1>4, <1>5, <1>6, <1>7, <1>8, <1>9, DispatchKeeps DEF Next

\* The queue implements the promise it makes to the originators of downlinks,
\* for any number of rows, stations, windows and dispatchers.
THEOREM QueueKeepsPromise == Spec => KeepsPromise
<1>1. Init => Promise!Init
  <2> SUFFICES ASSUME Init PROVE Promise!Init
    OBVIOUS
  <2>1. \A d \in Downlinks : phase[d] = "none"
    BY PhaseOfRow DEF Init
  <2>2. phase = [d \in Downlinks |-> phase[d]]
    BY DEF phase
  <2>3. phase = [d \in Downlinks |-> "none"]
    BY <2>1, <2>2
  <2> QED BY <2>3 DEF Init, Promise!Init
<1>2. TypeOK /\ [Next]_vars => [Promise!Next]_(Promise!promiseVars)
  BY NextKeeps
<1> QED BY <1>1, <1>2, TypeCorrect, PTL DEF Spec, KeepsPromise, Promise!Spec
=============================================================================
