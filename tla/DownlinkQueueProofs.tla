------------------------ MODULE DownlinkQueueProofs ------------------------
(***************************************************************************)
(* What DownlinkQueue promises, for any number of rows, stations, windows  *)
(* and dispatchers, any row and queue ids and any bound on the attempts.   *)
(***************************************************************************)
EXTENDS DownlinkQueue, TLAPS

-----------------------------------------------------------------------------
(* The helpers every statement is built from.                              *)

\* Moving rows to a status keeps the column typed (every UPDATE of status).
LEMMA MoveType ==
  ASSUME TypeOK, NEW D, NEW to \in Statuses, Move(D, to)
  PROVE  status' \in [Downlinks -> Statuses]
BY DEF TypeOK, Move

\* Handing results to the reporter keeps its bookkeeping typed (deliver).
LEMMA ReportType ==
  ASSUME TypeOK, NEW D \in SUBSET Downlinks, NEW r \in Results, Report(D, r)
  PROVE  /\ issued' \in [Downlinks -> Seq(Results)]
         /\ inFlight' \subseteq Downlinks \X Nat
         /\ told' \subseteq Downlinks \X Nat
<1>1. \A d \in Downlinks : issued[d] \in Seq(Results) /\ Len(issued[d]) + 1 \in Nat
  BY DEF TypeOK
<1>2. issued' \in [Downlinks -> Seq(Results)]
  BY <1>1 DEF Report
<1>3. inFlight' \subseteq Downlinks \X Nat
  BY <1>1 DEF Report, TypeOK
<1> QED BY <1>2, <1>3 DEF Report, TypeOK

\* A release keeps the row's columns typed (ReleaseStationReservations,
\* ReleaseStationQueue, ReleaseEndpointAtStation).
LEMMA ReturnToQueueType ==
  ASSUME TypeOK, NEW D, ReturnToQueue(D)
  PROVE  /\ status' \in [Downlinks -> Statuses]
         /\ bsEui' \in [Downlinks -> Stations \cup {NoStation}]
         /\ attempts' \in [Downlinks -> Nat]
<1>1. status' \in [Downlinks -> Statuses]
  <2>1. "pending" \in Statuses /\ Move(D, "pending") BY DEF Statuses, ReturnToQueue
  <2> QED BY <2>1, MoveType
<1>2. bsEui' \in [Downlinks -> Stations \cup {NoStation}]
  BY DEF TypeOK, ReturnToQueue
<1>3. attempts' \in [Downlinks -> Nat]
  BY DEF TypeOK, ReturnToQueue
<1> QED BY <1>1, <1>2, <1>3

\* The dispatcher's locals stay typed when it moves on or returns.
LEMMA LocalsType ==
  ASSUME TypeOK, NEW w \in Dispatchers, NEW p \in Steps,
         Step(w, p) \/ Return(w)
  PROVE  /\ pc' \in [Dispatchers -> Steps]
         /\ job' \in [Dispatchers -> Downlinks \cup {NoDownlink}]
         /\ via' \in [Dispatchers -> Stations \cup {NoStation}]
         /\ win' \in [Dispatchers -> Windows \cup {NoWindow}]
         /\ try' \in [Dispatchers -> Nat]
<1>1. CASE Step(w, p)
  BY <1>1 DEF TypeOK, Step
<1>2. CASE Return(w)
  <2>1. "idle" \in Steps BY DEF Steps
  <2>2. 0 \in Nat OBVIOUS
  <2> QED BY <1>2, <2>1, <2>2 DEF TypeOK, Return
<1> QED BY <1>1, <1>2

-----------------------------------------------------------------------------
(* Type correctness, actor by actor.                                       *)

\* Rows that end expired stay typed (the sweep, a revoke answer, a removal).
LEMMA EndExpiredType ==
  ASSUME TypeOK, NEW D \in SUBSET Downlinks, EndExpired(D)
  PROVE  /\ status' \in [Downlinks -> Statuses]
         /\ issued' \in [Downlinks -> Seq(Results)]
         /\ inFlight' \subseteq Downlinks \X Nat
         /\ told' \subseteq Downlinks \X Nat
<1>1. "expired" \in Statuses /\ "expired" \in Results
  BY DEF Statuses, TerminalStatuses, Results
<1> QED BY <1>1, MoveType, ReportType DEF EndExpired

\* Enqueueing, ageing and revoking in the queue keep the types.
LEMMA OriginatorType ==
  ASSUME TypeOK, NEW d \in Downlinks, Originator(d)
  PROVE  TypeOK'
<1> USE DEF rowVars, reportVars, windowVars, dispatchVars, stationVars
<1>0. "pending" \in Statuses /\ "revoked" \in Statuses
  BY DEF Statuses, TerminalStatuses
<1>1. CASE Enqueue(d)
  BY <1>0, <1>1, MoveType DEF Enqueue, TypeOK
<1>2. CASE Elapse(d)
  BY <1>2 DEF Elapse, TypeOK
<1>3. CASE RevokeInQueue(d)
  BY <1>0, <1>3, MoveType DEF RevokeInQueue, TypeOK
<1> QED BY <1>1, <1>2, <1>3 DEF Originator

\* The ghosts of the frames that may be on the wire keep their types.
LEMMA RadiateType ==
  ASSUME TypeOK, NEW w \in Dispatchers, Radiate(w)
  PROVE  /\ onWire' \in [Windows -> Nat]
         /\ radiated' \subseteq (Downlinks \cup {NoDownlink}) \X Nat
<1>1. onWire' \in [Windows -> Nat]
  BY DEF TypeOK, Radiate
<1>2. job[w] \in Downlinks \cup {NoDownlink} /\ try[w] \in Nat
  BY DEF TypeOK
<1> QED BY <1>1, <1>2 DEF TypeOK, Radiate

\* A dispatcher that sent nothing keeps its locals typed.
LEMMA UnfilledType ==
  ASSUME TypeOK, NEW w \in Dispatchers, Unfilled(w)
  PROVE  /\ pc' \in [Dispatchers -> Steps]
         /\ job' \in [Dispatchers -> Downlinks \cup {NoDownlink}]
         /\ via' \in [Dispatchers -> Stations \cup {NoStation}]
         /\ win' \in [Dispatchers -> Windows \cup {NoWindow}]
         /\ try' \in [Dispatchers -> Nat]
<1>1. "giveback" \in Steps BY DEF Steps
<1> QED BY <1>1, LocalsType DEF Unfilled

\* Every step of a dispatcher keeps the types.
LEMMA DispatchType ==
  ASSUME TypeOK, NEW w \in Dispatchers, Dispatch(w)
  PROVE  TypeOK'
<1> USE DEF rowVars, reportVars, windowVars, dispatchVars, stationVars
<1>0. /\ {"claimed", "chosen", "reserved", "sent", "unsent", "idle"} \subseteq Steps
      /\ {"reserved", "queued", "pending"} \subseteq Statuses
  BY DEF Steps, Statuses, heldStatuses
<1>1. ASSUME NEW s \in Stations, ChooseStation(w, s) PROVE TypeOK'
  BY <1>0, <1>1 DEF ChooseStation, TypeOK
<1>2. ASSUME NEW s \in Stations, NEW m \in Windows, ClaimWindow(w, s, m) PROVE TypeOK'
  BY <1>0, <1>2 DEF ClaimWindow, TypeOK
<1>3. ASSUME NEW d \in Downlinks, Reserve(w, d) PROVE TypeOK'
  <2>1. status' \in [Downlinks -> Statuses]
    BY <1>0, <1>3, MoveType DEF Reserve
  <2>2. bsEui' \in [Downlinks -> Stations \cup {NoStation}]
    BY <1>3 DEF Reserve, TypeOK
  <2>3. /\ pc' \in [Dispatchers -> Steps]
        /\ job' \in [Dispatchers -> Downlinks \cup {NoDownlink}]
        /\ try' \in [Dispatchers -> Nat]
    BY <1>0, <1>3 DEF Reserve, TypeOK
  <2> QED BY <1>3, <2>1, <2>2, <2>3 DEF Reserve, TypeOK
<1>4. CASE ReserveNothing(w)
  BY <1>4, UnfilledType DEF ReserveNothing, TypeOK
<1>5. CASE SendSucceeds(w)
  BY <1>0, <1>5, LocalsType, RadiateType DEF SendSucceeds, TypeOK
<1>6. CASE SendAmbiguous(w)
  BY <1>0, <1>6, LocalsType, RadiateType DEF SendAmbiguous, TypeOK
<1>7. CASE SendFails(w)
  BY <1>0, <1>7, LocalsType DEF SendFails, TypeOK
<1>8. CASE Confirm(w)
  <2>1. status' \in [Downlinks -> Statuses]
    BY <1>0, <1>8, MoveType DEF Confirm
  <2> QED BY <1>0, <1>8, <2>1, LocalsType DEF Confirm, TypeOK
<1>9. CASE ConfirmFails(w)
  BY <1>0, <1>9, LocalsType DEF ConfirmFails, TypeOK
<1>10. CASE Release(w)
  <2> DEFINE D == ReleaseTarget(job[w])
  <2>1. status' \in [Downlinks -> Statuses]
    BY <1>0, <1>10, MoveType DEF Release
  <2>2. attempts' \in [Downlinks -> Nat]
    BY <1>10 DEF Release, TypeOK
  <2>3. stale' \subseteq Downlinks
    BY <1>10 DEF Release, TypeOK, ReleaseTarget
  <2> QED BY <1>10, <2>1, <2>2, <2>3, UnfilledType DEF Release, TypeOK
<1>11. CASE ReleaseFails(w)
  BY <1>11, UnfilledType DEF ReleaseFails, TypeOK
<1>12. CASE GiveWindowBack(w)
  BY <1>0, <1>12, LocalsType DEF GiveWindowBack, TypeOK
<1>13. CASE GiveBackFails(w)
  BY <1>0, <1>13, LocalsType DEF GiveBackFails, TypeOK
<1> QED
  BY <1>1, <1>2, <1>3, <1>4, <1>5, <1>6, <1>7, <1>8, <1>9, <1>10, <1>11,
     <1>12, <1>13 DEF Dispatch

\* Every answer of a station keeps the types.
LEMMA AnswerType ==
  ASSUME TypeOK, NEW s \in Stations, NEW d \in Downlinks, Answer(s, d)
  PROVE  TypeOK'
<1> USE DEF rowVars, reportVars, windowVars, dispatchVars, stationVars
<1>0. /\ {"queued", "failed", "revoked"} \subseteq Statuses
      /\ "invalid" \in Results
      /\ \A r \in Results : resultQueueStatuses[r] \in Statuses
      /\ {d} \in SUBSET Downlinks
  BY DEF Statuses, heldStatuses, TerminalStatuses, Results, resultQueueStatuses
<1>1. CASE QueueAck(s, d)
  BY <1>0, <1>1, MoveType DEF QueueAck, TypeOK
<1>2. CASE QueueError(s, d)
  BY <1>0, <1>2, MoveType, ReportType DEF QueueError, TypeOK
<1>3. ASSUME NEW r \in Results, DLDataResult(s, d, r) PROVE TypeOK'
  BY <1>0, <1>3, MoveType, ReportType DEF DLDataResult, TypeOK
<1>4. CASE SentAfterExpiry(s, d)
  BY <1>4 DEF SentAfterExpiry, TypeOK
<1>5. CASE ExpireRevoked(s, d)
  BY <1>0, <1>5, EndExpiredType DEF ExpireRevoked, EndExpired, TypeOK
<1>6. CASE NotRevoking(s, d)
  BY <1>6 DEF NotRevoking, TypeOK
<1>7. CASE RevokeAtStation(s, d)
  BY <1>0, <1>7, MoveType DEF RevokeAtStation, TypeOK
<1> QED BY <1>1, <1>2, <1>3, <1>4, <1>5, <1>6, <1>7 DEF Answer

\* Returning rows to the queue and settling revocations keep the types.
LEMMA ReclaimType ==
  ASSUME TypeOK, NEW s \in Stations, Reclaim(s)
  PROVE  TypeOK'
<1> USE DEF rowVars, reportVars, windowVars, dispatchVars, stationVars
<1>1. ASSUME NEW Keep \in SUBSET Downlinks, ReclaimReservations(s, Keep) PROVE TypeOK'
  BY <1>1, ReturnToQueueType DEF ReclaimReservations, ReturnToQueue, TypeOK
<1>2. ASSUME NEW D \in SUBSET Downlinks, ReclaimEndpointQueue(s, D) PROVE TypeOK'
  BY <1>2, ReturnToQueueType DEF ReclaimEndpointQueue, ReturnToQueue, TypeOK
<1>3. CASE ReclaimDiscardedQueue(s)
  BY <1>2, <1>3 DEF ReclaimDiscardedQueue
<1>4. CASE ExpireStationRevocations(s)
  BY <1>4, EndExpiredType DEF ExpireStationRevocations, EndExpired, TypeOK
<1> QED BY <1>1, <1>2, <1>3, <1>4 DEF Reclaim

\* Deleting and registering stations keeps the types.
LEMMA RemovalType ==
  ASSUME TypeOK, NEW s \in Stations, Removal(s)
  PROVE  TypeOK'
<1> USE DEF rowVars, reportVars, windowVars, dispatchVars, stationVars
<1>1. CASE DeleteStation(s)
  BY <1>1 DEF DeleteStation, TypeOK
<1>2. CASE RegisterStation(s)
  BY <1>2 DEF RegisterStation, TypeOK
<1>3. CASE EndDeletedStationDownlinks(s)
  BY <1>3, EndExpiredType DEF EndDeletedStationDownlinks, EndExpired, TypeOK
<1>4. CASE EndDeletedFails(s)
  BY <1>4 DEF EndDeletedFails, TypeOK
<1> QED BY <1>1, <1>2, <1>3, <1>4 DEF Removal

\* Every statement of the sweep keeps the types.
LEMMA SweepType ==
  ASSUME TypeOK, NEW D \in SUBSET Downlinks,
         ExpireOverdueUnheld(D) \/ ExpireHeldAtRemovedStations(D) \/ RevokeOverdueHeld(D)
  PROVE  TypeOK'
<1> USE DEF rowVars, reportVars, windowVars, dispatchVars, stationVars
<1>1. CASE ExpireOverdueUnheld(D)
  BY <1>1, EndExpiredType DEF ExpireOverdueUnheld, EndExpired, TypeOK
<1>2. CASE ExpireHeldAtRemovedStations(D)
  BY <1>2, EndExpiredType DEF ExpireHeldAtRemovedStations, EndExpired, TypeOK
<1>3. CASE RevokeOverdueHeld(D)
  <2>1. "revoking" \in Statuses BY DEF Statuses, heldStatuses
  <2> QED BY <1>3, <2>1, MoveType DEF RevokeOverdueHeld, TypeOK
<1> QED BY <1>1, <1>2, <1>3

\* The initial state is typed.
LEMMA InitType == Init => TypeOK
BY IdAssumption DEF Init, TypeOK, Statuses, Steps

\* Every step keeps the types.
LEMMA NextType == TypeOK /\ [Next]_vars => TypeOK'
<1> SUFFICES ASSUME TypeOK, [Next]_vars PROVE TypeOK'
  OBVIOUS
<1> USE DEF rowVars, reportVars, windowVars, dispatchVars, stationVars
<1>1. CASE UNCHANGED vars
  BY <1>1 DEF vars, TypeOK
<1>2. ASSUME NEW p \in inFlight, Tell(p[1], p[2]) PROVE TypeOK'
  BY <1>2 DEF Tell, TypeOK
<1>3. CASE Crash
  <2>1. "idle" \in Steps BY DEF Steps
  <2> QED BY <1>3, <2>1 DEF Crash, TypeOK
<1>4. ASSUME NEW D \in SUBSET Downlinks,
             ExpireOverdueUnheld(D) \/ ExpireHeldAtRemovedStations(D) \/ RevokeOverdueHeld(D)
      PROVE TypeOK'
  BY <1>4, SweepType
<1> QED
  BY <1>1, <1>2, <1>3, <1>4, OriginatorType, DispatchType, AnswerType,
     ReclaimType, RemovalType DEF Next, SweepOnce

\* Every variable keeps its type in every behaviour.
THEOREM TypeCorrect == Spec => []TypeOK
BY InitType, NextType, PTL DEF Spec

-----------------------------------------------------------------------------
(* One downlink per window.  Only dispatchers and crashes touch windows.    *)

\* A step of another actor leaves the windows as they were.
LEMMA WindowFrame ==
  ASSUME WindowInv, UNCHANGED <<windowVars, dispatchVars>>
  PROVE  WindowInv'
BY DEF WindowInv, WindowFilledOnce, Claiming, windowVars, dispatchVars

\* A dispatcher that moves on with its claim, or returns and leaves it standing,
\* and puts nothing on the wire, disturbs no window.
LEMMA WindowKeep ==
  ASSUME TypeOK, WindowInv, NEW w \in Dispatchers, NEW p \in Steps,
         Claiming(w) \/ p \in {"sent", "idle"} \/ win[w] \notin Windows,
         Step(w, p) \/ Return(w), UNCHANGED windowVars
  PROVE  WindowInv'
<1> USE DEF windowVars
<1>1. \A v \in Dispatchers : Claiming(v)' => Claiming(v) /\ win'[v] = win[v]
  <2> SUFFICES ASSUME NEW v \in Dispatchers, Claiming(v)'
               PROVE  Claiming(v) /\ win'[v] = win[v]
    OBVIOUS
  <2>1. CASE v # w
    BY <2>1 DEF Claiming, Step, Return, TypeOK
  <2>2. CASE v = w /\ Step(w, p)
    BY <2>2 DEF Claiming, Step, TypeOK
  <2>3. CASE v = w /\ Return(w)
    BY <2>3 DEF Claiming, Return, TypeOK
  <2> QED BY <2>1, <2>2, <2>3
<1> QED BY <1>1 DEF WindowInv, WindowFilledOnce

\* Giving back, or not, the claim of a dispatch that sent nothing.
LEMMA WindowUnfilled ==
  ASSUME TypeOK, WindowInv, NEW w \in Dispatchers, Unfilled(w), UNCHANGED windowVars,
         pc[w] \in {"claimed", "chosen", "unsent"}, pc[w] = "chosen" => win[w] = NoWindow
  PROVE  WindowInv'
<1>1. "giveback" \in Steps BY DEF Steps
<1>2. CASE win[w] = NoWindow
  BY <1>1, <1>2, SentinelAssumption, WindowKeep DEF Unfilled
<1>3. CASE win[w] # NoWindow
  BY <1>1, <1>3, WindowKeep DEF Unfilled, Claiming, TypeOK
<1> QED BY <1>2, <1>3

\* Sending, or sending in doubt, uses the dispatcher's claim up.
LEMMA WindowSend ==
  ASSUME TypeOK, WindowInv, NEW w \in Dispatchers, pc[w] = "reserved",
         Step(w, "sent") \/ Return(w), Radiate(w), UNCHANGED claimed
  PROVE  WindowInv'
<1>1. ~Claiming(w)'
  BY DEF Claiming, Step, Return, TypeOK
<1>2. \A v \in Dispatchers \ {w} : Claiming(v)' => Claiming(v) /\ win'[v] = win[v]
  BY DEF Claiming, Step, Return, TypeOK
<1>3. win[w] \in Windows => Claiming(w)
  BY DEF Claiming
<1>4. \A m \in Windows : onWire'[m] = IF m = win[w] THEN onWire[m] + 1 ELSE onWire[m]
  BY DEF Radiate
<1>5. WindowFilledOnce'
  <2> SUFFICES ASSUME NEW m \in Windows PROVE onWire'[m] <= 1
    BY DEF WindowFilledOnce
  <2>1. CASE m = win[w]
    BY <1>3, <1>4, <2>1 DEF WindowInv
  <2>2. CASE m # win[w]
    BY <1>4, <2>2 DEF WindowInv, WindowFilledOnce
  <2> QED BY <2>1, <2>2
<1>6. \A v \in Dispatchers : Claiming(v)' => win'[v] \in claimed' /\ onWire'[win'[v]] = 0
  <2> SUFFICES ASSUME NEW v \in Dispatchers, Claiming(v)'
               PROVE  win'[v] \in claimed' /\ onWire'[win'[v]] = 0
    OBVIOUS
  <2>1. v # w /\ Claiming(v) /\ win'[v] = win[v]
    BY <1>1, <1>2
  <2>2. win[v] # win[w] /\ win[v] \in Windows
    BY <1>3, <2>1 DEF WindowInv, Claiming
  <2> QED BY <1>4, <2>1, <2>2 DEF WindowInv
<1>7. \A v1, v2 \in Dispatchers :
        Claiming(v1)' /\ Claiming(v2)' /\ win'[v1] = win'[v2] => v1 = v2
  BY <1>1, <1>2 DEF WindowInv
<1>8. \A m \in Windows \ claimed' : onWire'[m] = 0
  BY <1>3, <1>4 DEF WindowInv
<1> QED BY <1>5, <1>6, <1>7, <1>8 DEF WindowInv

\* Every step of a dispatcher fills a window at most once.
LEMMA DispatchWindow ==
  ASSUME TypeOK, WindowInv, ChosenInv, NEW w \in Dispatchers, Dispatch(w)
  PROVE  WindowInv'
<1> USE DEF rowVars, reportVars, windowVars, dispatchVars, stationVars
<1>0. {"sent", "idle", "unsent"} \subseteq Steps
  BY DEF Steps
<1>1. ASSUME NEW s \in Stations, ChooseStation(w, s) PROVE WindowInv'
  <2>1. ~Claiming(w)' BY <1>1, SentinelAssumption DEF ChooseStation, Claiming, TypeOK
  <2>2. \A v \in Dispatchers \ {w} : Claiming(v)' => Claiming(v) /\ win'[v] = win[v]
    BY <1>1 DEF ChooseStation, Claiming, TypeOK
  <2> QED BY <1>1, <2>1, <2>2 DEF ChooseStation, WindowInv, WindowFilledOnce
<1>2. ASSUME NEW s \in Stations, NEW m \in Windows, ClaimWindow(w, s, m) PROVE WindowInv'
  <2>1. win'[w] = m /\ m \notin claimed /\ claimed' = claimed \cup {m} /\ onWire' = onWire
    BY <1>2 DEF ClaimWindow, TypeOK
  <2>2. \A v \in Dispatchers \ {w} : Claiming(v)' => Claiming(v) /\ win'[v] = win[v]
    BY <1>2 DEF ClaimWindow, Claiming, TypeOK
  <2>3. \A v \in Dispatchers \ {w} : Claiming(v)' => win'[v] # m
    BY <2>1, <2>2 DEF WindowInv
  <2> QED BY <2>1, <2>2, <2>3 DEF WindowInv, WindowFilledOnce
<1>3. ASSUME NEW d \in Downlinks, Reserve(w, d) PROVE WindowInv'
  <2>1. \A v \in Dispatchers : Claiming(v)' => Claiming(v) /\ win'[v] = win[v]
    <3>1. pc[w] = "chosen" => win[w] \notin Windows
      BY SentinelAssumption DEF ChosenInv
    <3> QED BY <1>3, <3>1 DEF Reserve, Claiming, TypeOK
  <2> QED BY <1>3, <2>1 DEF Reserve, WindowInv, WindowFilledOnce
<1>4. CASE ReserveNothing(w)
  BY <1>4, WindowUnfilled DEF ReserveNothing, ChosenInv
<1>5. CASE SendSucceeds(w)
  BY <1>5, WindowSend DEF SendSucceeds
<1>6. CASE SendAmbiguous(w)
  BY <1>6, WindowSend DEF SendAmbiguous
<1>7. CASE SendFails(w)
  <2>1. Claiming(w) \/ win[w] \notin Windows
    BY <1>7 DEF SendFails, Claiming
  <2> QED BY <1>0, <1>7, <2>1, WindowKeep DEF SendFails
<1>8. CASE Confirm(w) \/ ConfirmFails(w) \/ GiveBackFails(w)
  BY <1>0, <1>8, WindowKeep DEF Confirm, ConfirmFails, GiveBackFails
<1>9. CASE Release(w) \/ ReleaseFails(w)
  BY <1>9, WindowUnfilled DEF Release, ReleaseFails
<1>10. CASE GiveWindowBack(w)
  <2>1. ~Claiming(w)' BY <1>10, SentinelAssumption DEF GiveWindowBack, Return, Claiming, TypeOK
  <2>2. \A v \in Dispatchers \ {w} : Claiming(v)' => Claiming(v) /\ win'[v] = win[v]
    BY <1>10 DEF GiveWindowBack, Return, Claiming, TypeOK
  <2>3. win[w] \in Windows => Claiming(w)
    BY <1>10 DEF GiveWindowBack, Claiming
  <2>4. claimed' = claimed \ {win[w]} /\ onWire' = onWire
    BY <1>10 DEF GiveWindowBack
  <2>5. \A v \in Dispatchers : Claiming(v)' => win'[v] \in claimed' /\ onWire'[win'[v]] = 0
    BY <2>1, <2>2, <2>3, <2>4 DEF WindowInv, Claiming
  <2>6. \A m \in Windows \ claimed' : onWire'[m] = 0
    BY <2>3, <2>4 DEF WindowInv
  <2> QED BY <2>1, <2>2, <2>4, <2>5, <2>6 DEF WindowInv, WindowFilledOnce
<1> QED
  BY <1>1, <1>2, <1>3, <1>4, <1>5, <1>6, <1>7, <1>8, <1>9, <1>10 DEF Dispatch

-----------------------------------------------------------------------------
(* One report per outcome.                                                 *)

\* What the result of a status is.
LEMMA ResultOfStatus ==
  /\ \A st \in {"absent", "pending", "revoked"} \cup heldStatuses : ResultsOf(st) = {}
  /\ \A r \in Results : r \in ResultsOf(resultQueueStatuses[r])
  /\ resultQueueStatuses["expired"] = "expired"
  /\ resultQueueStatuses["invalid"] = "failed"
BY DEF ResultsOf, resultQueueStatuses, Results, heldStatuses

\* A statement that ends in-flight rows and reports each of them.
LEMMA EndReports ==
  ASSUME TypeOK, ReportInv, NEW D \in SUBSET Downlinks, NEW r \in Results,
         \A d \in D : ResultsOf(status[d]) = {},
         Move(D, resultQueueStatuses[r]), Report(D, r), UNCHANGED stale
  PROVE  ReportInv'
<1>1. \A d \in Downlinks : issued[d] \in Seq(Results)
  BY DEF TypeOK
<1>2. ASSUME NEW d \in Downlinks \ stale'
      PROVE  IF ResultsOf(status'[d]) = {} THEN issued'[d] = <<>>
             ELSE Len(issued'[d]) = 1 /\ issued'[d][1] \in ResultsOf(status'[d])
  <2>1. CASE d \in D
    <3>1. issued[d] = <<>>
      BY <2>1 DEF ReportInv, ReportedOnce
    <3>2. issued'[d] = Append(issued[d], r) /\ status'[d] = resultQueueStatuses[r]
      BY <2>1 DEF Report, Move
    <3>3. Len(issued'[d]) = 1 /\ issued'[d][1] = r
      BY <3>1, <3>2
    <3> QED BY <3>2, <3>3, ResultOfStatus
  <2>2. CASE d \notin D
    BY <2>2 DEF Report, Move, ReportInv, ReportedOnce
  <2> QED BY <2>1, <2>2
<1>3. ASSUME NEW p \in (inFlight \cup told)' PROVE p[2] \in 1..Len(issued'[p[1]])
  <2>1. CASE p \in inFlight \cup told
    <3>1. p[1] \in Downlinks /\ p[2] \in 1..Len(issued[p[1]])
      BY <2>1 DEF ReportInv, TypeOK
    <3>2. Len(issued'[p[1]]) \in Nat /\ Len(issued'[p[1]]) >= Len(issued[p[1]])
      BY <1>1, <3>1 DEF Report
    <3>3. Len(issued[p[1]]) \in Nat
      BY <1>1, <3>1
    <3> QED BY <3>1, <3>2, <3>3
  <2>2. CASE p \notin inFlight \cup told
    <3>1. PICK d \in D : p = <<d, Len(issued[d]) + 1>>
      BY <1>3, <2>2 DEF Report
    <3>2. Len(issued'[d]) = Len(issued[d]) + 1 /\ Len(issued[d]) \in Nat
      BY <1>1, <3>1 DEF Report
    <3> QED BY <3>1, <3>2
  <2> QED BY <2>1, <2>2
<1> QED BY <1>2, <1>3 DEF ReportInv, ReportedOnce

\* A statement that moves rows between states no report goes with.
LEMMA SilentReports ==
  ASSUME TypeOK, ReportInv, NEW D, NEW to, ResultsOf(to) = {},
         stale \subseteq stale', \A d \in D \ stale' : ResultsOf(status[d]) = {},
         Move(D, to), UNCHANGED reportVars
  PROVE  ReportInv'
<1>1. ASSUME NEW d \in Downlinks \ stale'
      PROVE  IF ResultsOf(status'[d]) = {} THEN issued'[d] = <<>>
             ELSE Len(issued'[d]) = 1 /\ issued'[d][1] \in ResultsOf(status'[d])
  BY <1>1 DEF ReportInv, ReportedOnce, Move, reportVars
<1> QED BY <1>1 DEF ReportInv, ReportedOnce, reportVars

\* A step that moves no row and reports nothing.
LEMMA ReportFrame ==
  ASSUME ReportInv, UNCHANGED <<status, stale, reportVars>>
  PROVE  ReportInv'
BY DEF ReportInv, ReportedOnce, reportVars

\* Whatever ends expired was in flight: its report is its first.
LEMMA ExpiredReports ==
  ASSUME TypeOK, ReportInv, NEW D \in SUBSET Downlinks, EndExpired(D),
         \A d \in D : status[d] \in {"pending"} \cup heldStatuses
  PROVE  ReportInv'
<1>1. "expired" \in Results BY DEF Results
<1>2. \A d \in D : ResultsOf(status[d]) = {} BY ResultOfStatus
<1> QED BY <1>1, <1>2, ResultOfStatus, EndReports DEF EndExpired

\* Every step reports an outcome once, when it happens.
LEMMA NextReport == IInv /\ [Next]_vars => ReportInv'
<1> SUFFICES ASSUME TypeOK, ReportInv, [Next]_vars PROVE ReportInv'
  BY DEF IInv
<1> USE DEF rowVars
<1>0. /\ \A d \in Downlinks : status[d] \in {"pending"} \cup heldStatuses
                               => ResultsOf(status[d]) = {}
      /\ \A to \in {"pending", "revoked"} \cup heldStatuses : ResultsOf(to) = {}
  BY ResultOfStatus
<1>1. CASE UNCHANGED vars
  BY <1>1, ReportFrame DEF vars
<1>2. ASSUME NEW d \in Downlinks, Originator(d) PROVE ReportInv'
  <2>1. CASE Enqueue(d)
    <3>1. ResultsOf(status[d]) = {} BY <2>1, ResultOfStatus DEF Enqueue
    <3> QED BY <1>0, <2>1, <3>1, SilentReports DEF Enqueue
  <2>2. CASE Elapse(d)
    BY <2>2, ReportFrame DEF Elapse
  <2>3. CASE RevokeInQueue(d)
    BY <1>0, <2>3, SilentReports DEF RevokeInQueue
  <2> QED BY <1>2, <2>1, <2>2, <2>3 DEF Originator
<1>3. ASSUME NEW w \in Dispatchers, Dispatch(w) PROVE ReportInv'
  <2>1. ASSUME NEW d \in Downlinks, Reserve(w, d) PROVE ReportInv'
    BY <1>0, <2>1, SilentReports DEF Reserve, Reservable, heldStatuses
  <2>2. CASE Confirm(w)
    <3> DEFINE D == {d \in Downlinks : d = job[w] /\ Confirmable(d, via[w])}
    <3>1. \A d \in D : ResultsOf(status[d]) = {}
      BY <1>0 DEF Confirmable, heldStatuses
    <3>2. ResultsOf("queued") = {} BY <1>0 DEF heldStatuses
    <3> QED BY <2>2, <3>1, <3>2, SilentReports DEF Confirm
  <2>3. CASE Release(w)
    <3> DEFINE D == ReleaseTarget(job[w])
    <3>1. \A d \in D \ stale' : ResultsOf(status[d]) = {}
      BY <1>0, <2>3 DEF Release, Owns, heldStatuses, ReleaseTarget
    <3>2. stale \subseteq stale' BY <2>3 DEF Release
    <3> QED BY <1>0, <2>3, <3>1, <3>2, SilentReports DEF Release
  <2>4. ASSUME NEW s \in Stations, ChooseStation(w, s) PROVE ReportInv'
    BY <2>4, ReportFrame DEF ChooseStation
  <2>5. ASSUME NEW s \in Stations, NEW m \in Windows, ClaimWindow(w, s, m) PROVE ReportInv'
    BY <2>5, ReportFrame DEF ClaimWindow
  <2>6. CASE \/ ReserveNothing(w) \/ SendSucceeds(w) \/ SendAmbiguous(w) \/ SendFails(w)
             \/ ConfirmFails(w) \/ ReleaseFails(w) \/ GiveWindowBack(w) \/ GiveBackFails(w)
    BY <2>6, ReportFrame DEF ReserveNothing, SendSucceeds, SendAmbiguous, SendFails,
       ConfirmFails, ReleaseFails, GiveWindowBack, GiveBackFails
  <2> QED BY <1>3, <2>1, <2>2, <2>3, <2>4, <2>5, <2>6 DEF Dispatch
<1>4. ASSUME NEW s \in Stations, NEW d \in Downlinks, Answer(s, d) PROVE ReportInv'
  <2>0. "invalid" \in Results /\ {d} \in SUBSET Downlinks BY DEF Results
  <2>1. CASE QueueAck(s, d)
    BY <1>0, <2>1, SilentReports DEF QueueAck, Confirmable, heldStatuses
  <2>2. CASE QueueError(s, d)
    BY <1>0, <2>0, <2>2, ResultOfStatus, EndReports DEF QueueError, Held
  <2>3. ASSUME NEW r \in Results, DLDataResult(s, d, r) PROVE ReportInv'
    BY <1>0, <2>0, <2>3, EndReports DEF DLDataResult, Held
  <2>4. CASE SentAfterExpiry(s, d) \/ NotRevoking(s, d)
    BY <2>4, ReportFrame DEF SentAfterExpiry, NotRevoking
  <2>5. CASE ExpireRevoked(s, d)
    BY <2>0, <2>5, ExpiredReports DEF ExpireRevoked, heldStatuses
  <2>6. CASE RevokeAtStation(s, d)
    <3> DEFINE D == {e \in {d} : RevocableAt(s, e)}
    <3>1. \A e \in D : ResultsOf(status[e]) = {}
      BY <1>0 DEF RevocableAt, revocableAtStation, heldStatuses
    <3> QED BY <1>0, <2>6, <3>1, SilentReports DEF RevokeAtStation
  <2> QED BY <1>4, <2>1, <2>2, <2>3, <2>4, <2>5, <2>6 DEF Answer
<1>5. ASSUME NEW s \in Stations, Reclaim(s) PROVE ReportInv'
  <2>1. ASSUME NEW Keep \in SUBSET Downlinks, ReclaimReservations(s, Keep) PROVE ReportInv'
    BY <1>0, <2>1, SilentReports DEF ReclaimReservations, ReturnToQueue, heldStatuses
  <2>2. ASSUME NEW D \in SUBSET Downlinks, ReclaimEndpointQueue(s, D) PROVE ReportInv'
    BY <1>0, <2>2, SilentReports DEF ReclaimEndpointQueue, ReturnToQueue, heldStatuses
  <2>3. CASE ReclaimDiscardedQueue(s)
    BY <2>2, <2>3 DEF ReclaimDiscardedQueue
  <2>4. CASE ExpireStationRevocations(s)
    BY <2>4, ExpiredReports DEF ExpireStationRevocations, heldStatuses
  <2> QED BY <1>5, <2>1, <2>2, <2>3, <2>4 DEF Reclaim
<1>6. ASSUME NEW s \in Stations, Removal(s) PROVE ReportInv'
  <2>1. CASE DeleteStation(s) \/ RegisterStation(s) \/ EndDeletedFails(s)
    BY <2>1, ReportFrame DEF DeleteStation, RegisterStation, EndDeletedFails
  <2>2. CASE EndDeletedStationDownlinks(s)
    BY <2>2, ExpiredReports DEF EndDeletedStationDownlinks, Held
  <2> QED BY <1>6, <2>1, <2>2 DEF Removal
<1>7. ASSUME NEW D \in SUBSET Downlinks,
             ExpireOverdueUnheld(D) \/ ExpireHeldAtRemovedStations(D) \/ RevokeOverdueHeld(D)
      PROVE ReportInv'
  <2>1. CASE ExpireOverdueUnheld(D)
    BY <2>1, ExpiredReports DEF ExpireOverdueUnheld, OverdueUnheld
  <2>2. CASE ExpireHeldAtRemovedStations(D)
    BY <2>2, ExpiredReports DEF ExpireHeldAtRemovedStations, HeldAtRemoved
  <2>3. CASE RevokeOverdueHeld(D)
    BY <1>0, <2>3, SilentReports DEF RevokeOverdueHeld, OverdueHeld, revocableStatuses, heldStatuses
  <2> QED BY <1>7, <2>1, <2>2, <2>3
<1>8. ASSUME NEW p \in inFlight, Tell(p[1], p[2]) PROVE ReportInv'
  <2>1. p[1] \in Downlinks /\ p = <<p[1], p[2]>> BY <1>8 DEF TypeOK
  <2>2. inFlight' \cup told' = inFlight \cup told BY <1>8, <2>1 DEF Tell
  <2> QED BY <1>8, <2>2 DEF Tell, ReportInv, ReportedOnce
<1>9. CASE Crash
  BY <1>9 DEF Crash, ReportInv, ReportedOnce
<1> QED BY <1>1, <1>2, <1>3, <1>4, <1>5, <1>6, <1>7, <1>8, <1>9 DEF Next, SweepOnce

-----------------------------------------------------------------------------
(* One dispatcher per reservation.                                         *)

\* A row keeps its attempts and its place outside the queue, or gains an attempt.
RowForward(d) ==
  \/ attempts'[d] = attempts[d] + 1
  \/ /\ attempts'[d] = attempts[d]
     /\ status[d] \notin {"absent", "pending"} => status'[d] \notin {"absent", "pending"}

\* Rows that only move forward, and dispatchers that only drop their work.
LEMMA ForwardDispatch ==
  ASSUME TypeOK, DispatchInv, \A d \in Downlinks : RowForward(d),
         \A w \in Dispatchers, d \in Downlinks :
           Working(w, d)' => Working(w, d) /\ try'[w] = try[w]
  PROVE  DispatchInv'
<1>1. ASSUME NEW w \in Dispatchers, NEW d \in Downlinks, Working(w, d)'
      PROVE  /\ try'[w] <= attempts'[d]
             /\ try'[w] = attempts'[d] => status'[d] \notin {"absent", "pending"}
             /\ try'[w] = attempts'[d] => try[w] = attempts[d]
  <2>1. Working(w, d) /\ try'[w] = try[w] BY <1>1
  <2>2. try[w] \in Nat /\ attempts[d] \in Nat BY DEF TypeOK
  <2>3. /\ try[w] <= attempts[d]
        /\ try[w] = attempts[d] => status[d] \notin {"absent", "pending"}
    BY <2>1 DEF DispatchInv
  <2>4. RowForward(d) OBVIOUS
  <2> QED BY <2>1, <2>2, <2>3, <2>4 DEF RowForward
<1>2. ReservationHasOneDispatcher'
  BY <1>1 DEF ReservationHasOneDispatcher, DispatchInv
<1> QED BY <1>1, <1>2 DEF DispatchInv

\* Moving rows that are not, or no longer, to be in the queue.
LEMMA MoveForward ==
  ASSUME TypeOK, NEW D, NEW to, to \notin {"absent", "pending"}, Move(D, to), UNCHANGED attempts
  PROVE  \A d \in Downlinks : RowForward(d)
BY DEF Move, RowForward, TypeOK

\* A release adds an attempt to each row it returns.
LEMMA ReturnForward ==
  ASSUME TypeOK, NEW D, Move(D, "pending"),
         attempts' = [d \in Downlinks |-> IF d \in D THEN attempts[d] + 1 ELSE attempts[d]]
  PROVE  \A d \in Downlinks : RowForward(d)
BY DEF Move, RowForward, TypeOK

\* A step that moves no row.
LEMMA RowsStay ==
  ASSUME UNCHANGED <<status, attempts>>
  PROVE  \A d \in Downlinks : RowForward(d)
BY DEF RowForward

\* Every step leaves a reservation to the dispatcher that made it.
LEMMA NextDispatch == IInv /\ [Next]_vars => DispatchInv'
<1> SUFFICES ASSUME TypeOK, DispatchInv, [Next]_vars PROVE DispatchInv'
  BY DEF IInv
<1> USE DEF rowVars
<1> DEFINE Idle == \A w \in Dispatchers, d \in Downlinks :
                     Working(w, d)' => Working(w, d) /\ try'[w] = try[w]
<1>0. ASSUME UNCHANGED dispatchVars PROVE Idle
  BY <1>0 DEF Working, dispatchVars
<1> HIDE DEF Idle
<1>10. ASSUME Idle, \A d \in Downlinks : RowForward(d) PROVE DispatchInv'
  BY <1>10, ForwardDispatch DEF Idle
<1>1. CASE UNCHANGED vars
  BY <1>0, <1>1, <1>10, RowsStay DEF vars
<1>2. ASSUME NEW d \in Downlinks, Originator(d) PROVE DispatchInv'
  <2>1. CASE Enqueue(d)
    <3>1. \A e \in Downlinks : RowForward(e)
      BY <2>1 DEF Enqueue, Move, RowForward, TypeOK
    <3> QED BY <1>0, <1>10, <2>1, <3>1 DEF Enqueue
  <2>2. CASE Elapse(d)
    BY <1>0, <1>10, <2>2, RowsStay DEF Elapse
  <2>3. CASE RevokeInQueue(d)
    BY <1>0, <1>10, <2>3, MoveForward DEF RevokeInQueue
  <2> QED BY <1>2, <2>1, <2>2, <2>3 DEF Originator
<1>3. ASSUME NEW w \in Dispatchers, Dispatch(w) PROVE DispatchInv'
  <2>11. ASSUME NEW p \in {"sent", "unsent", "giveback"}, Step(w, p), p = "giveback" \/ pc[w] = "reserved"
        PROVE Idle
    BY <2>11 DEF Idle, Step, Working, TypeOK
  <2>12. ASSUME Return(w) PROVE Idle
    BY <2>12 DEF Idle, Return, Working, TypeOK
  <2>13. ASSUME Unfilled(w) PROVE Idle
    BY <2>11, <2>12, <2>13 DEF Unfilled
  <2>1. ASSUME NEW d \in Downlinks, Reserve(w, d) PROVE DispatchInv'
    <3>1. /\ status[d] = "pending" /\ status'[d] = "reserved"
          /\ attempts' = attempts
          /\ \A e \in Downlinks \ {d} : status'[e] = status[e]
      BY <2>1 DEF Reserve, Reservable, Move
    <3>2. /\ \A e \in Downlinks : Working(w, e)' <=> e = d
          /\ try'[w] = attempts[d]
      BY <2>1 DEF Reserve, Working, TypeOK
    <3>3. \A v \in Dispatchers \ {w}, e \in Downlinks :
            (Working(v, e)' <=> Working(v, e)) /\ try'[v] = try[v]
      BY <2>1 DEF Reserve, Working, TypeOK
    <3>4. \A v \in Dispatchers \ {w} : Working(v, d) => try[v] < attempts[d]
      BY <3>1 DEF DispatchInv, TypeOK
    <3>5. ASSUME NEW v \in Dispatchers, NEW e \in Downlinks, Working(v, e)'
          PROVE  /\ try'[v] <= attempts'[e]
                 /\ try'[v] = attempts'[e] => status'[e] \notin {"absent", "pending"}
      <4>1. CASE v = w
        BY <3>1, <3>2, <3>5, <4>1 DEF TypeOK
      <4>2. CASE v # w
        BY <3>1, <3>3, <3>5, <4>2 DEF DispatchInv
      <4> QED BY <4>1, <4>2
    <3>6. ReservationHasOneDispatcher'
      <4> SUFFICES ASSUME NEW w1 \in Dispatchers, NEW w2 \in Dispatchers, NEW e \in Downlinks,
                          w1 # w2, Working(w1, e)', Working(w2, e)', try'[w1] = attempts'[e]
                   PROVE  try'[w2] # attempts'[e]
        BY DEF ReservationHasOneDispatcher
      <4>0. attempts[e] \in Nat /\ try[w1] \in Nat /\ try[w2] \in Nat BY DEF TypeOK
      <4>1. CASE w1 = w
        BY <3>1, <3>2, <3>3, <3>4, <4>0, <4>1
      <4>2. CASE w2 = w
        BY <3>1, <3>2, <3>3, <3>4, <4>0, <4>2
      <4>3. CASE w1 # w /\ w2 # w
        BY <3>1, <3>3, <4>3 DEF DispatchInv, ReservationHasOneDispatcher
      <4> QED BY <4>1, <4>2, <4>3
    <3> QED BY <3>5, <3>6 DEF DispatchInv
  <2>2. CASE Confirm(w)
    BY <1>10, <2>2, <2>12, MoveForward DEF Confirm
  <2>3. CASE Release(w)
    BY <1>10, <2>3, <2>13, ReturnForward DEF Release
  <2>4. ASSUME NEW s \in Stations, ChooseStation(w, s) PROVE DispatchInv'
    <3>1. Idle BY <2>4 DEF Idle, ChooseStation, Working, TypeOK
    <3> QED BY <1>10, <2>4, <3>1, RowsStay DEF ChooseStation
  <2>5. ASSUME NEW s \in Stations, NEW m \in Windows, ClaimWindow(w, s, m) PROVE DispatchInv'
    <3>1. Idle BY <2>5 DEF Idle, ClaimWindow, Working, TypeOK
    <3> QED BY <1>10, <2>5, <3>1, RowsStay DEF ClaimWindow
  <2>6. CASE ReserveNothing(w) \/ ReleaseFails(w)
    BY <1>10, <2>6, <2>13, RowsStay DEF ReserveNothing, ReleaseFails
  <2>7. CASE SendSucceeds(w) \/ SendFails(w)
    BY <1>10, <2>7, <2>11, RowsStay DEF SendSucceeds, SendFails
  <2>8. CASE \/ SendAmbiguous(w) \/ ConfirmFails(w) \/ GiveWindowBack(w) \/ GiveBackFails(w)
    BY <1>10, <2>8, <2>12, RowsStay DEF SendAmbiguous, ConfirmFails, GiveWindowBack, GiveBackFails
  <2> QED BY <1>3, <2>1, <2>2, <2>3, <2>4, <2>5, <2>6, <2>7, <2>8 DEF Dispatch
<1>4. ASSUME NEW s \in Stations, NEW d \in Downlinks, Answer(s, d) PROVE DispatchInv'
  <2>0. \A r \in Results : resultQueueStatuses[r] \notin {"absent", "pending"}
    BY DEF Results, resultQueueStatuses
  <2>1. CASE QueueAck(s, d)
    BY <1>0, <1>10, <2>1, MoveForward DEF QueueAck
  <2>2. CASE QueueError(s, d)
    BY <1>0, <1>10, <2>2, MoveForward DEF QueueError
  <2>3. ASSUME NEW r \in Results, DLDataResult(s, d, r) PROVE DispatchInv'
    BY <1>0, <1>10, <2>0, <2>3, MoveForward DEF DLDataResult
  <2>4. CASE SentAfterExpiry(s, d) \/ NotRevoking(s, d)
    BY <1>0, <1>10, <2>4, RowsStay DEF SentAfterExpiry, NotRevoking
  <2>5. CASE ExpireRevoked(s, d)
    BY <1>0, <1>10, <2>5, MoveForward DEF ExpireRevoked, EndExpired
  <2>6. CASE RevokeAtStation(s, d)
    BY <1>0, <1>10, <2>6, MoveForward DEF RevokeAtStation
  <2> QED BY <1>4, <2>1, <2>2, <2>3, <2>4, <2>5, <2>6 DEF Answer
<1>5. ASSUME NEW s \in Stations, Reclaim(s) PROVE DispatchInv'
  <2>1. ASSUME NEW Keep \in SUBSET Downlinks, ReclaimReservations(s, Keep) PROVE DispatchInv'
    BY <1>0, <1>10, <2>1, ReturnForward DEF ReclaimReservations, ReturnToQueue
  <2>2. ASSUME NEW D \in SUBSET Downlinks, ReclaimEndpointQueue(s, D) PROVE DispatchInv'
    BY <1>0, <1>10, <2>2, ReturnForward DEF ReclaimEndpointQueue, ReturnToQueue
  <2>3. CASE ReclaimDiscardedQueue(s)
    BY <2>2, <2>3 DEF ReclaimDiscardedQueue
  <2>4. CASE ExpireStationRevocations(s)
    BY <1>0, <1>10, <2>4, MoveForward DEF ExpireStationRevocations, EndExpired
  <2> QED BY <1>5, <2>1, <2>2, <2>3, <2>4 DEF Reclaim
<1>6. ASSUME NEW s \in Stations, Removal(s) PROVE DispatchInv'
  <2>1. CASE DeleteStation(s) \/ RegisterStation(s) \/ EndDeletedFails(s)
    BY <1>0, <1>10, <2>1, RowsStay DEF DeleteStation, RegisterStation, EndDeletedFails
  <2>2. CASE EndDeletedStationDownlinks(s)
    BY <1>0, <1>10, <2>2, MoveForward DEF EndDeletedStationDownlinks, EndExpired
  <2> QED BY <1>6, <2>1, <2>2 DEF Removal
<1>7. ASSUME NEW D \in SUBSET Downlinks,
             ExpireOverdueUnheld(D) \/ ExpireHeldAtRemovedStations(D) \/ RevokeOverdueHeld(D)
      PROVE DispatchInv'
  BY <1>0, <1>7, <1>10, MoveForward
     DEF ExpireOverdueUnheld, ExpireHeldAtRemovedStations, RevokeOverdueHeld, EndExpired
<1>8. ASSUME NEW p \in inFlight, Tell(p[1], p[2]) PROVE DispatchInv'
  BY <1>0, <1>8, <1>10, RowsStay DEF Tell
<1>9. CASE Crash
  <2>1. Idle BY <1>9 DEF Idle, Crash, Working
  <2> QED BY <1>9, <1>10, <2>1, RowsStay DEF Crash
<1> QED BY <1>1, <1>2, <1>3, <1>4, <1>5, <1>6, <1>7, <1>8, <1>9 DEF Next, SweepOnce

-----------------------------------------------------------------------------
(* The theorems.                                                           *)

\* Every step keeps the windows: the other actors leave them alone.
LEMMA NextWindow == IInv /\ [Next]_vars => WindowInv' /\ ChosenInv'
<1> SUFFICES ASSUME TypeOK, WindowInv, ChosenInv, [Next]_vars PROVE WindowInv' /\ ChosenInv'
  BY DEF IInv
<1>0. ASSUME UNCHANGED <<windowVars, dispatchVars>> PROVE WindowInv' /\ ChosenInv'
  BY <1>0, WindowFrame DEF ChosenInv, dispatchVars
<1>1. CASE UNCHANGED vars
  BY <1>0, <1>1 DEF vars
<1>2. ASSUME NEW d \in Downlinks, Originator(d) PROVE WindowInv' /\ ChosenInv'
  BY <1>0, <1>2 DEF Originator, Enqueue, Elapse, RevokeInQueue
<1>3. ASSUME NEW w \in Dispatchers, Dispatch(w) PROVE WindowInv' /\ ChosenInv'
  <2>1. ChosenInv'
    <3>1. \A v \in Dispatchers \ {w} : pc'[v] = pc[v] /\ win'[v] = win[v]
      BY <1>3 DEF Dispatch, ChooseStation, ClaimWindow, Reserve, ReserveNothing, SendSucceeds,
         SendAmbiguous, SendFails, Confirm, ConfirmFails, Release, ReleaseFails, GiveWindowBack,
         GiveBackFails, Unfilled, Step, Return, TypeOK
    <3>2. pc'[w] = "chosen" => win'[w] = NoWindow
      BY <1>3 DEF Dispatch, ChooseStation, ClaimWindow, Reserve, ReserveNothing, SendSucceeds,
         SendAmbiguous, SendFails, Confirm, ConfirmFails, Release, ReleaseFails, GiveWindowBack,
         GiveBackFails, Unfilled, Step, Return, TypeOK
    <3> QED BY <3>1, <3>2 DEF ChosenInv
  <2> QED BY <1>3, <2>1, DispatchWindow
<1>4. ASSUME NEW s \in Stations, NEW d \in Downlinks, Answer(s, d) PROVE WindowInv' /\ ChosenInv'
  BY <1>0, <1>4 DEF Answer, QueueAck, QueueError, DLDataResult, SentAfterExpiry, ExpireRevoked,
     NotRevoking, RevokeAtStation
<1>5. ASSUME NEW s \in Stations, Reclaim(s) PROVE WindowInv' /\ ChosenInv'
  BY <1>0, <1>5 DEF Reclaim, ReclaimReservations, ReclaimEndpointQueue, ReclaimDiscardedQueue,
     ExpireStationRevocations
<1>6. ASSUME NEW s \in Stations, Removal(s) PROVE WindowInv' /\ ChosenInv'
  BY <1>0, <1>6 DEF Removal, DeleteStation, RegisterStation, EndDeletedStationDownlinks,
     EndDeletedFails
<1>7. CASE SweepOnce
  BY <1>0, <1>7 DEF SweepOnce, ExpireOverdueUnheld, ExpireHeldAtRemovedStations, RevokeOverdueHeld
<1>8. ASSUME NEW p \in inFlight, Tell(p[1], p[2]) PROVE WindowInv' /\ ChosenInv'
  BY <1>0, <1>8 DEF Tell
<1>9. CASE Crash
  BY <1>9, SentinelAssumption
     DEF Crash, WindowInv, WindowFilledOnce, Claiming, ChosenInv, windowVars
<1> QED BY <1>1, <1>2, <1>3, <1>4, <1>5, <1>6, <1>7, <1>8, <1>9 DEF Next

\* The initial state satisfies the inductive invariant.
LEMMA InitInv == Init => IInv
<1> SUFFICES ASSUME Init PROVE IInv
  OBVIOUS
<1>1. WindowInv /\ ChosenInv
  BY DEF Init, WindowInv, WindowFilledOnce, Claiming, ChosenInv
<1>2. ReportInv
  BY ResultOfStatus DEF Init, ReportInv, ReportedOnce
<1>3. DispatchInv
  BY DEF Init, DispatchInv, ReservationHasOneDispatcher, Working
<1> QED BY <1>1, <1>2, <1>3, InitType DEF IInv

\* The inductive invariant holds in every behaviour of the queue.
THEOREM Invariance == Spec => []IInv
<1>1. IInv /\ [Next]_vars => IInv'
  <2> SUFFICES ASSUME IInv, [Next]_vars PROVE IInv'
    OBVIOUS
  <2>1. TypeOK BY DEF IInv
  <2> QED BY <2>1, NextType, NextWindow, NextReport, NextDispatch DEF IInv
<1> QED BY <1>1, InitInv, PTL DEF Spec

\* At most one downlink goes out per downlink window, for any number of
\* stations, dispatchers and windows (DispatchIfAvailable).
THEOREM WindowsFilledOnce == Spec => []WindowFilledOnce
<1>1. IInv => WindowFilledOnce
  BY DEF IInv, WindowInv
<1> QED BY <1>1, Invariance, PTL

\* An ended downlink is reported exactly once, with the result its row stores.
THEOREM OutcomesReportedOnce == Spec => []ReportedOnce
<1>1. IInv => ReportedOnce
  BY DEF IInv, ReportInv
<1> QED BY <1>1, Invariance, PTL

\* What a downlink's originators were told is what its row says, for good.
THEOREM TruthTold == Spec => []ToldStaysTrue
<1>1. IInv => ToldStaysTrue
  <2> SUFFICES ASSUME IInv, NEW p \in told, p[1] \notin stale
               PROVE  p[2] = 1 /\ issued[p[1]][1] \in ResultsOf(status[p[1]])
    BY DEF ToldStaysTrue
  <2>1. p[1] \in Downlinks /\ p[2] \in 1..Len(issued[p[1]])
    BY DEF IInv, ReportInv, TypeOK
  <2>2. issued[p[1]] \in Seq(Results)
    BY <2>1 DEF IInv, TypeOK
  <2>3. issued[p[1]] # <<>>
    BY <2>1, <2>2
  <2>4. Len(issued[p[1]]) = 1 /\ issued[p[1]][1] \in ResultsOf(status[p[1]])
    BY <2>1, <2>3 DEF IInv, ReportInv, ReportedOnce
  <2> QED BY <2>1, <2>4
<1> QED BY <1>1, Invariance, PTL

\* A reservation has one dispatcher that may still act on it.
THEOREM ReservationsOwned == Spec => []ReservationHasOneDispatcher
<1>1. IInv => ReservationHasOneDispatcher
  BY DEF IInv, DispatchInv
<1> QED BY <1>1, Invariance, PTL

-----------------------------------------------------------------------------
(* What no step does to a row.                                             *)

\* The two action properties, on one row.
RowSafe(d) ==
  /\ status[d] \in TerminalStatuses /\ status'[d] # status[d] => d \in stale'
  /\ d \in overdue =>
       /\ status'[d] = "reserved" => status[d] = "reserved"
       /\ status[d] = "revoking" /\ status'[d] \notin {"revoking"} \cup TerminalStatuses
            => d \in stale'

\* Ending rows that have not ended, whatever they waited for.
LEMMA EndSafe ==
  ASSUME NEW D, NEW to \in TerminalStatuses, Move(D, to),
         \A d \in D : status[d] \notin TerminalStatuses
  PROVE  \A d \in Downlinks : RowSafe(d)
BY DEF RowSafe, Move, TerminalStatuses

\* Returning rows that a station holds and was not asked to drop.
LEMMA ReturnSafe ==
  ASSUME NEW D, Move(D, "pending"), \A d \in D : status[d] \in {"reserved", "queued"}
  PROVE  \A d \in Downlinks : RowSafe(d)
BY DEF RowSafe, Move, TerminalStatuses

\* Every step of a dispatcher is safe for every row: only an unguarded release
\* touches an ended one, and it marks it stale.
LEMMA DispatchSafe ==
  ASSUME TypeOK, NEW w \in Dispatchers, Dispatch(w)
  PROVE  \A d \in Downlinks : RowSafe(d)
<1>1. ASSUME UNCHANGED status PROVE \A d \in Downlinks : RowSafe(d)
  BY <1>1 DEF RowSafe, TerminalStatuses
<1>2. ASSUME NEW d \in Downlinks, Reserve(w, d) PROVE \A e \in Downlinks : RowSafe(e)
  BY <1>2 DEF Reserve, Reservable, Move, RowSafe, TerminalStatuses
<1>3. CASE Confirm(w)
  BY <1>3 DEF Confirm, Confirmable, Move, RowSafe, TerminalStatuses
<1>4. CASE Release(w)
  BY <1>4 DEF Release, Owns, Move, RowSafe, TerminalStatuses
<1> QED
  BY <1>1, <1>2, <1>3, <1>4 DEF Dispatch, ChooseStation, ClaimWindow, ReserveNothing,
     SendSucceeds, SendAmbiguous, SendFails, ConfirmFails, ReleaseFails, GiveWindowBack,
     GiveBackFails, rowVars

\* Every step is safe for every row.
LEMMA NextSafe == TypeOK /\ [Next]_vars => \A d \in Downlinks : RowSafe(d)
<1> SUFFICES ASSUME TypeOK, [Next]_vars PROVE \A d \in Downlinks : RowSafe(d)
  OBVIOUS
<1> USE DEF rowVars
<1>0. /\ {"expired", "revoked", "failed"} \subseteq TerminalStatuses
      /\ \A r \in Results : resultQueueStatuses[r] \in TerminalStatuses
      /\ ("pending" \notin TerminalStatuses) /\ heldStatuses \cap TerminalStatuses = {}
      /\ heldStatuses = {"reserved", "queued", "revoking"}
      /\ revocableAtStation = {"reserved", "queued"}
  BY DEF TerminalStatuses, Results, resultQueueStatuses, heldStatuses, revocableAtStation
<1>1. ASSUME UNCHANGED status PROVE \A d \in Downlinks : RowSafe(d)
  BY <1>1 DEF RowSafe, TerminalStatuses
<1>2. ASSUME NEW d \in Downlinks, Originator(d) PROVE \A e \in Downlinks : RowSafe(e)
  <2>1. CASE Enqueue(d)
    BY <2>1 DEF Enqueue, Move, RowSafe, TerminalStatuses
  <2>2. CASE Elapse(d)
    BY <1>1, <2>2 DEF Elapse
  <2>3. CASE RevokeInQueue(d)
    BY <1>0, <2>3, EndSafe DEF RevokeInQueue
  <2> QED BY <1>2, <2>1, <2>2, <2>3 DEF Originator
<1>3. ASSUME NEW s \in Stations, NEW d \in Downlinks, Answer(s, d)
      PROVE  \A e \in Downlinks : RowSafe(e)
  <2>1. CASE QueueAck(s, d)
    BY <2>1 DEF QueueAck, Confirmable, Move, RowSafe, TerminalStatuses
  <2>2. CASE QueueError(s, d)
    BY <1>0, <2>2, EndSafe DEF QueueError, Held
  <2>3. ASSUME NEW r \in Results, DLDataResult(s, d, r) PROVE \A e \in Downlinks : RowSafe(e)
    BY <1>0, <2>3, EndSafe DEF DLDataResult, Held
  <2>4. CASE SentAfterExpiry(s, d) \/ NotRevoking(s, d)
    BY <1>1, <2>4 DEF SentAfterExpiry, NotRevoking
  <2>5. CASE ExpireRevoked(s, d)
    BY <1>0, <2>5, EndSafe DEF ExpireRevoked, EndExpired
  <2>6. CASE RevokeAtStation(s, d)
    BY <1>0, <2>6, EndSafe DEF RevokeAtStation, RevocableAt
  <2> QED BY <1>3, <2>1, <2>2, <2>3, <2>4, <2>5, <2>6 DEF Answer
<1>4. ASSUME NEW s \in Stations, Reclaim(s) PROVE \A d \in Downlinks : RowSafe(d)
  <2>1. ASSUME NEW Keep \in SUBSET Downlinks, ReclaimReservations(s, Keep)
        PROVE  \A d \in Downlinks : RowSafe(d)
    BY <2>1, ReturnSafe DEF ReclaimReservations, ReturnToQueue
  <2>2. ASSUME NEW D \in SUBSET Downlinks, ReclaimEndpointQueue(s, D)
        PROVE  \A d \in Downlinks : RowSafe(d)
    BY <2>2, ReturnSafe DEF ReclaimEndpointQueue, ReturnToQueue
  <2>3. CASE ReclaimDiscardedQueue(s)
    BY <2>2, <2>3 DEF ReclaimDiscardedQueue
  <2>4. CASE ExpireStationRevocations(s)
    BY <1>0, <2>4, EndSafe DEF ExpireStationRevocations, EndExpired
  <2> QED BY <1>4, <2>1, <2>2, <2>3, <2>4 DEF Reclaim
<1>5. ASSUME NEW s \in Stations, Removal(s) PROVE \A d \in Downlinks : RowSafe(d)
  <2>1. CASE DeleteStation(s) \/ RegisterStation(s) \/ EndDeletedFails(s)
    BY <1>1, <2>1 DEF DeleteStation, RegisterStation, EndDeletedFails
  <2>2. CASE EndDeletedStationDownlinks(s)
    BY <1>0, <2>2, EndSafe DEF EndDeletedStationDownlinks, EndExpired, Held
  <2> QED BY <1>5, <2>1, <2>2 DEF Removal
<1>6. CASE SweepOnce
  <2>1. ASSUME NEW D \in SUBSET Downlinks, ExpireOverdueUnheld(D)
        PROVE  \A d \in Downlinks : RowSafe(d)
    BY <1>0, <2>1, EndSafe DEF ExpireOverdueUnheld, OverdueUnheld, EndExpired
  <2>2. ASSUME NEW D \in SUBSET Downlinks, ExpireHeldAtRemovedStations(D)
        PROVE  \A d \in Downlinks : RowSafe(d)
    BY <1>0, <2>2, EndSafe DEF ExpireHeldAtRemovedStations, HeldAtRemoved, EndExpired
  <2>3. ASSUME NEW D \in SUBSET Downlinks, RevokeOverdueHeld(D)
        PROVE  \A d \in Downlinks : RowSafe(d)
    BY <2>3 DEF RevokeOverdueHeld, OverdueHeld, revocableStatuses, Move, RowSafe, TerminalStatuses
  <2> QED BY <1>6, <2>1, <2>2, <2>3 DEF SweepOnce
<1>7. ASSUME NEW p \in inFlight, Tell(p[1], p[2]) PROVE \A d \in Downlinks : RowSafe(d)
  BY <1>1, <1>7 DEF Tell
<1>8. CASE Crash \/ UNCHANGED vars
  BY <1>1, <1>8 DEF Crash, vars
<1> QED BY <1>2, <1>3, <1>4, <1>5, <1>6, <1>7, <1>8, DispatchSafe DEF Next

\* A downlink's outcome is final: only a release that was not the releaser's own
\* ever takes it back (DLQueueStatus.Terminal, UpdateDownlinkStatus).
THEOREM OutcomesFinal == Spec => OutcomeFinalButStale
<1>1. TypeOK /\ [Next]_vars =>
        [\A d \in Downlinks :
           status[d] \in TerminalStatuses /\ status'[d] # status[d] => d \in stale']_vars
  BY NextSafe DEF RowSafe
<1> QED BY <1>1, TypeCorrect, PTL DEF Spec, OutcomeFinalButStale

\* An overdue downlink is never dispatched again, whoever reconnects, releases or
\* answers (downlinkNotExpired, sqlReturningReleased).
THEOREM OverdueStaysOut == Spec => OverdueNeverRedispatched
<1>1. TypeOK /\ [Next]_vars =>
        [\A d \in overdue :
           /\ status'[d] = "reserved" => status[d] = "reserved"
           /\ status[d] = "revoking" /\ status'[d] \notin {"revoking"} \cup TerminalStatuses
                => d \in stale']_vars
  BY NextSafe DEF RowSafe, TypeOK
<1> QED BY <1>1, TypeCorrect, PTL DEF Spec, OverdueNeverRedispatched

-----------------------------------------------------------------------------
(* No reservation is stranded.                                             *)

\* What makes ReservationAlive inductive: a sent frame is remembered as sent.
AliveInv ==
  /\ ReservationAlive
  /\ \A w \in Dispatchers : pc[w] = "sent" => <<job[w], try[w]>> \in radiated

\* A step that reserves no row, changes no reserved row's attempts and leaves the
\* dispatchers alone.
LEMMA AliveFrame ==
  ASSUME AliveInv, UNCHANGED <<windowVars, dispatchVars>>,
         \A d \in Downlinks :
           status'[d] = "reserved" => status[d] = "reserved" /\ attempts'[d] = attempts[d]
  PROVE  AliveInv'
BY DEF AliveInv, ReservationAlive, Working, windowVars, dispatchVars

\* Every step of a dispatcher that neither crashes nor fails at the database.
LEMMA DispatchAlive ==
  ASSUME TypeOK, AliveInv, ~DBMayFail, NEW w \in Dispatchers, Dispatch(w),
         \A d \in Downlinks : RowID[d] <= QueueIDThreshold
  PROVE  AliveInv'
<1> USE DEF rowVars, windowVars
<1> DEFINE Safe(d) == \/ <<d, attempts'[d]>> \in radiated'
                      \/ \E v \in Dispatchers : Working(v, d)' /\ try'[v] = attempts'[d]
           Recorded == \A v \in Dispatchers : pc'[v] = "sent" => <<job'[v], try'[v]>> \in radiated'
\* What the other dispatchers keep alive stays alive.
<1>1. ASSUME UNCHANGED attempts, radiated \subseteq radiated',
             \A v \in Dispatchers \ {w} :
               pc'[v] = pc[v] /\ job'[v] = job[v] /\ try'[v] = try[v],
             NEW d \in Downlinks, status[d] = "reserved",
             Working(w, d) /\ try[w] = attempts[d] => Safe(d)
      PROVE  Safe(d)
  <2>1. CASE <<d, attempts[d]>> \in radiated
    BY <1>1, <2>1
  <2>2. CASE \E v \in Dispatchers \ {w} : Working(v, d) /\ try[v] = attempts[d]
    BY <1>1, <2>2 DEF Working
  <2>3. CASE Working(w, d) /\ try[w] = attempts[d]
    BY <1>1, <2>3
  <2> QED BY <1>1, <2>1, <2>2, <2>3 DEF AliveInv, ReservationAlive
\* A dispatcher with no row in hand.
<1>2. ASSUME pc[w] \in {"idle", "claimed", "chosen", "giveback"},
             pc'[w] \in {"idle", "claimed", "chosen", "giveback"},
             \A v \in Dispatchers \ {w} :
               pc'[v] = pc[v] /\ job'[v] = job[v] /\ try'[v] = try[v],
             UNCHANGED <<status, attempts, radiated>>
      PROVE  AliveInv'
  <2>1. \A d \in Downlinks : ~Working(w, d)
    BY <1>2 DEF Working
  <2>2. Recorded BY <1>2 DEF AliveInv
  <2>3. \A d \in Downlinks : status'[d] = "reserved" => Safe(d)
    BY <1>1, <1>2, <2>1
  <2> QED BY <2>2, <2>3 DEF AliveInv, ReservationAlive
<1>3. ASSUME NEW s \in Stations, ChooseStation(w, s) PROVE AliveInv'
  BY <1>2, <1>3 DEF ChooseStation, TypeOK
<1>4. ASSUME NEW s \in Stations, NEW m \in Windows, ClaimWindow(w, s, m) PROVE AliveInv'
  BY <1>2, <1>4 DEF ClaimWindow, TypeOK
<1>5. ASSUME NEW d \in Downlinks, Reserve(w, d) PROVE AliveInv'
  <2>1. /\ \A v \in Dispatchers \ {w} : pc'[v] = pc[v] /\ job'[v] = job[v] /\ try'[v] = try[v]
        /\ pc'[w] = "reserved" /\ job'[w] = d /\ try'[w] = attempts[d]
        /\ radiated' = radiated /\ attempts' = attempts
        /\ \A e \in Downlinks \ {d} : status'[e] = status[e]
    BY <1>5 DEF Reserve, Move, TypeOK
  <2>2. Safe(d) BY <2>1 DEF Working
  <2>3. \A e \in Downlinks : ~Working(w, e)
    BY <1>5 DEF Reserve, Working
  <2>4. \A e \in Downlinks \ {d} : status'[e] = "reserved" => Safe(e)
    BY <1>1, <2>1, <2>3
  <2>5. Recorded BY <2>1 DEF AliveInv
  <2> QED BY <2>2, <2>4, <2>5 DEF AliveInv, ReservationAlive
<1>6. CASE ReserveNothing(w) \/ GiveWindowBack(w)
  BY <1>2, <1>6 DEF ReserveNothing, GiveWindowBack, Unfilled, Step, Return, TypeOK
<1>7. CASE SendSucceeds(w) \/ SendAmbiguous(w)
  <2>1. /\ \A v \in Dispatchers \ {w} : pc'[v] = pc[v] /\ job'[v] = job[v] /\ try'[v] = try[v]
        /\ radiated' = radiated \cup {<<job[w], try[w]>>}
        /\ pc'[w] = "sent" => job'[w] = job[w] /\ try'[w] = try[w]
        /\ UNCHANGED <<status, attempts>>
    BY <1>7 DEF SendSucceeds, SendAmbiguous, Radiate, Step, Return, TypeOK
  <2>2. \A d \in Downlinks : Working(w, d) /\ try[w] = attempts[d] => Safe(d)
    BY <2>1 DEF Working
  <2>3. \A d \in Downlinks : status'[d] = "reserved" => Safe(d)
    BY <1>1, <2>1, <2>2
  <2>4. Recorded BY <2>1 DEF AliveInv
  <2> QED BY <2>3, <2>4 DEF AliveInv, ReservationAlive
<1>8. CASE SendFails(w)
  <2>1. /\ \A v \in Dispatchers \ {w} : pc'[v] = pc[v] /\ job'[v] = job[v] /\ try'[v] = try[v]
        /\ pc'[w] = "unsent" /\ job'[w] = job[w] /\ try'[w] = try[w]
        /\ UNCHANGED <<status, attempts, radiated>>
    BY <1>8 DEF SendFails, Step, TypeOK
  <2>2. \A d \in Downlinks : Working(w, d) /\ try[w] = attempts[d] => Safe(d)
    BY <2>1 DEF Working
  <2>3. \A d \in Downlinks : status'[d] = "reserved" => Safe(d)
    BY <1>1, <2>1, <2>2
  <2>4. Recorded BY <2>1 DEF AliveInv
  <2> QED BY <2>3, <2>4 DEF AliveInv, ReservationAlive
<1>9. CASE Confirm(w)
  <2>1. /\ \A v \in Dispatchers \ {w} : pc'[v] = pc[v] /\ job'[v] = job[v] /\ try'[v] = try[v]
        /\ pc'[w] = "idle" /\ UNCHANGED <<attempts, radiated>>
        /\ \A d \in Downlinks : status'[d] = "reserved" => status[d] = "reserved"
    BY <1>9 DEF Confirm, Return, Move, TypeOK
  <2>2. <<job[w], try[w]>> \in radiated
    BY <1>9 DEF Confirm, AliveInv
  <2>3. \A d \in Downlinks : Working(w, d) /\ try[w] = attempts[d] => Safe(d)
    BY <2>1, <2>2 DEF Working
  <2>4. \A d \in Downlinks : status'[d] = "reserved" => Safe(d)
    BY <1>1, <2>1, <2>3
  <2>5. Recorded BY <2>1 DEF AliveInv
  <2> QED BY <2>4, <2>5 DEF AliveInv, ReservationAlive
<1>10. CASE Release(w)
  <2>1. /\ \A v \in Dispatchers \ {w} : pc'[v] = pc[v] /\ job'[v] = job[v] /\ try'[v] = try[v]
        /\ pc'[w] \in {"idle", "giveback"} /\ UNCHANGED radiated
    BY <1>10 DEF Release, Unfilled, Step, Return, TypeOK
  <2>2. \A d \in ReleaseTarget(job[w]) : status'[d] = "pending"
    BY <1>10 DEF Release, Move, ReleaseTarget
  <2>3. \A d \in Downlinks \ ReleaseTarget(job[w]) :
          status'[d] = status[d] /\ attempts'[d] = attempts[d]
    BY <1>10 DEF Release, Move
  <2>4. job[w] \in Downlinks => job[w] \in ReleaseTarget(job[w])
    <3> SUFFICES ASSUME job[w] \in Downlinks PROVE job[w] \in ReleaseTarget(job[w])
      OBVIOUS
    <3>1. RowID[job[w]] <= QueueIDThreshold /\ RowID[job[w]] \in Nat /\ QueueIDThreshold \in Nat
      BY IdAssumption
    <3> QED BY <3>1 DEF ReleaseTarget
  <2>5. ASSUME NEW d \in Downlinks, status'[d] = "reserved" PROVE Safe(d)
    <3>1. d \notin ReleaseTarget(job[w]) BY <2>2, <2>5
    <3>2. status[d] = "reserved" /\ attempts'[d] = attempts[d] /\ ~Working(w, d)
      BY <2>3, <2>4, <2>5, <3>1 DEF Working
    <3> QED BY <2>1, <3>2 DEF AliveInv, ReservationAlive, Working
  <2>6. Recorded BY <2>1 DEF AliveInv
  <2> QED BY <2>5, <2>6 DEF AliveInv, ReservationAlive
<1> QED
  BY <1>3, <1>4, <1>5, <1>6, <1>7, <1>8, <1>9, <1>10
     DEF Dispatch, ConfirmFails, ReleaseFails, GiveBackFails

\* Every step but a crash or a failed statement keeps reservations alive.
LEMMA NextAlive ==
  ASSUME ~MayCrash, ~DBMayFail, \A d \in Downlinks : RowID[d] <= QueueIDThreshold,
         TypeOK, AliveInv, [Next]_vars
  PROVE  AliveInv'
<1> USE DEF rowVars
<1> DEFINE NoneReserved ==
             \A d \in Downlinks :
               status'[d] = "reserved" => status[d] = "reserved" /\ attempts'[d] = attempts[d]
<1>0. ASSUME NEW D, NEW to, to # "reserved", Move(D, to), UNCHANGED attempts PROVE NoneReserved
  BY <1>0 DEF Move
<1>1. ASSUME NEW D, ReturnToQueue(D) PROVE NoneReserved
  BY <1>1 DEF ReturnToQueue, Move
<1>2. ASSUME NEW D, EndExpired(D) PROVE NoneReserved
  BY <1>2 DEF EndExpired, Move
<1>3. ASSUME UNCHANGED <<windowVars, dispatchVars>>, NoneReserved PROVE AliveInv'
  BY <1>3, AliveFrame
<1>4. CASE UNCHANGED vars
  BY <1>3, <1>4 DEF vars
<1>5. ASSUME NEW d \in Downlinks, Originator(d) PROVE AliveInv'
  BY <1>0, <1>3, <1>5 DEF Originator, Enqueue, Elapse, RevokeInQueue
<1>6. ASSUME NEW s \in Stations, NEW d \in Downlinks, Answer(s, d) PROVE AliveInv'
  <2>0. \A r \in Results : resultQueueStatuses[r] # "reserved"
    BY DEF Results, resultQueueStatuses
  <2>1. CASE QueueAck(s, d)
    BY <1>0, <1>3, <2>1 DEF QueueAck
  <2>2. CASE QueueError(s, d)
    BY <1>0, <1>3, <2>2 DEF QueueError
  <2>3. ASSUME NEW r \in Results, DLDataResult(s, d, r) PROVE AliveInv'
    BY <1>0, <1>3, <2>0, <2>3 DEF DLDataResult
  <2>4. CASE SentAfterExpiry(s, d) \/ NotRevoking(s, d)
    BY <1>3, <2>4 DEF SentAfterExpiry, NotRevoking
  <2>5. CASE ExpireRevoked(s, d)
    BY <1>2, <1>3, <2>5 DEF ExpireRevoked
  <2>6. CASE RevokeAtStation(s, d)
    BY <1>0, <1>3, <2>6 DEF RevokeAtStation
  <2> QED BY <1>6, <2>1, <2>2, <2>3, <2>4, <2>5, <2>6 DEF Answer
<1>7. ASSUME NEW s \in Stations, Reclaim(s) PROVE AliveInv'
  BY <1>1, <1>2, <1>3, <1>7 DEF Reclaim, ReclaimReservations, ReclaimEndpointQueue,
     ReclaimDiscardedQueue, ExpireStationRevocations
<1>8. ASSUME NEW s \in Stations, Removal(s) PROVE AliveInv'
  BY <1>2, <1>3, <1>8 DEF Removal, DeleteStation, RegisterStation, EndDeletedStationDownlinks,
     EndDeletedFails
<1>9. CASE SweepOnce
  BY <1>0, <1>2, <1>3, <1>9
     DEF SweepOnce, ExpireOverdueUnheld, ExpireHeldAtRemovedStations, RevokeOverdueHeld
<1>10. ASSUME NEW p \in inFlight, Tell(p[1], p[2]) PROVE AliveInv'
  BY <1>3, <1>10 DEF Tell
<1> QED
  BY <1>4, <1>5, <1>6, <1>7, <1>8, <1>9, <1>10, DispatchAlive DEF Next, Crash

\* While the process lives, its statements succeed and no row's id has passed
\* queueIDThreshold, no reservation is stranded (dispatchReserved).
THEOREM ReservationsAlive ==
  ASSUME ~MayCrash, ~DBMayFail, \A d \in Downlinks : RowID[d] <= QueueIDThreshold
  PROVE  Spec => []ReservationAlive
<1>1. Init => AliveInv
  BY DEF Init, AliveInv, ReservationAlive
<1>2. TypeOK /\ AliveInv /\ [Next]_vars => AliveInv'
  BY NextAlive
<1>3. AliveInv => ReservationAlive
  BY DEF AliveInv
<1> QED BY <1>1, <1>2, <1>3, TypeCorrect, PTL DEF Spec
=============================================================================
