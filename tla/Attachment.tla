---------------------------- MODULE Attachment -----------------------------
(***************************************************************************)
(* One end point's attachment at the service center: the att and det       *)
(* telegrams the stations report, the gRPC calls that attach and detach    *)
(* it, the decider that records and announces each decision, and the       *)
(* propagation of decisions to the stations - at once to the connected     *)
(* ones, on connect to the others.                                         *)
(*                                                                         *)
(* Handlers run on the reader of their connection, propagations in         *)
(* goroutines of their own; steps are single statements, transactions and  *)
(* frames.  A network session key is named by the att telegram it is       *)
(* derived from; PreShared is the key the end point was provisioned with.  *)
(* Of time only one comparison matters: whether the attachment was changed *)
(* or restated after a moment of a station's session row.                  *)
(***************************************************************************)
EXTENDS Integers, Sequences, SequencesExt, FiniteSets

CONSTANTS
  Stations,
  Telegrams,     \* the att telegrams, in the order the end point sends them
  AttachCnt,     \* the attach counter each carries
  RolloverHigh, RolloverLow,
  Before,        \* the telegram the end point is attached under at first, PreShared for a new one
  Jobs,          \* bound: calls and propagations under way at a time
  MaxInputs,     \* bound: telegrams reported and gRPC calls
  MaxMishaps,    \* bound: connections lost, steps that fail, deaths of the process
  NoStation

PreShared == 0
Detach    == -1
Keys      == Telegrams \cup {PreShared}

\* What a frame makes its station hold: the end point under a key, or nothing.
Contents == Keys \cup {Detach}

ASSUME AttachmentAssumption ==
  /\ Telegrams \subseteq Nat \ {0}
  /\ AttachCnt \in [Telegrams -> Nat]
  /\ Before \in Keys
  /\ {RolloverHigh, RolloverLow, MaxInputs, MaxMishaps} \subseteq Nat
  /\ RolloverLow <= RolloverHigh
  /\ NoStation \notin Stations

VARIABLES
  ep,         \* the row of endpoints: ep_status, and the telegram of nonce, sign and attach_cnt
  sessionKey, \* session_key of the active endpoint session
  hear,       \* per station: the over-the-air operation open with it
  link,       \* per station: its connection
  lastOp,     \* per station: the newest operation id of its session (ids count up here)
  journal,    \* per station: the pending propagations of its session row, oldest first
  offer,      \* per station: the propagations its connect loaded for reissue
  resumed,    \* per station: its connection resumed a session and is not yet reconciled
  newer,      \* per station: attachment_changed_at is after the row's last write
  missed,     \* per station: attachment_changed_at is after the DisconnectedAt it resumed with
  jobs,       \* calls and propagations under way
  wire,       \* per station: the frames on their way to it
  holds,      \* per station: what the station holds
  aired,      \* the newest att telegram the end point has sent
  inputs, mishaps, \* count against the bounds
  served,     \* ghost: how often each telegram was served
  fellBack,   \* ghost: a telegram older than the newest accepted was served
  undecided,  \* ghost: the last telegram served awaits its decision
  overtaken,  \* ghost: as the last attach was served, a propagation had begun to read its key
  owed,       \* ghost: per station, no propagation on record carries the decision in force
  stale,      \* ghost: per station, the newest frame was not the decision in force or not on record
  lapsed      \* ghost: per station, a propagation owed to it was given up

epVars    == <<ep, sessionKey>>
linkVars  == <<link, lastOp, journal, offer, resumed, newer, missed>>
airVars   == <<wire, holds>>
bounds    == <<aired, inputs, mishaps>>
keyGhosts == <<served, fellBack, undecided, overtaken>>
prpGhosts == <<owed, stale, lapsed>>
vars == <<epVars, hear, linkVars, jobs, airVars, bounds, keyGhosts, prpGhosts>>

\* A propagation that has begun to read its key and not yet stored it everywhere.
HasKey(r) ==
  /\ r.what # Detach
  /\ r.pc \in IF r.kind = "attach" THEN {"sign", "snapshot", "begin", "frame"}
             ELSE {"sign", "begin"}

Quiet == [pc |-> "idle", what |-> Detach]
Idle  == [pc |-> "idle", kind |-> "none", targets |-> {}, todo |-> <<>>, cur |-> NoStation,
          what |-> Detach, op |-> 0, sess |-> "here"]

\* The end point is new, or attached under Before at every station.
Init ==
  /\ ep = [status |-> IF Before = PreShared THEN "detached" ELSE "attached", sign |-> Before]
  /\ sessionKey = ep.sign
  /\ aired = ep.sign
  /\ served = [a \in Telegrams |-> IF a = ep.sign THEN 1 ELSE 0]
  /\ holds = [s \in Stations |-> IF ep.status = "attached" THEN ep.sign ELSE Detach]
  /\ hear = [s \in Stations |-> Quiet]
  /\ link = [s \in Stations |-> "live"]
  /\ lastOp = [s \in Stations |-> 0]
  /\ journal = [s \in Stations |-> <<>>]
  /\ offer = [s \in Stations |-> <<>>]
  /\ resumed = [s \in Stations |-> FALSE]
  /\ newer = [s \in Stations |-> FALSE]
  /\ missed = [s \in Stations |-> FALSE]
  /\ jobs = [j \in Jobs |-> Idle]
  /\ wire = [s \in Stations |-> <<>>]
  /\ inputs = 0 /\ mishaps = 0
  /\ fellBack = FALSE /\ undecided = FALSE /\ overtaken = FALSE
  /\ owed = [s \in Stations |-> FALSE]
  /\ stale = [s \in Stations |-> FALSE]
  /\ lapsed = [s \in Stations |-> FALSE]

-----------------------------------------------------------------------------
(* The decision in force and the frames that carry it.                     *)

\* The frames: the answer to a station's operation, and a propagation with the
\* record p of its operation.
Response(c)  == [kind |-> "rsp", op |-> 0, what |-> c]
Propagate(p) == [kind |-> "prp", op |-> p.op, what |-> p.what]

\* The pending record of a frame's, or of a goroutine's, operation.
RecordOf(f) == [op |-> f.op, what |-> f.what]

\* Whether p is pending on the session of s.
Pending(s, p) == p \in ToSet(journal[s])

\* What every station is to hold of an end point in the state e.
InForce(e) == IF e.status = "attached" THEN e.sign ELSE Detach

\* Something is asked of the service center, and something goes wrong.
Input  == inputs < MaxInputs /\ inputs' = inputs + 1
Mishap == mishaps < MaxMishaps /\ mishaps' = mishaps + 1

\* A session a service-center operation may be sent to: published and
\* HandshakeComplete (handshakeCompleteSessionIDs, ConnectedSessionsSnapshot).
Sendable == {s \in Stations : link[s] \in {"reissuing", "live", "broken"}}

\* The reader of s takes the station's messages.
Reads(s) == link[s] = "live"

\* A decision is recorded: rec[s] says whether station s is now owed it.
Stamped(rec) ==
  /\ newer'  = [s \in Stations |-> TRUE]
  /\ missed' = resumed
  /\ owed'   = rec

Free == {j \in Jobs : jobs[j].pc = "idle"}

\* One more goroutine.
Started(j, r) == j \in Free /\ jobs' = [jobs EXCEPT ![j] = r]

-----------------------------------------------------------------------------
(* Over-the-air attach.                                                    *)

\* AttachCounterAdvances against OverTheAirAttachCounter: nothing binds an
\* end point without a recorded signature.
AttachCounterAdvances(e, a) ==
  \/ e.sign = PreShared
  \/ (AttachCnt[e.sign] > RolloverHigh /\ AttachCnt[a] < RolloverLow)
  \/ AttachCnt[a] > AttachCnt[e.sign]

\* handleAttach up to the transaction: the operation is recorded, the counter
\* compared with the end point read at the start.  A station reissues an att
\* whose attRsp it did not get.
Attach(s, a) ==
  /\ Reads(s)
  /\ \/ hear[s].pc = "idle" /\ Input /\ a <= aired + 1
     \/ hear[s].pc = "lost" /\ hear[s].what = a /\ UNCHANGED inputs
  /\ aired' = IF a > aired THEN a ELSE aired
  /\ hear' = [hear EXCEPT ![s] = IF AttachCounterAdvances(ep, a)
                                 THEN [pc |-> "checked", what |-> a] ELSE Quiet]
  /\ UNCHANGED <<mishaps, epVars, linkVars, jobs, airVars, keyGhosts, prpGhosts>>

\* Faulty: the check at the start is the only one.
AdvancesUnchecked(e, a) == TRUE

\* attachEndpoint's check under the row lock (LockAttachCounter).
StillAdvances(e, a) == AttachCounterAdvances(e, a)

\* PersistAttachSession, and attRsp with the derived key: nonce, signature and
\* counter of the end point and the key of its session change together.
Serve(s) ==
  LET a == hear[s].what IN
  /\ hear[s].pc = "checked"
  /\ IF StillAdvances(ep, a)
     THEN /\ ep' = [ep EXCEPT !.sign = a]
          /\ sessionKey' = a
          /\ hear' = [hear EXCEPT ![s].pc = IF link[s] = "live" THEN "open" ELSE "lost"]
          /\ wire' = IF link[s] = "live" THEN [wire EXCEPT ![s] = Append(@, Response(a))] ELSE wire
          /\ stale' = [stale EXCEPT ![s] = a # InForce(ep')]
          /\ UNCHANGED lapsed
          /\ served' = [served EXCEPT ![a] = @ + 1]
          /\ fellBack' = (fellBack \/ a < ep.sign)
          /\ undecided' = TRUE
          /\ overtaken' = \E j \in Jobs : HasKey(jobs[j])
     ELSE /\ hear' = [hear EXCEPT ![s] = Quiet]
          /\ UNCHANGED <<epVars, wire, stale, lapsed, keyGhosts>>
  /\ UNCHANGED <<linkVars, jobs, holds, bounds, owed>>

\* The transaction fails; the station is answered with the error.
ServeFails(s) ==
  /\ hear[s].pc = "checked" /\ Mishap
  /\ hear' = [hear EXCEPT ![s] = Quiet]
  /\ UNCHANGED <<epVars, linkVars, jobs, airVars, aired, inputs, keyGhosts, prpGhosts>>

\* Faulty: an end point that stays attached keeps its time.
StampedOnChange == IF ep.status = "attached"
                   THEN UNCHANGED <<newer, missed>> /\ owed' = [s \in Stations |-> TRUE]
                   ELSE Stamped([s \in Stations |-> TRUE])

\* RestateEndpointStatus: the time is recorded even when the status stays.
Restated == Stamped([s \in Stations |-> TRUE])

\* handleAttachComplete: the pending operation is cleared and the attachment
\* decided; TriggerEndpointPropagate starts whether or not that was recorded.
AttachComplete(s, j) ==
  /\ Reads(s) /\ hear[s].pc = "answered" /\ hear[s].what # Detach
  /\ hear' = [hear EXCEPT ![s] = Quiet]
  /\ Started(j, [Idle EXCEPT !.pc = "snapshot", !.kind = "trigger"])
  /\ \/ /\ ep' = [ep EXCEPT !.status = "attached"]
        /\ Restated
        /\ undecided' = FALSE
        /\ UNCHANGED mishaps
     \/ /\ Mishap
        /\ UNCHANGED <<ep, newer, missed, owed, undecided>>
  /\ UNCHANGED <<sessionKey, link, lastOp, journal, offer, resumed, airVars, aired, inputs,
                 served, fellBack, overtaken, stale, lapsed>>

-----------------------------------------------------------------------------
(* Over-the-air detach.  With no construction of its signature defined, a  *)
(* well-formed det is taken, whatever counter it carries.                  *)

\* handleDetach: the operation is recorded and answered.
DetachReported(s) ==
  /\ Reads(s)
  /\ \/ hear[s].pc = "idle" /\ Input
     \/ hear[s].pc = "lost" /\ hear[s].what = Detach /\ UNCHANGED inputs
  /\ hear' = [hear EXCEPT ![s] = [pc |-> "open", what |-> Detach]]
  /\ wire' = [wire EXCEPT ![s] = Append(@, Response(Detach))]
  /\ stale' = [stale EXCEPT ![s] = InForce(ep) # Detach]
  /\ UNCHANGED <<mishaps, epVars, linkVars, jobs, holds, aired, keyGhosts, owed, lapsed>>

\* The newest frame on its way to s, a propagation on record, or what s holds
\* leaves it nothing.
LeftWithout(s) ==
  IF wire[s] = <<>> THEN holds[s] = Detach
  ELSE Last(wire[s]).what = Detach /\ Pending(s, RecordOf(Last(wire[s])))

\* DetachEndpoint for a completed det or a call: TransitionEndpointStatus matches
\* the row, and times the detachment, only while the status differs.
Detached(reporter) ==
  /\ ep' = [ep EXCEPT !.status = "detached"]
  /\ IF ep.status = "attached"
     THEN /\ Stamped([s \in Stations |-> s # reporter])
          /\ stale' = [s \in Stations |-> IF s = reporter THEN ~LeftWithout(s) ELSE stale[s]]
     ELSE UNCHANGED <<newer, missed, owed, stale>>

\* handleDetachComplete: the station that heard the det has dropped the end
\* point, so the others are told, and only by the completion that detached.
DetachComplete(s, j) ==
  /\ Reads(s) /\ hear[s].pc = "answered" /\ hear[s].what = Detach
  /\ hear' = [hear EXCEPT ![s] = Quiet]
  /\ \/ /\ Detached(s)
        /\ IF ep.status = "attached"
           THEN Started(j, [Idle EXCEPT !.pc = "snapshot", !.kind = "otaDetach", !.cur = s])
           ELSE UNCHANGED jobs
        /\ UNCHANGED mishaps
     \/ /\ Mishap
        /\ UNCHANGED <<ep, newer, missed, owed, stale, jobs>>
  /\ UNCHANGED <<sessionKey, link, lastOp, journal, offer, resumed, airVars, aired, inputs,
                 keyGhosts, lapsed>>

-----------------------------------------------------------------------------
(* The gRPC calls.                                                         *)

\* AttachEndPoint: decided, then propagated in the background.
AttachEndPoint(j) ==
  /\ Input
  /\ ep' = [ep EXCEPT !.status = "attached"]
  /\ Restated
  /\ undecided' = FALSE
  /\ Started(j, [Idle EXCEPT !.pc = "key", !.kind = "attach"])
  /\ UNCHANGED <<sessionKey, hear, link, lastOp, journal, offer, resumed, airVars, aired, mishaps,
                 served, fellBack, overtaken, stale, lapsed>>

\* DetachEndPoint: the stations are told whether or not the status changed.
DetachEndPoint(j) ==
  /\ Input
  /\ Detached(NoStation)
  /\ Started(j, [Idle EXCEPT !.pc = "snapshot", !.kind = "detach"])
  /\ UNCHANGED <<sessionKey, hear, link, lastOp, journal, offer, resumed, airVars, aired, mishaps,
                 keyGhosts, lapsed>>

-----------------------------------------------------------------------------
(* The propagations.  "attach" (SendAttachPropagateToAll) reads the key    *)
(* once and then the sessions; "trigger" (TriggerEndpointPropagate) reads  *)
(* the sessions, then the key for each; "detach" and "otaDetach" carry no  *)
(* key; "reconcile" serves the one station that connected.                 *)

Job(j, r) == jobs' = [jobs EXCEPT ![j] = r]

\* Faulty: the pre-shared key.
ProvisionedKey(k) == PreShared

\* The session key k while it is the one the recorded nonce and signature
\* derive, otherwise the pre-shared key.
CurrentNetworkSessionKey(k) == IF k = ep.sign THEN ep.sign ELSE PreShared

\* NetworkSessionKey, for all targets or for the one at hand, reads the active
\* session's key ...
ReadSession(j) ==
  /\ jobs[j].pc = "key"
  /\ Job(j, [jobs[j] EXCEPT !.what = sessionKey, !.pc = "sign"])
  /\ UNCHANGED <<epVars, hear, linkVars, airVars, bounds, keyGhosts, prpGhosts>>

\* ... and then, with no transaction around the two, nonce and signature.
ReadKey(j) ==
  /\ jobs[j].pc = "sign"
  /\ Job(j, [jobs[j] EXCEPT !.what = CurrentNetworkSessionKey(@),
                            !.pc = IF jobs[j].kind = "attach" THEN "snapshot" ELSE "begin"])
  /\ UNCHANGED <<epVars, hear, linkVars, airVars, bounds, keyGhosts, prpGhosts>>

\* The records a propagation may go on with: the next session of the fan-out, in
\* any order, or the next send of a reconciliation, the attPrp before the detPrp
\* (sendEach), until none is left.
Onward(r) ==
  IF r.kind = "reconcile"
  THEN {IF r.todo = <<>> THEN Idle ELSE [r EXCEPT !.pc = Head(r.todo), !.todo = Tail(@),
                                                   !.what = Detach, !.op = 0]}
  ELSE IF r.targets = {} THEN {Idle}
  ELSE {[r EXCEPT !.pc = IF r.kind = "trigger" THEN "key" ELSE "begin",
                  !.cur = s, !.sess = "here", !.targets = @ \ {s},
                  !.what = IF r.kind = "trigger" THEN Detach ELSE @, !.op = 0] : s \in r.targets}

\* The sessions connected now, but for the one that reported a det; one that its
\* station has opened since is another.
Reached(r) == {s \in Sendable : r.cur # s \/ r.sess # "here"}

Snapshot(j) ==
  /\ jobs[j].pc = "snapshot"
  /\ \E r \in Onward([jobs[j] EXCEPT !.targets = Reached(jobs[j])]) : Job(j, r)
  /\ UNCHANGED <<epVars, hear, linkVars, airVars, bounds, keyGhosts, prpGhosts>>

\* attachmentsToSend: all attached to a new session, to a resumed one those
\* attached or restated since its connection was lost.
AttachmentToSend(s) == ep.status = "attached" /\ (resumed[s] => missed[s])

\* detachedWhileAway.
DetachedWhileAway(s) == resumed[s] /\ ep.status = "detached" /\ missed[s]

\* ReconcileBaseStation reads the attached end points, then the detached ones,
\* and sends afterwards.  It goes by its own connection; what it reads once that
\* is gone does not matter, as it sends nothing any more.
ReadAttached(j) ==
  /\ jobs[j].pc = "attached"
  /\ Job(j, [jobs[j] EXCEPT !.pc = "missed", !.todo = IF AttachmentToSend(jobs[j].cur) THEN <<"key">> ELSE <<>>])
  /\ UNCHANGED <<epVars, hear, linkVars, airVars, bounds, keyGhosts, prpGhosts>>

ReadDetached(j) ==
  /\ jobs[j].pc = "missed"
  /\ \E r \in Onward([jobs[j] EXCEPT !.todo = IF DetachedWhileAway(jobs[j].cur) THEN @ \o <<"begin">> ELSE @]) :
       Job(j, r)
  /\ IF jobs[j].sess = "here"
     THEN /\ resumed' = [resumed EXCEPT ![jobs[j].cur] = FALSE]
          /\ missed' = [missed EXCEPT ![jobs[j].cur] = FALSE]
     ELSE UNCHANGED <<resumed, missed>>
  /\ UNCHANGED <<epVars, hear, link, lastOp, journal, offer, newer, airVars, bounds, keyGhosts, prpGhosts>>

\* SendAttachPropagate and SendDetachPropagate up to the frame: the session is
\* looked up again, the operation recorded under a new id, which touches the session's row, and
\* the key that was read stored as the end point's (PersistAttachPropagateSession);
\* when that fails the record stays for the next resume.
Begin(j) ==
  LET s == jobs[j].cur  c == jobs[j].what IN
  /\ jobs[j].pc = "begin"
  /\ IF jobs[j].sess # "here"
     THEN /\ \E r \in Onward(jobs[j]) : Job(j, r)
          /\ UNCHANGED <<sessionKey, newer, lastOp, journal, owed, mishaps, lapsed>>
     ELSE /\ \/ /\ Job(j, [jobs[j] EXCEPT !.pc = "frame", !.op = lastOp[s] + 1])
                /\ sessionKey' = IF c = Detach THEN sessionKey ELSE c
                /\ UNCHANGED <<mishaps, lapsed>>
             \/ /\ c # Detach /\ Mishap
                /\ \E r \in Onward(jobs[j]) : Job(j, r)
                /\ lapsed' = [lapsed EXCEPT ![s] = TRUE]
                /\ UNCHANGED sessionKey
          /\ newer' = [newer EXCEPT ![s] = FALSE]
          /\ lastOp' = [lastOp EXCEPT ![s] = @ + 1]
          /\ journal' = [journal EXCEPT ![s] = Append(@, [op |-> lastOp[s] + 1, what |-> c])]
          /\ owed' = [owed EXCEPT ![s] = @ /\ c # InForce(ep)]
  /\ UNCHANGED <<ep, hear, link, offer, resumed, missed, airVars, aired, inputs, keyGhosts, stale>>

\* The pending record p of s is removed, if it is there.
Settled(s, p) == [journal EXCEPT ![s] = RemoveFirst(@, p)]

\* The frame: a write to a connection closed meanwhile is a definite failure
\* and takes the record back, any other failure leaves it to the next resume.
Frame(j) ==
  LET s == jobs[j].cur  c == jobs[j].what IN
  /\ jobs[j].pc = "frame"
  /\ \E r \in Onward(jobs[j]) : Job(j, r)
  /\ IF jobs[j].sess # "here"
     THEN /\ journal' = IF jobs[j].sess = "gone" THEN Settled(s, RecordOf(jobs[j])) ELSE journal
          /\ lapsed' = [lapsed EXCEPT ![s] = @ \/ (jobs[j].sess = "gone" /\ c = InForce(ep))]
          /\ UNCHANGED <<wire, stale>>
     ELSE /\ wire' = IF link[s] = "broken" THEN wire
                     ELSE [wire EXCEPT ![s] = Append(@, Propagate(RecordOf(jobs[j])))]
          /\ stale' = [stale EXCEPT ![s] = c # InForce(ep)]
          /\ lapsed' = [lapsed EXCEPT ![s] = @ /\ c # InForce(ep)]
          /\ UNCHANGED journal
  /\ UNCHANGED <<epVars, hear, link, lastOp, offer, resumed, newer, missed, holds, bounds, keyGhosts, owed>>

\* A failing read or statement before the record is logged and the send given up;
\* with the end point TriggerEndpointPropagate reads first, all of them.
SendFails(j) ==
  /\ Mishap
  /\ \/ jobs[j].pc \in {"attached", "missed", "key", "sign", "begin"}
     \/ jobs[j].pc = "snapshot" /\ jobs[j].kind = "trigger"
  /\ \E r \in IF jobs[j].pc \in {"attached", "missed", "snapshot"} THEN {Idle} ELSE Onward(jobs[j]) : Job(j, r)
  /\ lapsed' = [s \in Stations |-> lapsed[s] \/ jobs[j].cur \in {s, NoStation}]
  /\ UNCHANGED <<epVars, hear, linkVars, airVars, aired, inputs, keyGhosts, owed, stale>>

-----------------------------------------------------------------------------
(* The stations and their connections.                                     *)

\* What the station holds after the first n frames on their way to it.
After(s, n) == IF n = 0 THEN holds[s] ELSE wire[s][n].what

\* Whether an answer to its own operation is among them.
Answered(s, n) == \E i \in 1..n : wire[s][i].kind = "rsp"

\* The station takes a frame and answers: the answer to a propagation is
\* completed and its record removed, one to the station's own operation is
\* followed by its complete message.
Deliver(s) ==
  /\ link[s] = "live" /\ wire[s] # <<>>
  /\ wire' = [wire EXCEPT ![s] = Tail(@)]
  /\ holds' = [holds EXCEPT ![s] = Head(wire[s]).what]
  /\ IF Head(wire[s]).kind = "rsp"
     THEN /\ hear' = [hear EXCEPT ![s].pc = "answered"]
          /\ UNCHANGED journal
     ELSE /\ journal' = Settled(s, RecordOf(Head(wire[s])))
          /\ UNCHANGED hear
  /\ UNCHANGED <<epVars, link, lastOp, offer, resumed, newer, missed, jobs, bounds, keyGhosts, prpGhosts>>

\* handlePropagateResponseFailure: the refused operation stays pending.
Refuse(s) ==
  /\ Mishap /\ link[s] = "live" /\ wire[s] # <<>> /\ Head(wire[s]).kind = "prp"
  /\ wire' = [wire EXCEPT ![s] = Tail(@)]
  /\ lapsed' = [lapsed EXCEPT ![s] = TRUE]
  /\ UNCHANGED <<epVars, hear, linkVars, jobs, holds, aired, inputs, keyGhosts, owed, stale>>

\* Faulty: the station goes on waiting for an answer that is lost.
StillOpen(s, n, dead) == hear[s]

\* What the station's operation becomes when n more frames reach it, and the
\* process dies or not.
Interrupted(s, n, dead) ==
  IF hear[s].pc = "checked" /\ dead THEN [hear[s] EXCEPT !.pc = "lost"]
  ELSE IF hear[s].pc = "open" THEN [hear[s] EXCEPT !.pc = IF Answered(s, n) THEN "answered" ELSE "lost"]
  ELSE hear[s]

\* The connection breaks: the frames the station has not read are lost.
Break(s) ==
  /\ Mishap /\ link[s] \in {"reissuing", "live"}
  /\ link' = [link EXCEPT ![s] = "broken"]
  /\ \E n \in 0..Len(wire[s]) :
       /\ holds' = [holds EXCEPT ![s] = After(s, n)]
       /\ hear' = [hear EXCEPT ![s] = Interrupted(s, n, FALSE)]
  /\ wire' = [wire EXCEPT ![s] = <<>>]
  /\ UNCHANGED <<epVars, lastOp, journal, offer, resumed, newer, missed, jobs, aired, inputs,
                 keyGhosts, prpGhosts>>

\* The teardown takes the session out of the registry once its reader is done:
\* later lookups of it fail, writes find the connection closed.
Unregister(s) ==
  /\ link[s] = "broken" /\ hear[s].pc # "checked"
  /\ link' = [link EXCEPT ![s] = "removed"]
  /\ jobs' = [j \in Jobs |-> [jobs[j] EXCEPT !.targets = @ \ {s},
                                             !.sess = IF jobs[j].cur = s /\ @ = "here" THEN "gone" ELSE @]]
  /\ UNCHANGED <<epVars, hear, lastOp, journal, offer, resumed, newer, missed, airVars, bounds, keyGhosts, prpGhosts>>

\* MarkDisconnected: ended_at is the time of this statement.  It may fail, and the
\* station may have started afresh: then its next session is a new one.
MarkDisconnected(s) ==
  /\ link[s] = "removed"
  /\ \/ /\ link' = [link EXCEPT ![s] = "down"]
        /\ newer' = [newer EXCEPT ![s] = FALSE]
        /\ lapsed' = [lapsed EXCEPT ![s] = @ \/ owed[s]]
     \/ /\ link' = [link EXCEPT ![s] = "unresumable"]
        /\ UNCHANGED <<newer, lapsed>>
  /\ UNCHANGED <<epVars, hear, lastOp, journal, offer, resumed, missed, jobs, airVars, bounds, keyGhosts, owed, stale>>

\* handleConnect: a resume is offered with what is pending and the moment its
\* connection was lost, or a new session is started.
Connect(s) ==
  /\ link[s] \in {"down", "unresumable"}
  /\ link' = [link EXCEPT ![s] = "offered"]
  /\ \/ /\ link[s] = "down"
        /\ resumed' = [resumed EXCEPT ![s] = TRUE]
        /\ offer' = [offer EXCEPT ![s] = journal[s]]
        /\ missed' = [missed EXCEPT ![s] = newer[s]]
     \/ /\ link[s] = "unresumable"
        /\ resumed' = [resumed EXCEPT ![s] = FALSE]
        /\ offer' = [offer EXCEPT ![s] = <<>>]
        /\ missed' = [missed EXCEPT ![s] = FALSE]
  /\ UNCHANGED <<epVars, hear, lastOp, journal, newer, jobs, airVars, bounds, keyGhosts, prpGhosts>>

\* handleConnectComplete up to completeHandshake: the row is claimed and the
\* session takes operations.  A new session's station holds nothing.
Activate(s) ==
  /\ link[s] = "offered"
  /\ link' = [link EXCEPT ![s] = "reissuing"]
  /\ newer' = [newer EXCEPT ![s] = FALSE]
  /\ IF resumed[s]
     THEN UNCHANGED <<lastOp, journal, holds, hear, jobs, prpGhosts>>
     ELSE /\ lastOp' = [lastOp EXCEPT ![s] = 0]
          /\ journal' = [journal EXCEPT ![s] = <<>>]
          /\ holds' = [holds EXCEPT ![s] = Detach]
          /\ hear' = [hear EXCEPT ![s] = Quiet]
          /\ jobs' = [j \in Jobs |-> [jobs[j] EXCEPT !.sess = IF jobs[j].cur = s THEN "ended" ELSE @]]
          /\ owed' = [owed EXCEPT ![s] = InForce(ep) # Detach]
          /\ stale' = [stale EXCEPT ![s] = FALSE]
          /\ lapsed' = [lapsed EXCEPT ![s] = FALSE]
  /\ UNCHANGED <<epVars, offer, resumed, missed, wire, bounds, keyGhosts>>

\* reissueResumedOperations, then settleConnectedStation in a goroutine.
Reissue(s, j) ==
  /\ link[s] = "reissuing"
  /\ link' = [link EXCEPT ![s] = "live"]
  /\ wire' = [wire EXCEPT ![s] = @ \o [i \in DOMAIN offer[s] |-> Propagate(offer[s][i])]]
  /\ stale' = IF offer[s] = <<>> THEN stale
              ELSE [stale EXCEPT ![s] = ~(Last(offer[s]).what = InForce(ep) /\ Pending(s, Last(offer[s])))]
  /\ offer' = [offer EXCEPT ![s] = <<>>]
  /\ Started(j, [Idle EXCEPT !.pc = "attached", !.kind = "reconcile", !.cur = s])
  /\ UNCHANGED <<epVars, hear, lastOp, journal, resumed, newer, missed, holds, bounds, keyGhosts, owed, lapsed>>

\* The process dies and starts again: sessions left active are handed back
\* with ended_at = updated_at (DisconnectAbandonedSessions), a time any message or
\* ping of the station may have moved past the last decision.
Crash ==
  LET up == {s \in Stations : link[s] \notin {"down", "unresumable"}} IN
  /\ Mishap
  /\ link' = [s \in Stations |-> IF s \in up THEN "down" ELSE link[s]]
  /\ \E n \in [Stations -> 0..Max({Len(wire[s]) : s \in Stations})] :
       /\ \A s \in Stations : n[s] <= Len(wire[s])
       /\ holds' = [s \in Stations |-> After(s, n[s])]
       /\ hear' = [s \in Stations |-> Interrupted(s, n[s], TRUE)]
  /\ wire' = [s \in Stations |-> <<>>]
  /\ jobs' = [j \in Jobs |-> Idle]
  /\ offer' = [s \in Stations |-> <<>>]
  /\ \E touched \in SUBSET up :
       /\ newer' = [s \in Stations |-> newer[s] /\ s \notin touched]
       /\ lapsed' = [s \in Stations |-> lapsed[s] \/ (s \in up /\ owed[s] /\ ~newer'[s])]
  /\ UNCHANGED <<epVars, lastOp, journal, resumed, missed, aired, inputs, keyGhosts, owed, stale>>

-----------------------------------------------------------------------------
Next ==
  \/ \E s \in Stations :
       \/ \E a \in Telegrams : Attach(s, a)
       \/ Serve(s) \/ ServeFails(s) \/ DetachReported(s)
       \/ \E j \in Free : AttachComplete(s, j) \/ Reissue(s, j)
       \/ \E j \in Jobs : DetachComplete(s, j)
       \/ Deliver(s) \/ Refuse(s) \/ Break(s) \/ Unregister(s) \/ MarkDisconnected(s)
       \/ Connect(s) \/ Activate(s)
  \/ \E j \in Free : AttachEndPoint(j) \/ DetachEndPoint(j)
  \/ \E j \in Jobs :
       \/ ReadSession(j) \/ ReadKey(j) \/ Snapshot(j)
       \/ ReadAttached(j) \/ ReadDetached(j)
       \/ Begin(j) \/ Frame(j) \/ SendFails(j)
  \/ Crash

Spec == Init /\ [][Next]_vars

-----------------------------------------------------------------------------
(* Properties.                                                             *)

JobType ==
  [pc : {"idle", "key", "sign", "snapshot", "attached", "missed", "begin", "frame"},
   kind : {"none", "attach", "trigger", "detach", "otaDetach", "reconcile"},
   targets : SUBSET Stations, todo : Seq({"key", "begin"}), cur : Stations \cup {NoStation},
   what : Contents, op : Nat, sess : {"here", "gone", "ended"}]

HearType == [pc : {"idle", "checked", "open", "answered", "lost"}, what : Telegrams \cup {Detach}]

RecordType == [op : Nat, what : Contents]

FrameType == [kind : {"prp", "rsp"}, op : Nat, what : Contents]

\* The variables hold what the code can put into them, and an operation a
\* station has open with its answer under way has that answer on the wire.
TypeOK ==
  /\ ep \in [status : {"attached", "detached"}, sign : Keys]
  /\ sessionKey \in Keys
  /\ hear \in [Stations -> HearType]
  /\ link \in [Stations -> {"down", "unresumable", "offered", "reissuing", "live", "broken", "removed"}]
  /\ lastOp \in [Stations -> Nat]
  /\ journal \in [Stations -> Seq(RecordType)] /\ offer \in [Stations -> Seq(RecordType)]
  /\ wire \in [Stations -> Seq(FrameType)]
  /\ holds \in [Stations -> Contents]
  /\ jobs \in [Jobs -> JobType]
  /\ served \in [Telegrams -> Nat]
  /\ \A s \in Stations :
       /\ hear[s].pc = "open" <=> \E i \in DOMAIN wire[s] : wire[s][i].kind = "rsp"
       /\ link[s] \notin {"reissuing", "live"} => wire[s] = <<>>

\* An att telegram heard by several stations, or reported again, is served
\* once: the counter is checked again under the lock of the row.  Only after
\* a rollover can a late copy of an older telegram pass for an advance.
ServedOnce == (\E a \in Telegrams : served[a] > 1) => fellBack

\* The key of the end point's session stays the one its newest accepted attach
\* derived, whatever propagations store what they have read, unless one that
\* had begun to read its key when that attach was accepted was still at work.
KeyKept == ~overtaken => sessionKey = ep.sign

Rest ==
  /\ \A j \in Jobs : jobs[j].pc = "idle"
  /\ \A s \in Stations : wire[s] = <<>> /\ hear[s].pc = "idle"

\* When all work is done, a connected station holds the end point exactly if
\* it is attached, and under its newest key - also a station that was away,
\* connecting or being told something older meanwhile.  Excused are: a station
\* whose newest frame was overtaken by a later decision (stale), and one whose
\* propagation failed or was given up as its connection went (lapsed).
Converged ==
  Rest /\ ~undecided =>
    \A s \in Stations : link[s] = "live" /\ ~stale[s] /\ ~lapsed[s] => holds[s] = InForce(ep)
=============================================================================
