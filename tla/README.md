# Verification of the Kilo service center

The service center connects mioty base stations (protocol BSSCI) with
Application Centers (SCACI), MQTT and a web front end. It takes uplinks in from
stations, delivers them to the organizations that own the endpoints, and queues
downlinks until a station can transmit them. This directory holds TLA+ models of
its core, TLC configurations that check them on small instances, and TLAPS
proofs for instances of any size.

## 1. Inventory

| part | source | state it keeps | operations |
|---|---|---|---|
| Downlink queue | `KC-DB/storage/postgres/downlink_*.go` | one row of `downlink_queue` per downlink: status, holder `bs_eui`, `attempts`, `latest_at`, result | enqueue, reserve, confirm, release, revoke, fail, record a result, expire |
| Dispatcher | `KC-Core/internal/services/bssci/downlink_dispatcher.go`, `message_repository.go` | the window flag of each stored telegram; nothing else across calls | fill the window of a telegram, send one row ahead of any window |
| Station answers | `downlink_service.go`, `downlink_queue_answers.go`, `downlink_revoke_answers.go` | none | dlDataQueRsp, error, dlDataRes, dlDataRevRsp |
| Reclaimer, removal | `downlink_reclaimer.go`, `grpcservices/basestation_service.go` | none | give back what a connecting station does not hold, end what a deleted one held |
| Expiry worker | `KC-Core/internal/workers/downlinkexpiry` | a ticker | sweep overdue rows, ask holders to drop them |
| Reporter | `downlink_result_reporter.go` | background goroutines | tell a downlink's originators its result, once |
| BSSCI server | `KC-Core/pkg/bssci` | live sessions, operation counters, persisted operations | connect, resume, dispatch of messages, reissue, teardown |
| Station presence | `connection_service.go`, `pkg/basestation/connection_manager.go`, `repository_adapter.go` | `is_online`, `session_uuid` of a station's row | register, refresh per frame, clear if current |
| Session persistence | `session_service.go`, `basestation_session_*.go` | session rows, counters, pending operations | resume, persist, disconnect |
| Attachment | `endpoint_attachment_*.go`, `propagation_service.go`, `propagate_*.go` | attach counters, endpoint sessions, propagation rows | attach, detach, propagate to every station |
| Uplink ingest | `uplink_ingest_service.go`, `uplink_store.go` | stored telegrams and their receptions | store once, count receptions, forward |
| SCACI server | `KC-Core/pkg/scaci` | sessions of Application Centers, operation ledger | connect, hand over, replay, queue and revoke downlinks |
| Delivery outbox | `KC-Core/internal/workers/delivery` | outbox rows with leases | claim, deliver, retry, give up |
| Identifier allocator | `KC-Core/internal/services/downlinkid` | none | draw a queue id, retry on collision |
| Federation | `KC-Core/internal/services/federation` | outbox, bootstrap state | bootstrap, forward |
| Identity | `KC-Identity`, `refresh_token_repository.go` | users, tokens, API keys | log in, rotate, revoke |
| Front ends | `KC-Gateway`, `KC-MQTT`, `KC-Web` | none of interest | route, publish, render |

**How they interact.** An uplink stored by the ingest opens a downlink window;
the dispatcher claims it (one telegram, many stations, one window), reserves a
row in PostgreSQL, hands it to the BSSCI server, which persists the operation
before it writes the frame, and confirms the row when the write returned. The
station's answers come back on its connection's goroutine; the expiry worker, a
connecting station's reclaim, the deletion of a station and users' revokes run
on goroutines of their own. They share only the rows: no lock spans two
statements, and every statement defends itself by its WHERE clause.

**What is hard.** (a) Steps of several actors between two statements of one:
the reservation is committed before the network write and acted on after it.
(b) Writes that may or may not have left. (c) Answers that arrive after the row
moved on, or about another holder's row. (d) A process death between any two
steps. (e) Overdue rows that nothing else will ever touch. (f) Identifiers of two
kinds in one parameter, told apart by magnitude. (g) A peer that reconnects while
its old connection is still being torn down, or is served by a goroutine that
looked the old one up. (h) State announced to stations of which some are away,
connecting, or about to leave.

**What makes each part correct.** Queue and dispatcher: at most one downlink per
window; one owner per reservation; nothing reserved is forgotten; a final state
is final. Answers, sweep and removal: exactly one of them ends a row, and its
result is the one reported. Worker: overdue rows end. Sessions: one connection owns
the session row, an operation id is never used for two operations, what may have
left is reissued after a resume, and a station that follows the protocol is not
refused. Presence: a connected station is shown online. Attachment: a telegram is
served once, and every station ends up holding what was last decided. Uplink ingest: the copies of one transmission become one message, those of
two never do. Outbox: every message reaches every configured consumer, a second
time only if the record of the first was lost. SCACI: at-least-once, in order
where promised, one session per Application Center.

## 2. Plan

1. `DownlinkQueue`: the queue with everyone who writes it, against stations that
   may answer anything (done, with `DownlinkQueueProofs` and `DownlinkPromise`).
2. `UplinkDelivery`: the uplink store's duplicate handling with the outbox it
   fills and the worker that drains it (done, with `UplinkDeliveryProofs`).
3. `BssciSession`: connections, resume, displacement, journal, teardown (done,
   with `BssciSessionProofs`).
4. `StationOperations`: the station's own operation ids and the counter flusher
   (done, with `StationOperationsProofs`).
5. `StationPresence`: is_online (done, with `StationPresenceProofs`).
6. `ScaciSession`: handover, holding and replay for an Application Center (done,
   with `ScaciSessionProofs`).
7. `Attachment`: decisions, propagation, reconciliation (done, with
   `AttachmentProofs`).
8. Left: `DownlinkStation`, the queue's actions composed with the sessions of
   honest stations (is a row back in the queue one no station still holds?);
   federation's outbox and bootstrap; the gateway's circuit breaker; queue id
   allocation; refresh-token rotation.

Theorems worth proving next are those of the modules item 8 leaves: every invariant
and every action property that a run checks today is also a theorem (section 11).

## 3. Module `DownlinkQueue`

One action is one SQL statement, atomic in PostgreSQL, with the code around it up
to the next statement or network write. The rows are those of one tenant and
endpoint, so that part of every WHERE clause is true and left out.

| state | code |
|---|---|
| `status`, `bsEui`, `attempts`, `lateSent` | the row's columns (`sent_after_expiry_at` as a set) |
| `overdue` | `latest_at <= now` |
| `issued`, `inFlight`, `told` | results handed to `deliver`, waiting in its goroutine, delivered |
| `claimed` | `messages.dl_window_claimed` |
| `pc`, `job`, `via`, `win` | a dispatcher's position, row, station, telegram |
| `answering` | a revoke answer between its two statements |
| `registered`, `deleting` | rows of `basestations`; a deletion between its two steps |
| `onWire`, `radiated`, `try`, `stale` | ghosts: frames that may have left per window and per attempt; the attempt a dispatcher reserved at; rows struck by a release that was not the releaser's own |

Actions by actor:

* originators: `Enqueue`, `RevokeInQueue`, and the clock's `Elapse`;
* dispatchers: `ClaimWindow` or `ChooseStation`, `Reserve`/`ReserveNothing`,
  `SendSucceeds`/`SendAmbiguous`/`SendFails`, `Confirm`, `Release`,
  `GiveWindowBack`, each statement with its failing twin (`ConfirmFails`,
  `ReleaseFails`, `GiveBackFails`);
* stations: `QueueAck`, `QueueError`, `DLDataResult`, `SentAfterExpiry`, and a
  revoke answer's `ExpireRevoked` or `NotRevoking` then `RevokeAtStation`;
* reconnects: `ReclaimReservations`, `ReclaimDiscardedQueue`,
  `ExpireStationRevocations`, `ReclaimEndpointQueue`;
* deletion: `DeleteStation`, `EndDeletedStationDownlinks`, `RegisterStation`;
* the sweep: `ExpireOverdueUnheld`, `ExpireHeldAtRemovedStations`,
  `RevokeOverdueHeld`, over any subset of the rows that qualify (batch size and
  SKIP LOCKED);
* `Tell`, and `Crash`, which drops every goroutine and keeps the tables.

**Abstractions.** Stations are an adversary: they may answer anything about any
row at any time, connected or not. This allows more than the code's sessions do,
so every safety property that holds here holds there. Priorities and ages order
reservations in the code; here any eligible row may be first. A reservation that
fails or finds the row locked is `ReserveNothing`. The branch of `dispatchReserved`
for a row without an organization cannot be taken (the column is NOT NULL) and is
left out. A failed statement of an answer
or of the sweep changes nothing and is a stutter. `SweepOnce` issues its
statements in a fixed order again and again; each matches only what qualifies, so
the rows see them in any order. The crash between a statement that ends a row and
the report is the crash that empties `inFlight`.

### Properties

* `WindowFilledOnce` (invariant): at most one frame per window, frames left in
  doubt included.
* `ReservationHasOneDispatcher` (invariant): two dispatchers may both have the
  row in hand (one was overtaken by a reclaim), but only one holds the current
  reservation.
* `ReservationAlive` (invariant): a reserved row has its dispatcher at work or
  its frame possibly out. Without crash or failing statement.
* `ReportedOnce`, `ToldStaysTrue` (invariants): nine statements end rows; exactly
  one wins and its result is the one report.
* `OutcomeFinalButStale` (action property): only a stale release leaves a final
  state.
* `OverdueNeverRedispatched` (action property).
* `OverdueSettles` (liveness): every overdue row ends unless a registered station
  may hold it.

### Runs

| run | instance | distinct states | shows |
|---|---|---|---|
| `dispatchers` | 1 row, 1 station, 2 dispatchers, 1 window, 2 attempts, crash, DB failures | 447 000 | `IInv` (which contains `TypeOK`), `WindowFilledOnce`, `ReservationHasOneDispatcher`, `KeepsPromise` |
| `stations` | 1 row, 2 stations, 1 dispatcher, 1 window, 2 attempts, crash, DB failures | 1 870 000 | `ReportedOnce`, `ToldStaysTrue`, the two action properties |
| `liveness` | 1 row, 1 station, 1 dispatcher, 1 window, 2 attempts | 63 000 | `OverdueSettles` under `FairSpec`, `ReservationAlive` |
| `reopened` | no answers, one deletion | violation | `EndedStaysEnded` fails |

Why the bounds are enough: two dispatchers are the smallest race for a window and
for a row; two attempts let a row be reserved, reclaimed, reserved by the second
dispatcher and struck by the first's late release; two stations let a row move to
another holder while the first still answers. Rows share nothing but the windows
and the batches, and a batch is any subset. `MaxAttempts` bounds only how often a row is reserved again. The
proofs need none of these bounds. Stations, dispatchers and windows are symmetric
in the safety runs. Deadlock is checked:
the clock, deletions and registrations always leave a step.

**Fairness** (`FairSpec`): a started dispatch goes on (a goroutine with a query
timeout, run to its end), a deletion reaches its second step, and the ticker
repeats the sweep, which takes the oldest rows first, so each qualifying row gets
its turn. Nothing is asked of stations, users or the clock.

### Finding and observation

* `reopened` (finding): the release after a failed send (`UpdateDownlinkStatus`) looks at
  neither status nor holder. If the station is deleted meanwhile, the row it
  releases was already ended expired and reported; it becomes pending again and
  may be transmitted by another station, against the comments of
  `DownlinkStationRemoval` and `Terminal`. The same release is why the safety
  properties speak of rows outside `stale`.
* Large row ids (observation): the release passes the row id, and above `queueIDThreshold`
  (1 000 000) the statement reads it as a queue id. After a million rows the
  reservation is not released; the row waits for the station's next connect. `ReservationAlive` is therefore stated,
  and proved, for row ids within the threshold.

## 4. Abstract specification: `DownlinkPromise`

What an originator may rely on, without stations, dispatchers, windows or
retries. A downlink is "none", "open" or has an outcome. `Accept` opens it,
`Finish` gives open downlinks an outcome and issues one report each (none for a
revocation, which its revoker learns from the answer), `Hear` delivers a report,
`LoseReports` is the crash. `Strike` is the one way out the code has, the
unconditional release of the first finding: it opens downlinks again and remembers
which.

`DownlinkQueue` implements it with the row's status mapped to `phase` (pending and
the held statuses are "open"), the reporter's variables mapped to themselves and
`stale` to `struck` (`KeepsPromise`, checked by the run `dispatchers`). The mapping
says for each statement what originators see of it: nine of them are `Finish`,
a release is a stutter unless it was not the releaser's own, and reservation,
confirmation, revocation request and reclaim are invisible.

## 5. Module `UplinkDelivery`

From a reception to its consumers. `UplinkStore.Persist` is one transaction that
locks the classifier row of (endpoint, packet counter); it decides whether the
reception is the first, a copy of the first, a reuse of the counter, or a
collision. A new message gets one outbox row per channel, due when the reception
window closes. The worker claims due rows, hands each message over as it is stored
at that moment, and records how it went.

| state | code |
|---|---|
| `classifier` | the counter's row of `mioty_message_deduplication` |
| `count`, `telegram`, `reused`, `receptions` | rows of `messages`: `telegram` is the transmission that created it, `reused` is `packet_cnt_reused`, `receptions` is `base_stations`, empty once purged |
| `status`, `attempts`, `wait` | rows of `message_delivery_outbox`; `wait` is the time left to `next_attempt_at` |
| `batch`, `turn`, `outcome` | the worker's claimed rows, the one in hand and what its attempt returned |
| `age`, `early` | how long a message is stored, and the stations merged while the window was open |
| `copies`, `shown`, `lost` | ghosts: copies a consumer got, the stations all of them listed, rows with a copy handed over and not recorded |

Actions: `PersistFirst`, `PersistReused`, `mergeDuplicate` (the branches of
`Persist`), `ForgetEndpoint` (an attach restarts the counter), `Purge` (archived
messages with their outbox and classifier rows, which reference them ON DELETE
CASCADE); `ClaimDue`; `AttemptSucceeds`,
`AttemptFails`, `AttemptInDoubt` (the consumer got it, the call failed),
`AttemptRefused` (a permanent failure); `MarkDelivered`, `Reschedule`, `Park` or
`RecordFails`; `Crash`; `Tick`.

**Abstractions.** Classifier rows of different counters are independent, so one
is modelled. A telegram has a radio time per station and a content fingerprint.
A collision and a failed transaction change nothing and are stutters. Which due
rows a claim takes when there are more than a batch is left open. Rows of one
process: the deployment replaces it rather than rolling it, and a second worker
would only skip locked rows. An archived message may be of any age. Left out:
frame validation, drop and relay, owner resolution, decoding, endpoint
acknowledgements and their outbox rows, the audit event of a parked row.

### Properties

* `ReuseIsAnotherTelegram`: a message flagged as a reuse is of another transmission
  than the one stored before it, in whatever order the copies came.
* `OneTransmission`: receptions merged into one message have one content and lie
  within twice the window.
* `WindowSeen`: every copy handed over lists every station whose reception was
  stored while the window was open, whatever retries and merges came between.
* `HandedOnce`: a second copy implies a crash, a failed statement or an attempt in
  doubt between hand-over and record.
* `NothingGivenUp`: a delivered row was handed over; a parked one had no channel.
* `BackoffDoublesToCap`: the loop of `Delay` computes the capped doubling, and no
  row waits longer than the lease.
* `Retried` (liveness): a pending row is claimed again and again until closed or
  purged.

### Runs

| run | instance | distinct states | shows |
|---|---|---|---|
| `receptions` | 3 telegrams (two far apart in radio time, one of other content), 2 stations, 2 messages, 1 channel | 116 000 | `ReuseIsAnotherTelegram`, `OneTransmission`, `WindowSeen` |
| `outbox` | 1 telegram, 2 stations, 2 channels of which 1 configured, base 1, cap 5, 4 attempts, crash, DB failures, doubt, purge | 163 000 | `UplinkInv` (which contains `TypeOK` and `NothingGivenUp`), `HandedOnce`, `BackoffDoublesToCap`; under `FairSpec` `Retried` |

The bounds: two telegrams and two stations are the fewest with a late copy; the
second stamps earlier than the first, so radio time and arrival order disagree;
with cap 5, four attempts reach the cap past a doubling that does not meet it.
`AttemptCap` only stops the counter, not the attempts. Deadlock is checked, but
`Tick` always leaves a step.

**Fairness**: time passes, the worker's loop continues with the row in hand and
the rest of its batch, and a claim takes the longest-due rows first
(`ORDER BY next_attempt_at`), so a row that is due again and again is claimed:
strong fairness per row. Consumers may fail for ever.

### Observation

A late copy: the window of `sameTelegram` is about the telegram that owns the
classifier row. Once the endpoint reuses the counter, the row is the newer
telegram's, and a copy of the older one that is still under way reads as a further
reuse: it is stored and delivered again and takes the row back, so that the next
copy of the newer one does the same. The comment promises that "a late-arriving
copy of the telegram still merges". `ReuseIsAnotherTelegram` states what does
hold: copies of the telegram stored last.

## 6. Module `BssciSession`

All connections of one base station, and the session row they take turns at.
Stations share nothing but the registry's lock, so one is enough. What the station
asks for and answers is left open; a resume may be refused for counters or version
at will.

| state | code |
|---|---|
| `rows` | `basestation_sessions`: status, `connection_id`, `sn_bs_uuid`, `sn_sc_op_id`; a row can be resumed exactly while it is disconnected |
| `journal` | `bssci_pending_operations` of each row |
| `conn` | per connection the reader's step, the socket, what its `Session` remembers: uuid, offer, row, `LastScOpId` |
| `live`, `cache` | `sessionRegistry.byID`; the pending operations cached under a session id |
| `unreadable` | the records of earlier processes that this one cannot rebuild (`reconstituteResumeOperations`): chosen at `Start`, since it depends on the record and the process alone, not on the connection that asks |
| `senders` | service-center operations between the lookup of a session and their frame |
| `issued`, `open`, `contested` | ghosts: ids used and by whom; frames that may have left and are not settled; rows changed by a connection that was no longer the only one at them |

The reader goes `Accept`, `Connect` (or `RejectConnect`), `OfferResume` or
`RetireInconsistent`, `ConnectComplete` (or `RefuseConnect`), `ClaimRow` or
`DiscardActive`, `DiscardResumable`, `CreateRow`, then `Register`, `Publish`,
`CompleteHandshake`, one action per statement or publication. A sender goes
`Lookup`, `Allocate`, `WriteCounter`, `Record`, `Send`. `Answer` is the station's.
A connection ends by `Break`, `EndReading`, `CloseSessionByEUI`, followed by
`Unpublish`, `WriteFinalCounters`, `HandBack`, `Evict`; `Crash` and `Start` with
the reconciliation end the process. Each statement may fail where its failure has
an effect of its own.

Properties:

* `OneOwner` (`LiveOwnsRow`, `OneLiveSocket`): the connection in the registry is
  the one its row names, and no other complete connection can be written to.
* `TerminatedIsFinal` (action property): a retired session never comes back.
* `JournalCoversOpen`: a frame that may have left is in the journal until settled.
* `IdsUsedOnce`: no id is used for two operations of a session, across resumes.
* `ReissuedIsCached`: the answer to a reissued operation finds it.
* `LostRowHandedBack` (liveness): a lost connection's row does not stay active in
  its name, unless a statement failed.

| run | instance | distinct states | shows |
|---|---|---|---|
| `bssci_ownership` | 3 connections, 2 rows, 2 uuids, no operations, 1 failure, 1 crash | 654 000 | `OneOwner`, `TerminatedIsFinal` |
| `bssci_recovery` | 2 connections, 1 row, 2 operations, 1 sender, 1 failure, 1 crash | 564 000 | the other four and `TypeOK` |

Three connections are the fewest where one is torn down while two others compete
for its row; two rows let a new session retire the old while it is offered; two ids
let a resumed counter meet one already used. The station may stop for good, so
deadlock is not checked. **Fairness**: Go schedules runnable goroutines, so readers
finish activation and teardown, and the process is started again.

Observations (the exceptions the properties name):

* a sender that looked a session up before its teardown allocates and records on a
  row that another connection has resumed, or is being offered; the id can then be
  used twice and a record removed that is another's (`contested`);
* a connect that was offered a row can find its journal changed by such a sender;
* which queue rows a resume keeps reserved is decided apart from which operations it
  reissues; the module has the journal only, and the queue rows are `DownlinkQueue`'s;
* `TerminateSession` has no condition: a live connection's row can be retired under
  it by a connect that read it as resumable before, which is why `LiveOwnsRow`
  speaks of rows not terminated.

## 7. Module `StationOperations`

The other direction: the ids of the station's own operations in one session, over
the connections that resume it. The station is an honest one: it numbers upwards,
keeps at most `MaxOpen` operations open, takes them up again after a resume, and
requires the service center to know what was answered.

`row`, `mem`, `flush` are the session row, each connection's `LastBsOpId` and
`openBsOps`, and its `counterFlush`; `link` carries frames and replies of the
current connection; `overtaken` is a ghost. Actions: `Connect`, `Reread`, `Claim`;
`StartOperation`, `Reissue`, `ReceiveReply`, `Finish` (station); `OpenOperation`,
`CloseOperation`, `Refuse` (`sequenceOperation` with the handler); `FlushRead`,
`FlushWrite` (the background flusher, which outlives its reader); `Break`,
`EndReading`, `FinalCounters`, `HandBack`, `Crash` (with restart and
reconciliation).

* `NeverRefused`: a station with one operation at a time is never refused, whatever
  is lost and however far the stored counter lags.
* `SessionSurvives`: orderly losses never cost it the session.
* `StoredOnlyRises` (action property), whichever flushers, teardowns and claims
  write the row.
* `AdmittedIsStored` (liveness): a mark set while the flusher writes, or as it
  stops, is not lost.

| run | instance | distinct states | shows |
|---|---|---|---|
| `station_ops` | 3 connections, 2 operations of which one is journalled, 1 open at a time, 1 failure, 1 crash | 539 000 | all four, `TypeOK` |

Three connections let a flusher of the first race the claim of the third; two
operations let the stored counter lag by one. **Fairness**: the flusher is scheduled.

Observations: a station that keeps two operations open can be refused after a crash,
since a resume reopens only the newest id and what is journalled (hence one at a
time). The claim of a connection the station has already given up writes the
counters it read earlier and can lower the stored one (`overtaken`).

## 8. Module `StationPresence`

`is_online` and `session_uuid` of a station's row: `RegisterConnection` sets them,
every frame starts a goroutine that sets `is_online` (`UpdateLastSeen`), and the
teardown of a live connection clears it through `DisconnectIfCurrent`, a read
(`Check`) and an unconditional write (`Disconnect`). Connections come and go freely.

* `LiveShownOnline` (liveness): a connection that stays live shows its station
  online again and again, whatever late cleanups write.
* `OnlineUnlessRaced` (action property): a live station is taken offline only by a
  cleanup that had compared the row before its connection registered. Proved for
  any number of connections.

Run `presence`: 3 connections, one refresh each under way (211 000 states).
Identities nothing refers to are used again, so the run is not bounded in length.
**Fairness**: goroutines go on, and a live station is polled and so sends frames.

Observations: the gap between read and write is real and shows a connected station
offline until its next frame; and a refresh that runs after the teardown leaves a
disconnected station shown online until it connects again.

## 9. Module `ScaciSession`

The sessions of one Application Center: the connections that serve them, the
registry, the holder that records for a session without a connection, the
operations the service center issues and reissues, the rows and the operation log.

| state | code |
|---|---|
| `rows`, `log` | `scaci_sessions` (status, `last_op_id_sc`), `scaci_operation_log` |
| `obj` | a `Session` object per connection, and the one `Load` restores after a start |
| `mapped`, `held` | the registry's map; the holder's entries with their count |
| `gate`, `lifecycle` | the issue gate of an object; the lifecycle lock of a row |
| `reissue`, `sender`, `writes` | the background replay; each broadcast's step; detached counter writes |
| `wire`, `ac` | frames and answers; the AC's connection, session and last id |
| `accepted`, `reach`, `late`, `inverted`, `behind` | ghosts |

Actions: `AcOpen`, `Lookup`, `Create`, `Adopt`, `AcComplete`, `GoLive`,
`PersistResume` (connect); `Break`, `LoseConnection`, `PersistDisconnect` (loss);
`ReissueRead`, `Reissue` (replay); `Targets` with `RecordHeld`, `Issue`,
`RecordOperation`, `Send`, `FlushCounter` (broadcast); `AcReceive`, `HandleAnswer`;
`Restart`.

* `AcceptedIsOnRecord`: a broadcast that reports no failure is on record for the
  session the AC had, through every move between connected, held, connecting and
  restarted.
* `RowFollowsConnection` (`LiveRowActive`, `ActiveRowHasConnection`): the stored
  status follows the connection; the lifecycle lock orders loss and resume.
* `NothingLeftBehind`: an active session waits for the answer of everything on
  record.
* `IdsInOrder` (`IdsUsedOnce`, `IdsDecrement`): ids are used once, and nothing new
  overtakes what a resume reissues.

Run `scaci_resume`: 2 connections, 2 rows, 1 uplink and 1 result broadcast, a held
limit of 1, 2 ids, 1 failing statement or crash (2 511 000 states). Two
connections suffice for a handover and for two connects that cross; a limit of 1 is
exceeded by the second broadcast. No liveness is stated.

Reductions: a broken link is noticed only by handlers that read or write; settling
an answer and completing the operation are one step; with one AC a broadcast has at
most one connected target; failures and crashes share a budget.

Observations (the exceptions the properties name): `inverted`, a slow older connect
or a refused resume evicts the newer session and leaves its row active without
connection; `behind`, a crash loses a detached counter write, so that an id is used
again or a resume refused; `late`, a broadcast on an object that has lost its
session records after the replay has read the log, to be sent by the next resume; a
new session whose held limit is exceeded while it connects goes live on a
terminated row.

## 10. Module `Attachment`

One end point: `att` and `det` telegrams as stations report them, the gRPC calls,
the decision and its time, the propagation to connected stations and the
reconciliation of connecting ones. A key is named by the telegram it derives from.

| state | code |
|---|---|
| `ep`, `sessionKey` | the `endpoints` row (status; nonce, sign and counter of one telegram); `session_key` of the active endpoint session |
| `hear` | per station the over-the-air operation open with it |
| `link`, `journal`, `offer`, `resumed` | its connection, pending propagations, what a connect loaded, whether it resumed |
| `lastOp` | the newest operation id of its session; a pending propagation, the frame that carries it and the goroutine that writes it share an id |
| `newer`, `missed` | `attachment_changed_at` against the row's time, and against the `DisconnectedAt` a resume goes by |
| `jobs` | calls, fan-outs and reconciliations under way |
| `wire`, `holds` | frames under way; what the station holds |
| `served`, `fellBack`, `undecided`, `overtaken`, `owed`, `stale`, `lapsed` | ghosts |

Actions: `Attach`, `Serve`/`ServeFails`, `AttachComplete`; `DetachReported`,
`DetachComplete`; `AttachEndPoint`, `DetachEndPoint`; `ReadSession`, `ReadKey`,
`Snapshot`, `ReadAttached`, `ReadDetached`, `Begin`, `Frame`, `SendFails` (the
propagations);
`Deliver`, `Refuse`, `Break`, `Unregister`, `MarkDisconnected`, `Connect`,
`Activate`, `Reissue`, `Crash`.

* `ServedOnce`: a telegram heard by several stations, or reported again, is served
  once, across the counter's rollover.
* `KeyKept`: propagations read the session's key, then the signature it is judged by,
  and store back the outcome, also long after the attach; the session's key still is
  the newest accepted attach's. Excused is only an attach that was served while a
  propagation had begun to read and not stored yet (`overtaken`): the damage such a
  propagation does lasts until the next attach that none overlaps, not longer.
* `Converged`: when all work is done, a connected station holds the end point
  exactly if it is attached, under its newest key, also one that was away,
  connecting, or being told something older.

Run `attachment`: 2 stations, 2 telegrams with counters 15 and 0 (rollover between
14 and 1), the end point attached under the first, 2 inputs, 2 jobs, 1 mishap
(3 198 000 states). Two inputs with two jobs are the fewest for two decisions
whose propagations overtake each other; one mishap is a lost connection, a failing
step or a crash at any moment. Starting attached saves an input. TLC follows a
behaviour up to the step that serves a late copy of the first telegram after the
rollover (`UpToFallBack`), and what comes after is left to the theorems of section 11,
which know no bounds. Stations and jobs are symmetric; the bounded inputs end, so
deadlock is not checked.

Reductions: every station is bidirectional; the pending record and the key's storing
(with its failing variant) are one step; operation ids count up, where the code's decrement, so that newer is larger; steps of a loop without shared state are merged (`Onward`); creation of
an attached end point is `AttachEndPoint`; a station has one over-the-air operation
open; it reconnects after its teardown (`BssciSession` covers the overlap); after a
crash stations resume. Notifications, roaming, signatures and telemetry are left
out. The clearing of the pending operation and the decision of a complete message
are one step; a death between them would lose the decision.

Two things matter to the proof of `Converged`. A pending record is removed by the id
of its operation, never by what it carries: a station can have two propagations of
the same content on record, and the answer to the older must leave the newer, which a
resume may still have to reissue. And a reconciliation goes by the connection it was
started for: one that outlives its connection must not count as the reconciliation of
the next one.

Observations:

* a propagation that read its key before a later attach was accepted stores the old
  key back; from then on propagations fall back to the pre-shared key (`overtaken`).
  An attach between the two reads of `NetworkSessionKey` does the same in one go: the
  key read first no longer fits the signature read second, and the pre-shared key is
  stored. Either is repaired by the next attach that no propagation overlaps;
* a station lost between the time of a decision and its fan-out, or between its
  removal from the registry and `MarkDisconnected`, is not reconciled on resume,
  since the decision's time lies before its `ended_at` (`lapsed`);
* frames of concurrent propagations, a reconciliation or a reissue can reach a
  station in an order other than that of the decisions (`stale`);
* a late copy of a telegram from before the rollover is served again (`fellBack`),
  and a late `det` detaches again, as no counter is compared for it;
* an `att` whose `attRsp` was lost is refused as a replay when the station reissues
  it, and so is never completed (`undecided`);
* a failing send is logged and not retried; with a failing read of the end point
  `TriggerEndpointPropagate` gives up the whole fan-out;
* a `det` is not propagated to the session that reported it; a station that has
  reconnected by then has another session and is told;
* the propagation of an over-the-air attach also goes to the station that heard it,
  although the comment in `attach_handlers.go` speaks of the others.

## 11. Proofs

### `DownlinkQueueProofs`

For any sets of rows, stations, windows and dispatchers, any identifiers, with
crashes and failing statements allowed (assumptions: the sentinels are not
members of the sets, identifiers and bounds are naturals):

* `TypeCorrect`, `Invariance`: `Spec => []IInv`;
* from it `WindowsFilledOnce`, `OutcomesReportedOnce`, `TruthTold`,
  `ReservationsOwned`;
* from the type invariant, step by step, `OutcomesFinal` and `OverdueStaysOut`;
* with no crash, no failing statement and row ids within the threshold,
  `ReservationsAlive`.

`IInv` strengthens the four invariants by what they lean on. `WindowFilledOnce`
alone is not inductive: a dispatcher that will send must have the window claimed,
for itself, and unused, and a window nobody claimed must be unused (`WindowInv`);
a dispatch without a window must stay without one (`ChosenInv`). `ReportedOnce`
is inductive once each statement's WHERE clause excludes ended rows; what was
told must be among what was issued (`ReportInv`). A reservation has one owner
because the attempt a dispatcher remembers never exceeds the row's, and equals it
only while the row is out of the queue (`DispatchInv`): every way back to the
queue adds an attempt, so a dispatcher overtaken by a reclaim no longer matches.
`AliveInv` adds that a dispatcher past its send has its frame recorded.

Each invariance proof has one step per action. Shared moves (`Move`, `Report`,
`ReturnToQueue`, `EndExpired`, `Return`) have lemmas of their own, and frame
lemmas dispose of actions that do not touch the part at hand.

### `DownlinkPromiseProofs`

`QueueKeepsPromise`: `Spec => KeepsPromise`. Initial states map to initial states;
then one step per action shows which abstract action, or stutter, it is. Only the
type invariant is needed: each WHERE clause that ends a row excludes the ended
ones, which is the guard of `Finish`. The statement that does not look, `Release`,
is a stutter when the releaser still owns every row it names (those are open
before and after) and a `Strike` otherwise.

### `UplinkDeliveryProofs`

For any telegrams, stations and channels, any windows and any retry policy, with
crashes, failing statements, attaches and purges. Assumed: radio times are
positive, one transmission is heard within the duplicate window by all stations
(`CopiesAssumption`, what the window is configured for), sentinels are not members
of the sets.

* `UplinkInvariance`: `Spec => []UplinkInv`, and from it
* `ReuseIsGenuine`, `MessagesAreOneTransmission`, `CopiesAreComplete`
  (`WindowSeen`), `DeliveredOnce` (`HandedOnce`) and `RowsClosedWhenEarned`
  (`NothingGivenUp`);
* `RetriesWithinTheCap` (`BackoffDoublesToCap`).

`UplinkInv` adds to the properties: the classifier row is about the message stored
last, which is not purged, and carries a radio time of that message's telegram
(`ClassifierInv`, without which a reset could keep a foreign time); a message's
receptions lie around that time (`MessageInv`); a row never attempted has exactly
the rest of its reception window to wait, so a row in the worker's hands is one
whose window closed, after which `early` no longer grows (`RowInv`); and a copy
handed over is recorded, purged, in the worker's hand or remembered in `lost`
(`WorkerInv`). The store's half is kept by lemmas on each branch of `Persist`, the
outbox's half by one lemma per action; `DroppedInv` serves the three ways in which
the worker lets go of a row.

`RetriesWithinTheCap` is about a loop, and holds for every base delay, cap (below the
base delay, too) and number of attempts. The loop is the recursive function `backoff`,
the reference `doubled` doubles without a cap. Such a definition says nothing until a
function that satisfies it is shown to exist: `Iterated` builds the sequence of a step
taken again and again, from its finite runs, and `BackoffSteps` and `DoubledSteps` are
what the two definitions then give. `DelayIsCapped` compares them at the least number of
attempts at which they could differ: stopping where the next doubling would pass the
cap neither stops early nor overshoots, for odd caps as for even ones. Induction is by
least counterexample (`LeastExists`, from the well-foundedness of the naturals). What a
row waits is then bounded by one more invariant (`WaitInv`, `WaitKept`).

### `StationPresenceProofs`

For any set of connections and any number of refreshes: `TypeCorrect`, and
`ShownOnlineUnlessRaced` (`Spec => OnlineUnlessRaced`). The property needs
`CleanupInv`: a cleanup past its comparison is the row's own connection's, or was
past it when that connection registered. `Check` establishes it by the comparison,
`RegisterConnection` by recording who is past theirs.

### `AttachmentProofs`

For any stations, telegrams, jobs, inputs and mishaps, any counters, and any
rollover bounds with `RolloverLow <= RolloverHigh` (the code's are 0x100 and
0xFFFF00):

* `TypeCorrect`: `Spec => []TypeOK`. The types are not inductive alone: at most one
  attach response is under way to a station and it belongs to an attach that was
  checked (`OneAnswer`, `CheckedIsAttach`), and a job works on stations that still
  have a session (`SessionsThere`).
* `SessionKeyKept`: `Spec => []KeyKept`, by `KeyInv`: a job's kind fixes where it
  can be and what it carries (`Planned`), and unless the last attach was served while a
  propagation had begun to read, every key about to be stored back, or read and still
  to be compared with the signature, is the recorded telegram's. An attach that no
  propagation overlaps establishes this anew, so the exception does not outlive it.
* `TelegramServedOnce`: `Spec => []ServedOnce`, by `ServedInv`: until the counter
  falls back, what was served is not newer than the recorded telegram, which never
  advances its own counter (`SelfNeverAdvances`; here the order of the bounds is
  needed: between a `RolloverLow` above `RolloverHigh` a telegram would follow itself).
* `StationsConverge`: `Spec => []Converged`, by `ConvergeInv`.

`Converged` says something only of states at rest; the invariant has to say, of every
state in between, why each station will get there. `NoneForgotten` is that reason: while
no served telegram awaits its decision, each station is `Told`, that is

* it is excused (`lapsed`, `stale`), or
* it is `Assured`: it holds the decision in force and no frame under way says otherwise
  (`Settles`); or a propagation of it is on record, and kept for the next resume, on its
  way with nothing older behind it, or about to be written (`Recorded`); or its own `det`
  is answered or will be reported again (`Answering`); or
* no propagation on record carries the decision (`owed`), and someone will begin one
  (`ToBeTold`): a goroutine with the station still on its list or a reconciliation that
  has still to read (`Sending`), or, while it is away, its next connect, which the times
  of decision and row make reconcile (`newer`, `missed`).

At rest each of these but the first leaves only `holds[s] = InForce(ep)`
(`ConvergeAtRest`). `NoneForgotten` alone is not inductive. It leans on `LineInv`:
operation ids are used once per session, so that an answer settles its own record and
no other, and the frame a goroutine is about to write is on record and neither offered
nor on the wire (`OpsInv`); a response under way is that of the open operation
(`AnswersMatch`), or a late one could follow the frame that counts; a connection that
does not resume is offered nothing (`NoOffer`); a connection is reconciled by one
goroutine (`OneRecon`), or the second would read flags the first has cleared; and the
types. A decision turns every station's reason into "owed, and the fan-out that starts
with it", except for the stations that already hold it; a lost connection turns frames
into records kept for the resume, a failed send or a crash into `lapsed` or `owed`.
The proof has one lemma per action: the reason it leaves the station it is about, and
(by `ToldStays` and its like) that the other stations keep theirs.

### `BssciSessionProofs`

For any number of connections, rows, uuids, ids, failing statements and crashes:
`SessionInvariant` (`Spec => []Inv`), and from it `TypeCorrect`, `StationNotShared`
(`OneOwner`), `OperationIdsUnique` (`IdsUsedOnce`), `OpenIsJournalled`
(`JournalCoversOpen`), `AnswersFindReissued` (`ReissuedIsCached`); step by step
`TerminationIsFinal` (`TerminatedIsFinal`). The parts of `Inv`:

* `OwnInv`: the registry's connection holds its row or the row was retired, a row is
  held by one connection, a connection has a row only past its activation and keeps
  it, and a socket open after the activation is the registry's. Displacement in
  `Publish`, the unique index behind `ClaimRow` and the condition of `HandBack`
  each keep one of these.
* `Resuming`, `SendersLate`, `SendersApart`: what a connection remembers of the
  session it resumes; senders work on sessions that had a row, each with its own id.
* `IssueInv`, `CounterInv`: every id in journal, offers and open frames was issued;
  the id a resume starts below is below all of them. `IdsUsedOnce` rests on
  `HolderBelow`: the holder of an uncontested row is at or below every id that any
  other connection issued on it, which follows from the counter and the journal
  together (`SendCounted`, `IssueCounted`, `ClaimCounted`) at the moment of the claim.
* `JournalInv`: what was offered stays on record until the handshake reissues it, a
  sender that holds its row finds its record there and its frame unsent.

The attempt to prove `JournalCoversOpen` corrected the model: `OfferResume` used to
choose the operations that cannot be rebuilt anew for each connection, which with
three connections lets one drop what another was offered. The code decides by the
record and the process alone, which is now the variable `unreadable`.

The effect of every action on a connection's record is stated once (`Effect`,
`ConnSteps`); the invariant's parts are then kept by lemmas about what all steps have
in common (a departed reader stays departed, offers are made once, `Frames`), so most
actions need no step of their own.

### `StationOperationsProofs`

For any number of connections, operations, failing writes and crashes, and any
set of journalled operations: `OperationsInvariant` (`Spec => []Inv`) and from it
`TypeCorrect`, `CounterOnlyRises` (`StoredOnlyRises`), `SessionKept`
(`SessionSurvives`); and for `MaxOpen <= 1` `InSequenceNeverRefused`
(`NeverRefused`). With two operations open at a time the last is false (section 7),
so the assumption cannot go.

* A flusher writes no more than its connection knows (`FlushBound`), and one whose
  connection was torn down has nothing new to write (`LateFlush`), because
  `FinalCounters` stored the newest id before the row was handed back. So a claim
  that read the counter while the station waited (`Handshake`) is not overtaken, and
  the counter rises.
* `AnsweredKnown`: an answered operation is stored or known to the connection that
  has the row; when the row is free (`Owned`) it is stored, so the resume's counters
  are consistent.
* `InSequence`: station and reader agree. The frames on their way are in order
  (`Ordered`), the reader will accept each when its turn comes (`Acceptable`: a
  complete message finds its operation open or its opening frame ahead of it), what
  the station is to take up is acceptable too (`ToTakeUp`), and what it has open was
  opened (`TakenUp`). Lemmas about sequences (`OneMore`, `AfterOpen`, `AfterClose`)
  carry it over a frame more and a frame less. At the claim it holds because the only
  operation that can be open is the newest (`Window`), nobody knows a newer id
  (`Below`), and `Reopened` contains the newest id the reader knows.

### `ScaciSessionProofs`

For any number of connections, rows, messages, ids and failing statements, from
`ScaciAssumption` alone (the bounds are naturals, the held limit is positive, there
are finitely many messages): `TypeCorrect`, `RowFollows` (`Spec =>
[]RowFollowsConnection`), `IdsKeepOrder` (`[]IdsInOrder`), `NothingIsLeft`
(`[]NothingLeftBehind`) and `AcceptedRecorded` (`[]AcceptedIsOnRecord`), all from
`ScaciInvariant` (`Spec => []Inv`). The exceptions of the properties (`faults`,
`inverted`, `behind`, `late`, section 9) are part of what is proved.

The state is a few large records, so the proofs work on their fields (`Row(o)`,
`Pc(c)`, `Sc(o)`, ...): a lemma per action shows what the step does to the fields,
`Does` is the disjunction of these effects, and every part of the invariant is kept
by `Does` and cites only the parts it rests on.

* The type invariant is not inductive alone: a reader past its lookup has a row, a
  held row is that of its object, a broadcast on its way has a target (`Phases`,
  `HolderHasRow`, `BusyTarget`).
* `SessionInv`: at most one row can be resumed (`RowsInOrder`), nothing knows a row
  before it is adopted (`FreshRow`), and while a connection is in the registry only
  its own session is held (`HeldWhileMapped`), so a row has one owner. A disconnect is
  written under the lifecycle lock (`LockHeld`), so none is pending for the row of a
  session that went on (`SettledAlone`) and none overwrites it; an active row is
  served, about to be served or about to be disconnected (`ActiveServed`).
* `GateInv`: replay and broadcasts exclude each other on a session's issue gate.
* `IdInv`: the owner of a row issues below everything on record for it
  (`CountersBelow`), which `continueFrom` carries from one object to the next, and an
  id issued is not on record yet (`IssuedUnused`); hence an id is used once.
* `FrameInv`: what was written to a connection has ids above its counter, above what
  is issued and above what is left to reissue; the replay takes the largest id first,
  so the next frame is always below the last.
* `LogInv`: a session that reissues has everything on record awaited or left to
  reissue (`ReissuesAll`), an active one has it awaited or in the hands of the
  broadcast that recorded it (`AwaitsAll`). A broadcast in progress is on its way to
  the session it owes (`BusyOwes`), because the AC's session is always in the registry
  or the holder (`AcServed`).

### What is only model-checked

The liveness properties (`OverdueSettles`, `Retried`, `AdmittedIsStored`,
`LiveShownOnline`, `LostRowHandedBack`), since liveness under fairness is out of the
prover's reach, and the violation `reopened`.

## 12. Not modelled

Of the modelled parts: content of downlinks and its editing while pending, endpoint
acknowledgements, which station serves an endpoint, the ask-again statement of the
sweep (it sends a frame and moves no row), renaming of stations and endpoints,
reception status queries; for SCACI the AC's own operations (downlink queue, revoke,
status), for BSSCI pings, status reports and variable-length encodings; for
attachment what section 10 lists.

Not modelled at all: federation's outbox and bootstrap, the gateway's circuit
breaker, queue id allocation and refresh-token rotation (section 2, item 8). Payload
decoding, certificates, configuration, analytics, the generated gRPC code, the error
catalogues and the front ends, which are most of the repository's lines, have no
protocol state to check.
