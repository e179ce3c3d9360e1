--------------------------- MODULE UplinkDelivery ---------------------------
(***************************************************************************)
(* The way of an uplink from its receptions to its consumers: the uplink   *)
(* store, which decides whether a reception is a new message or another    *)
(* copy of one (UplinkStore.Persist, one transaction), the delivery outbox *)
(* it fills and the worker that drains it.                                 *)
(*                                                                         *)
(* The classifier keeps one row per endpoint and packet counter, and rows  *)
(* do not influence one another: the telegrams here are the transmissions  *)
(* of one endpoint that used one counter value.  Several stations receive  *)
(* each, any of them may report its copy late or again (an ulDataRsp that  *)
(* was lost), and the endpoint may use the counter again.  One KC-Core     *)
(* runs at a time, with one worker.                                        *)
(***************************************************************************)
EXTENDS Integers, FiniteSets

CONSTANTS
  Telegrams,        \* transmissions with the same endpoint and packetCnt
  Stations,
  RxTime,           \* RxTime[t][s]: rxTime of t at station s
  Content,          \* the fingerprint of a telegram (uplinkMessageHash)
  Window,           \* how far in radio time a copy is from the first one
  ReceptionWindow,  \* how long delivery waits for other stations, in ticks
  Channels,         \* outbox channels of a new message
  Configured,       \* those the worker can deliver to
  BaseDelay, MaxDelay, \* RetryPolicy, in ticks
  AttemptCap,       \* bound: attempts are counted up to here
  BatchSize,
  MaxMessages,      \* bound: messages stored
  NoRow,            \* no classifier row; no row in the worker's hand
  NoTelegram,
  MayCrash,         \* whether the process may die
  DBMayFail,        \* whether recording an attempt's outcome may fail
  MayDoubt,         \* whether a failed attempt may have reached its consumer
  MayForget         \* whether attaches and purges forget the classifier row

Ids  == 1..MaxMessages
Rows == Ids \X Channels

Abs(n) == IF n < 0 THEN -n ELSE n

ASSUME WindowAssumption ==
  /\ RxTime \in [Telegrams -> [Stations -> Nat \ {0}]]
  /\ Content \in [Telegrams -> Nat]
  /\ Window \in Nat /\ ReceptionWindow \in Nat
  /\ ReceptionWindow < Window

\* The stations hear one transmission at nearly the same radio time.
ASSUME CopiesAssumption ==
  \A t \in Telegrams, s1, s2 \in Stations : Abs(RxTime[t][s1] - RxTime[t][s2]) <= Window

ASSUME OutboxAssumption ==
  /\ Configured \subseteq Channels
  /\ BaseDelay \in Nat \ {0} /\ MaxDelay \in Nat
  /\ AttemptCap \in Nat \ {0} /\ BatchSize \in Nat \ {0} /\ MaxMessages \in Nat
  /\ NoRow \notin Rows /\ NoTelegram \notin Telegrams
  /\ {MayCrash, DBMayFail, MayDoubt, MayForget} \subseteq BOOLEAN

VARIABLES
  classifier,  \* the row of mioty_message_deduplication, or NoRow
  count,       \* messages stored so far: their ids are 1..count
  telegram,    \* per message, the telegram of the reception that stored it
  reused,      \* messages stored with packet_cnt_reused
  receptions,  \* per message, base_stations: <<s, t>> with one entry per station
  age,         \* per message, ticks since it was stored, at most ReceptionWindow
  early,       \* ghost: stations merged into a message before that
  status,      \* per outbox row; "absent" before it is stored and once purged
  attempts,    \* per outbox row, the attempts claimed
  wait,        \* per outbox row, ticks until next_attempt_at
  batch,       \* claimed rows the worker has yet to attempt
  turn,        \* the row the worker just attempted, or NoRow
  outcome,     \* what that attempt returned
  copies,      \* ghost: per outbox row, copies handed to the consumer
  shown,       \* ghost: per outbox row, the stations every copy listed
  lost         \* ghost: rows with a copy handed over and not recorded

storeVars  == <<classifier, count, telegram, reused, receptions, age, early>>
outboxVars == <<status, attempts, wait>>
workerVars == <<batch, turn, outcome>>
ghostVars  == <<copies, shown, lost>>
vars == <<storeVars, outboxVars, workerVars, ghostVars>>

Init ==
  /\ classifier = NoRow
  /\ count      = 0
  /\ telegram   = [i \in Ids |-> NoTelegram]
  /\ reused     = {}
  /\ receptions = [i \in Ids |-> {}]
  /\ age        = [i \in Ids |-> 0]
  /\ early      = [i \in Ids |-> {}]
  /\ status     = [r \in Rows |-> "absent"]
  /\ attempts   = [r \in Rows |-> 0]
  /\ wait       = [r \in Rows |-> 0]
  /\ batch      = {}
  /\ turn       = NoRow
  /\ outcome    = "none"
  /\ copies     = [r \in Rows |-> 0]
  /\ shown      = [r \in Rows |-> Stations]
  /\ lost       = {}

-----------------------------------------------------------------------------
(* UplinkStore.Persist.  The transaction locks the classifier row, so two  *)
(* receptions of the counter are stored one after the other.               *)

RowOf(s, t, i) == [first |-> i, rx |-> RxTime[t][s], hash |-> Content[t]]

\* Faulty: only a copy later in radio time than the first one is a copy.
sameTelegramLater(s, t) ==
  RxTime[t][s] >= classifier.rx /\ RxTime[t][s] - classifier.rx <= Window

sameTelegram(s, t) == Abs(RxTime[t][s] - classifier.rx) <= Window

\* Faulty: a new message is due when it is stored.
DueAtOnce == 0

\* When the outbox rows of a new message fall due.
DueAfter == ReceptionWindow

\* persistNew: the message, and one outbox row per channel, due once the
\* reception window closed.
persistNew(s, t, counterReused) ==
  LET i == count + 1
  IN /\ count < MaxMessages
     /\ count' = i
     /\ telegram' = [telegram EXCEPT ![i] = t]
     /\ reused' = IF counterReused THEN reused \cup {i} ELSE reused
     /\ receptions' = [receptions EXCEPT ![i] = {<<s, t>>}]
     /\ age' = [age EXCEPT ![i] = 0]
     /\ early' = [early EXCEPT ![i] = {s}]
     /\ status' = [r \in Rows |-> IF r[1] = i THEN "pending" ELSE status[r]]
     /\ wait' = [r \in Rows |-> IF r[1] = i THEN DueAfter ELSE wait[r]]
     /\ UNCHANGED attempts

\* The claim inserted the classifier row: the first reception.
PersistFirst(s, t) ==
  /\ classifier = NoRow
  /\ classifier' = RowOf(s, t, count + 1)
  /\ persistNew(s, t, FALSE)
  /\ UNCHANGED <<workerVars, ghostVars>>

\* Faulty: a reset that keeps the radio time of the earlier telegram.
ResetKeepsRxTime(s, t, i) == [first |-> i, rx |-> classifier.rx, hash |-> Content[t]]

\* sqlResetClassifierRow.
ResetRow(s, t, i) == RowOf(s, t, i)

\* Outside the window: the counter is in use again, the reception is new data.
PersistReused(s, t) ==
  /\ classifier # NoRow
  /\ ~sameTelegram(s, t)
  /\ classifier' = ResetRow(s, t, count + 1)
  /\ persistNew(s, t, TRUE)
  /\ UNCHANGED <<workerVars, ghostVars>>

\* mergeReception: the entry of the same station is replaced.
mergeReception(R, s, t) == {p \in R : p[1] # s} \cup {<<s, t>>}

\* Another copy: merged into the first message.  A reception in the window with
\* other content is refused (ErrPacketCounterCollision) and changes nothing.
mergeDuplicate(s, t) ==
  LET i == classifier.first
  IN /\ classifier # NoRow
     /\ sameTelegram(s, t)
     /\ classifier.hash = Content[t]
     /\ receptions' = [receptions EXCEPT ![i] = mergeReception(@, s, t)]
     /\ early' = [early EXCEPT ![i] = IF age[i] < ReceptionWindow THEN @ \cup {s} ELSE @]
     /\ UNCHANGED <<classifier, count, telegram, reused, age, outboxVars,
                    workerVars, ghostVars>>

\* An over-the-air attach restarts the endpoint's counter.
ForgetEndpoint ==
  /\ MayForget
  /\ classifier # NoRow
  /\ classifier' = NoRow
  /\ UNCHANGED <<count, telegram, reused, receptions, age, early, outboxVars,
                 workerVars, ghostVars>>

\* PurgeArchivedMessages: the outbox and classifier rows go with the message.
Purge(i) ==
  /\ MayForget
  /\ i \in 1..count
  /\ receptions[i] # {}
  /\ receptions' = [receptions EXCEPT ![i] = {}]
  /\ classifier' = IF classifier # NoRow /\ classifier.first = i THEN NoRow ELSE classifier
  /\ status' = [r \in Rows |-> IF r[1] = i THEN "absent" ELSE status[r]]
  /\ attempts' = [r \in Rows |-> IF r[1] = i THEN 0 ELSE attempts[r]]
  /\ wait' = [r \in Rows |-> IF r[1] = i THEN 0 ELSE wait[r]]
  /\ UNCHANGED <<count, telegram, reused, age, early, workerVars, ghostVars>>

-----------------------------------------------------------------------------
(* The delivery worker.                                                    *)

\* The loop of Delay: doubled n - 1 times, cut short where the next doubling
\* would pass the cap.
backoff[n \in Nat] ==
  IF n <= 1 THEN BaseDelay
  ELSE IF backoff[n - 1] > MaxDelay \div 2 THEN MaxDelay ELSE 2 * backoff[n - 1]

\* Faulty: a delay that is doubled once more than it should be.
DelayDoubledFirst(n) == backoff[n + 1]

\* The wait after failed attempt n.
Delay(n) == IF backoff[n] < MaxDelay THEN backoff[n] ELSE MaxDelay

Lease == MaxDelay

\* Faulty: rows that failed too often are not looked at again.
DueUntilCap == {r \in Rows : status[r] = "pending" /\ wait[r] = 0 /\ attempts[r] < AttemptCap}

\* Faulty: rows that were delivered are due again.
DueDelivered == {r \in Rows : status[r] \in {"pending", "delivered"} /\ wait[r] = 0}

Due == {r \in Rows : status[r] = "pending" /\ wait[r] = 0}

\* ClaimDue: attempts are counted, the rows hidden for the lease.
ClaimDue(D) ==
  /\ batch = {} /\ turn = NoRow
  /\ D # {} /\ D \subseteq Due
  /\ Cardinality(D) = BatchSize \/ (D = Due /\ Cardinality(D) < BatchSize)
  /\ batch' = D
  /\ attempts' = [r \in Rows |-> IF r \in D /\ attempts[r] < AttemptCap
                                   THEN attempts[r] + 1 ELSE attempts[r]]
  /\ wait' = [r \in Rows |-> IF r \in D THEN Lease ELSE wait[r]]
  /\ UNCHANGED <<storeVars, status, turn, outcome, ghostVars>>

\* The worker turns to the next claimed row and the attempt returns o.
Attempted(r, o) ==
  /\ turn = NoRow
  /\ r \in batch
  /\ batch' = batch \ {r}
  /\ turn' = r
  /\ outcome' = o
  /\ UNCHANGED <<storeVars, outboxVars>>

\* The message is stored and its channel is there to take it.
Deliverable(r) == receptions[r[1]] # {} /\ r[2] \in Configured

\* The stations a message lists.
Heard(i) == {p[1] : p \in receptions[i]}

\* The consumer got the message as it is stored now.
Hand(r) ==
  /\ copies' = [copies EXCEPT ![r] = IF @ < 2 THEN @ + 1 ELSE @]
  /\ shown' = [shown EXCEPT ![r] = @ \cap Heard(r[1])]

AttemptSucceeds(r) ==
  /\ Deliverable(r)
  /\ Attempted(r, "ok")
  /\ Hand(r)
  /\ UNCHANGED lost

\* The consumer is unreachable, or the message could not be read.
AttemptFails(r) ==
  /\ Attempted(r, "failed")
  /\ UNCHANGED ghostVars

\* A failure after the consumer got it.
AttemptInDoubt(r) ==
  /\ MayDoubt
  /\ Deliverable(r)
  /\ Attempted(r, "failed")
  /\ Hand(r)
  /\ lost' = lost \cup {r}

\* A failure no retry can fix (RetryPolicy.Permanent).
AttemptRefused(r) ==
  /\ ~Deliverable(r)
  /\ Attempted(r, "permanent")
  /\ UNCHANGED ghostVars

Done ==
  /\ turn' = NoRow /\ outcome' = "none"
  /\ UNCHANGED <<batch, storeVars, copies, shown>>

\* The row in hand, if its message was handed over.
Unrecorded == IF outcome = "ok" THEN {turn} ELSE {}

\* The row in hand moves to st, unless it was purged meanwhile.
Close(st) == status' = [status EXCEPT ![turn] = IF @ = "absent" THEN @ ELSE st]

MarkDelivered ==
  /\ outcome = "ok"
  /\ Close("delivered")
  /\ Done
  /\ UNCHANGED <<attempts, wait, lost>>

\* Faulty: a failed attempt is closed like a successful one.
RescheduleCloses ==
  /\ outcome = "failed"
  /\ Close("delivered")
  /\ Done
  /\ UNCHANGED <<attempts, wait, lost>>

Reschedule ==
  /\ outcome = "failed"
  /\ wait' = [wait EXCEPT ![turn] = IF status[turn] = "pending"
                                      THEN Delay(attempts[turn]) ELSE @]
  /\ Done
  /\ UNCHANGED <<status, attempts, lost>>

Park ==
  /\ outcome = "permanent"
  /\ Close("parked")
  /\ Done
  /\ UNCHANGED <<attempts, wait, lost>>

\* The statement that records the outcome fails: the row waits out its lease.
RecordFails ==
  /\ DBMayFail
  /\ turn # NoRow
  /\ Done
  /\ lost' = lost \cup Unrecorded
  /\ UNCHANGED outboxVars

\* The process dies with its batch.
Crash ==
  /\ MayCrash
  /\ batch' = {} /\ turn' = NoRow /\ outcome' = "none"
  /\ lost' = lost \cup Unrecorded
  /\ UNCHANGED <<storeVars, outboxVars, copies, shown>>

\* Time passes.
Tick ==
  /\ wait' = [r \in Rows |-> IF wait[r] > 0 THEN wait[r] - 1 ELSE 0]
  /\ age' = [i \in Ids |-> IF i <= count /\ age[i] < ReceptionWindow
                             THEN age[i] + 1 ELSE age[i]]
  /\ UNCHANGED <<classifier, count, telegram, reused, receptions, early, status,
                 attempts, workerVars, ghostVars>>

-----------------------------------------------------------------------------
Persist(s, t) == PersistFirst(s, t) \/ PersistReused(s, t) \/ mergeDuplicate(s, t)

Attempt(r) ==
  AttemptSucceeds(r) \/ AttemptFails(r) \/ AttemptInDoubt(r) \/ AttemptRefused(r)

Record == MarkDelivered \/ Reschedule \/ Park \/ RecordFails

Next ==
  \/ \E s \in Stations, t \in Telegrams : Persist(s, t)
  \/ ForgetEndpoint
  \/ \E i \in Ids : Purge(i)
  \/ \E D \in SUBSET Rows : ClaimDue(D)
  \/ \E r \in Rows : Attempt(r)
  \/ Record
  \/ Crash
  \/ Tick

Spec == Init /\ [][Next]_vars

\* Time passes, the worker's loop goes on, and ClaimDue takes the rows that
\* have been due longest first, so each gets its turn.  Consumers may fail for
\* ever, and so may the process.
FairSpec ==
  /\ Spec
  /\ WF_vars(Tick)
  /\ WF_vars(Record)
  /\ WF_vars(\E r \in Rows : Attempt(r))
  /\ \A r \in Rows : SF_vars(\E D \in SUBSET Rows : r \in D /\ ClaimDue(D))

-----------------------------------------------------------------------------
(* Properties.                                                             *)

\* Every variable keeps its type; how long a row that failed waits is the matter
\* of BackoffDoublesToCap.
TypeOK ==
  /\ classifier = NoRow \/ classifier \in [first : Ids, rx : Nat, hash : Nat]
  /\ count \in 0..MaxMessages
  /\ telegram \in [Ids -> Telegrams \cup {NoTelegram}]
  /\ reused \subseteq Ids
  /\ receptions \in [Ids -> SUBSET (Stations \X Telegrams)]
  /\ age \in [Ids -> 0..ReceptionWindow]
  /\ early \in [Ids -> SUBSET Stations]
  /\ status \in [Rows -> {"absent", "pending", "delivered", "parked"}]
  /\ attempts \in [Rows -> 0..AttemptCap]
  /\ wait = [r \in Rows |-> wait[r]]
  /\ batch \subseteq Rows
  /\ turn \in Rows \cup {NoRow}
  /\ outcome \in {"none", "ok", "failed", "permanent"}
  /\ copies \in [Rows -> Nat]
  /\ shown \in [Rows -> SUBSET Stations]
  /\ lost \subseteq Rows

\* A reception flagged as a reused counter is a new transmission: no copy of the
\* telegram stored last, however late and from whichever station, is taken for
\* one (sameTelegram, sqlResetClassifierRow).
ReuseIsAnotherTelegram ==
  \A i \in reused : i - 1 \in Ids => telegram[i - 1] # telegram[i]

\* The receptions of a message are of one transmission: the same content, heard
\* within the window of the first (mergeDuplicate, ErrPacketCounterCollision).
OneTransmission ==
  \A i \in Ids : \A p, q \in receptions[i] :
    /\ Content[p[2]] = Content[q[2]]
    /\ Abs(RxTime[p[2]][p[1]] - RxTime[q[2]][q[1]]) <= 2 * Window

\* Every copy a consumer gets lists every station whose reception was stored
\* while the reception window was open ("so the receptions of the other base
\* stations are merged by then", persistNew).
WindowSeen == \A r \in Rows : copies[r] > 0 => early[r[1]] \subseteq shown[r]

\* A consumer gets a message twice only if the process died, the statement
\* failed or the attempt ended in doubt between the hand-over and its record.
HandedOnce == \A r \in Rows : copies[r] > 1 => r \in lost

\* No row is closed unearned: a delivered one reached its consumer, and one of a
\* configured channel is never given up (deliver, RetryPolicy.Permanent).
NothingGivenUp ==
  \A r \in Rows :
    /\ status[r] = "delivered" => copies[r] > 0
    /\ status[r] = "parked" => r[2] \notin Configured

\* The base delay doubled n times.
doubled[n \in Nat] == IF n = 0 THEN BaseDelay ELSE 2 * doubled[n - 1]

\* The wait doubles with each failed attempt up to the cap, and neither a failed
\* attempt nor one lost with its process is retried later than the cap (Delay,
\* Lease: "retries no later than a failed one").
BackoffDoublesToCap ==
  \A r \in Rows : attempts[r] > 0 =>
    /\ LET d == doubled[attempts[r] - 1]
       IN Delay(attempts[r]) = IF d < MaxDelay THEN d ELSE MaxDelay
    /\ wait[r] <= Lease

\* A row waiting for delivery is attempted again and again until it is closed or
\* its message purged: "a slow or unreachable consumer never loses" it.
Retried ==
  \A r \in Rows : status[r] = "pending" ~> (r \in batch \/ status[r] # "pending")

-----------------------------------------------------------------------------
(* The strengthening that makes the invariants above inductive.            *)

\* A message holds copies heard around rx.
HeardAround(i, rx) ==
  \A p \in receptions[i] : Abs(RxTime[p[2]][p[1]] - rx) <= Window

\* The classifier row is about the message stored last.
ClassifierInv ==
  classifier # NoRow =>
    /\ count > 0 /\ classifier.first = count /\ receptions[count] # {}
    /\ classifier.hash = Content[telegram[count]]
    /\ \E s \in Stations : classifier.rx = RxTime[telegram[count]][s]
    /\ HeardAround(count, classifier.rx)

MessageInv ==
  \A i \in Ids :
    /\ i <= count => /\ telegram[i] \in Telegrams
                     /\ \E s \in Stations : HeardAround(i, RxTime[telegram[i]][s])
    /\ i > count  => receptions[i] = {} /\ i \notin reused
    /\ \A p \in receptions[i] : Content[p[2]] = Content[telegram[i]]
    /\ receptions[i] # {} => early[i] \subseteq Heard(i)

\* A row in the worker's hands or with an attempt behind it is one whose
\* reception window closed.
RowInv ==
  \A r \in Rows :
    /\ receptions[r[1]] # {} <=> status[r] # "absent"
    /\ r[1] > count => status[r] = "absent" /\ copies[r] = 0 /\ attempts[r] = 0
    /\ status[r] = "pending" /\ attempts[r] = 0
         => wait[r] \in Nat /\ wait[r] + age[r[1]] = ReceptionWindow
    /\ attempts[r] > 0 \/ copies[r] > 0 \/ r \in batch \cup {turn}
         => r[1] <= count /\ age[r[1]] = ReceptionWindow
    /\ copies[r] = 0 => shown[r] = Stations

WorkerInv ==
  /\ turn = NoRow <=> outcome = "none"
  /\ turn \notin batch
  /\ \A r \in batch \cup ({turn} \ {NoRow}) : 
       status[r] = "absent" \/ (status[r] = "pending" /\ attempts[r] > 0)
  /\ outcome = "ok" => copies[turn] > 0
  /\ outcome = "permanent" => turn[2] \notin Configured \/ status[turn] = "absent"
  /\ \A r \in Rows : copies[r] > 0 =>
       \/ r \in lost
       \/ status[r] \in {"delivered", "absent"}
       \/ turn = r /\ outcome = "ok"

\* The inductive invariant: what the classifier row, the messages, the outbox
\* rows and the worker's hands keep to, whoever moves next.
UplinkInv ==
  /\ TypeOK /\ ClassifierInv /\ MessageInv /\ RowInv /\ WorkerInv
  /\ ReuseIsAnotherTelegram /\ WindowSeen /\ HandedOnce /\ NothingGivenUp
=============================================================================
