------------------------ MODULE UplinkDeliveryProofs ------------------------
(***************************************************************************)
(* What UplinkDelivery promises, for any number of telegrams, stations and *)
(* channels, any windows and any retry policy.                             *)
(***************************************************************************)
EXTENDS UplinkDelivery, WellFoundedInduction, TLAPS

USE DEF Ids, Rows

\* What the store keeps about its messages.
StoreInv == ClassifierInv /\ MessageInv /\ ReuseIsAnotherTelegram

\* What the outbox and its worker keep.
OutboxInv == RowInv /\ WorkerInv /\ WindowSeen /\ HandedOnce /\ NothingGivenUp

-----------------------------------------------------------------------------
(* The store.                                                              *)

\* The worker leaves the store alone (it only reads messages).
LEMMA StoreUntouched ==
  ASSUME StoreInv, UNCHANGED <<classifier, count, telegram, reused, receptions, early>>
  PROVE  StoreInv'
BY DEF StoreInv, ClassifierInv, MessageInv, ReuseIsAnotherTelegram, HeardAround, Heard

\* A new message keeps the variables typed (persistNew).
LEMMA PersistNewType ==
  ASSUME TypeOK, NEW s \in Stations, NEW t \in Telegrams, NEW b \in BOOLEAN,
         persistNew(s, t, b), classifier' = RowOf(s, t, count + 1),
         UNCHANGED <<workerVars, ghostVars>>
  PROVE  TypeOK'
<1>1. count + 1 \in Ids /\ count' \in 0..MaxMessages
  BY OutboxAssumption DEF TypeOK, persistNew
<1>2. classifier' \in [first : Ids, rx : Nat, hash : Nat]
  BY <1>1, WindowAssumption DEF RowOf
<1>3. /\ telegram' \in [Ids -> Telegrams \cup {NoTelegram}]
      /\ reused' \subseteq Ids
      /\ receptions' \in [Ids -> SUBSET (Stations \X Telegrams)]
  BY <1>1 DEF TypeOK, persistNew
<1>4. /\ age' \in [Ids -> 0..ReceptionWindow]
      /\ early' \in [Ids -> SUBSET Stations]
  BY <1>1, WindowAssumption DEF TypeOK, persistNew
<1>5. /\ status' \in [Rows -> {"absent", "pending", "delivered", "parked"}]
      /\ attempts' \in [Rows -> 0..AttemptCap]
      /\ wait' = [r \in Rows |-> wait'[r]]
  BY DEF TypeOK, persistNew
<1> QED BY <1>1, <1>2, <1>3, <1>4, <1>5 DEF TypeOK, workerVars, ghostVars

\* A new message, of whatever telegram, keeps the store's rules; one stored as a
\* reuse is not of the telegram before it (persistNew, sqlResetClassifierRow).
LEMMA PersistNewStore ==
  ASSUME TypeOK, StoreInv, NEW s \in Stations, NEW t \in Telegrams, NEW b \in BOOLEAN,
         persistNew(s, t, b), classifier' = RowOf(s, t, count + 1),
         b => classifier # NoRow /\ ~sameTelegram(s, t)
  PROVE  StoreInv'
<1> DEFINE n == count + 1
<1>1. n \in Ids /\ count' = n /\ count \in Nat
  BY OutboxAssumption DEF TypeOK, persistNew
<1>2. /\ telegram'[n] = t /\ receptions'[n] = {<<s, t>>} /\ early'[n] = {s}
      /\ \A i \in Ids : i # n => /\ telegram'[i] = telegram[i]
                                 /\ receptions'[i] = receptions[i]
                                 /\ early'[i] = early[i]
                                 /\ i \in reused' <=> i \in reused
  BY <1>1 DEF TypeOK, persistNew
<1>3. RxTime[t][s] \in Nat /\ Abs(RxTime[t][s] - RxTime[t][s]) <= Window
  BY WindowAssumption DEF Abs
<1>4. \A p \in receptions'[n] : p[1] = s /\ p[2] = t
  BY <1>2
<1>5. ClassifierInv'
  BY <1>1, <1>2, <1>3, <1>4 DEF ClassifierInv, HeardAround, RowOf
<1>6. MessageInv'
  <2> SUFFICES ASSUME NEW i \in Ids
               PROVE  /\ i <= count' => /\ telegram'[i] \in Telegrams
                                        /\ \E q \in Stations : \A p \in receptions'[i] :
                                             Abs(RxTime[p[2]][p[1]] - RxTime[telegram'[i]][q]) <= Window
                      /\ i > count'  => receptions'[i] = {} /\ i \notin reused'
                      /\ \A p \in receptions'[i] : Content[p[2]] = Content[telegram'[i]]
                      /\ receptions'[i] # {} => early'[i] \subseteq {p[1] : p \in receptions'[i]}
    BY DEF MessageInv, HeardAround, Heard
  <2>1. CASE i = n
    BY <2>1, <1>1, <1>2, <1>3, <1>4
  <2>2. CASE i # n
    BY <2>2, <1>1, <1>2 DEF StoreInv, MessageInv, HeardAround, Heard
  <2> QED BY <2>1, <2>2
<1>7. ReuseIsAnotherTelegram'
  <2> SUFFICES ASSUME NEW i \in reused', i - 1 \in Ids
               PROVE  telegram'[i - 1] # telegram'[i]
    BY DEF ReuseIsAnotherTelegram
  <2>0. i \in Ids /\ n \notin reused
    BY <1>1 DEF TypeOK, persistNew, StoreInv, MessageInv
  <2>1. CASE i = n
    <3>1. b BY <2>0, <2>1 DEF persistNew
    <3>2. i - 1 = count /\ count \in Ids BY <2>1, <1>1
    <3>3. PICK q \in Stations : classifier.rx = RxTime[telegram[count]][q]
      BY <3>1 DEF StoreInv, ClassifierInv
    <3>4. telegram[count] # t
      BY <3>1, <3>3, CopiesAssumption DEF sameTelegram
    <3> QED BY <2>1, <3>2, <3>4, <1>1, <1>2
  <2>2. CASE i # n
    <3>1. i \in reused /\ i <= count
      BY <2>0, <2>2, <1>1, <1>2 DEF StoreInv, MessageInv
    <3> QED BY <2>0, <2>2, <3>1, <1>1, <1>2 DEF StoreInv, ReuseIsAnotherTelegram
  <2> QED BY <2>1, <2>2
<1> QED BY <1>5, <1>6, <1>7 DEF StoreInv

\* Merging keeps the receptions typed, names the station, and loses none
\* (mergeReception).
LEMMA MergeReception ==
  ASSUME NEW R, NEW s, NEW t
  PROVE  /\ {p[1] : p \in mergeReception(R, s, t)} = {p[1] : p \in R} \cup {s}
         /\ \A p \in mergeReception(R, s, t) : p \in R \/ p = <<s, t>>
         /\ mergeReception(R, s, t) # {}
<1> DEFINE M == mergeReception(R, s, t)
<1>1. \A p \in M : p \in R \/ p = <<s, t>>
  BY DEF mergeReception
<1>2. <<s, t>> \in M
  BY DEF mergeReception
<1>3. \A p \in R : p[1] # s => p \in M
  BY DEF mergeReception
<1>4. \A p \in M : p[1] \in {q[1] : q \in R} \cup {s}
  BY <1>1
<1>5. s \in {p[1] : p \in M}
  BY <1>2
<1>6. \A q \in R : q[1] \in {p[1] : p \in M}
  BY <1>3, <1>5
<1> HIDE DEF M
<1>7. {p[1] : p \in M} = {p[1] : p \in R} \cup {s}
  BY <1>4, <1>5, <1>6
<1> QED BY <1>1, <1>2, <1>7 DEF M

\* A merged copy keeps the store's rules (mergeDuplicate).
LEMMA MergeStore ==
  ASSUME TypeOK, StoreInv, NEW s \in Stations, NEW t \in Telegrams, mergeDuplicate(s, t)
  PROVE  StoreInv' /\ TypeOK'
<1> DEFINE n == classifier.first
<1>1. n \in Ids /\ n = count /\ count' = count /\ count \in Nat
  BY DEF TypeOK, StoreInv, ClassifierInv, mergeDuplicate
<1>2. /\ receptions'[n] = mergeReception(receptions[n], s, t)
      /\ early'[n] \subseteq early[n] \cup {s}
      /\ \A i \in Ids : i # n => receptions'[i] = receptions[i] /\ early'[i] = early[i]
  BY <1>1 DEF TypeOK, mergeDuplicate
<1>3. receptions'[n] \subseteq Stations \X Telegrams
  BY <1>1, <1>2, MergeReception DEF TypeOK
<1>4. \A p \in receptions'[n] : p \in receptions[n] \/ (p[1] = s /\ p[2] = t)
  BY <1>2, MergeReception
<1>5. TypeOK'
  <2>1. /\ receptions' \in [Ids -> SUBSET (Stations \X Telegrams)]
        /\ early' \in [Ids -> SUBSET Stations]
    BY <1>1, <1>3 DEF TypeOK, mergeDuplicate
  <2> QED BY <2>1 DEF TypeOK, mergeDuplicate, outboxVars, workerVars, ghostVars
<1>6. HeardAround(n, classifier.rx)'
  BY <1>1, <1>4 DEF StoreInv, ClassifierInv, HeardAround, mergeDuplicate, sameTelegram
<1>7. ClassifierInv'
  BY <1>1, <1>2, <1>6, MergeReception DEF StoreInv, ClassifierInv, mergeDuplicate
<1>8. MessageInv'
  <2> SUFFICES ASSUME NEW i \in Ids
               PROVE  /\ i <= count' => /\ telegram'[i] \in Telegrams
                                        /\ \E q \in Stations : HeardAround(i, RxTime[telegram[i]][q])'
                      /\ i > count'  => receptions'[i] = {} /\ i \notin reused'
                      /\ \A p \in receptions'[i] : Content[p[2]] = Content[telegram'[i]]
                      /\ receptions'[i] # {} => early'[i] \subseteq Heard(i)'
    BY DEF MessageInv
  <2>1. CASE i = n
    <3>1. \E q \in Stations : HeardAround(i, RxTime[telegram[i]][q])'
      BY <2>1, <1>1, <1>6 DEF StoreInv, ClassifierInv, mergeDuplicate, HeardAround
    <3>2. \A p \in receptions'[i] : Content[p[2]] = Content[telegram'[i]]
      BY <2>1, <1>1, <1>4 DEF StoreInv, ClassifierInv, MessageInv, mergeDuplicate
    <3>3. early'[i] \subseteq Heard(i)'
      <4>1. Heard(i)' = Heard(i) \cup {s}
        BY <2>1, <1>2, MergeReception DEF Heard
      <4>2. early[i] \subseteq Heard(i)
        BY <2>1, <1>1 DEF StoreInv, ClassifierInv, MessageInv, mergeDuplicate
      <4> QED BY <2>1, <4>1, <4>2, <1>2
    <3>4. telegram'[i] \in Telegrams
      BY <2>1, <1>1 DEF StoreInv, MessageInv, mergeDuplicate
    <3> QED BY <2>1, <1>1, <3>1, <3>2, <3>3, <3>4
  <2>2. CASE i # n
    BY <2>2, <1>1, <1>2 DEF StoreInv, MessageInv, mergeDuplicate, HeardAround, Heard
  <2> QED BY <2>1, <2>2
<1>9. ReuseIsAnotherTelegram'
  BY DEF StoreInv, ReuseIsAnotherTelegram, mergeDuplicate
<1> QED BY <1>5, <1>7, <1>8, <1>9 DEF StoreInv

\* Forgetting the classifier row keeps the rest (ForgetEndpoint).
LEMMA ForgetStore ==
  ASSUME TypeOK, StoreInv, ForgetEndpoint
  PROVE  StoreInv' /\ TypeOK'
<1>1. TypeOK'
  BY DEF TypeOK, ForgetEndpoint, outboxVars, workerVars, ghostVars
<1>2. StoreInv'
  BY DEF StoreInv, ClassifierInv, MessageInv, ReuseIsAnotherTelegram, HeardAround, Heard,
         ForgetEndpoint
<1> QED BY <1>1, <1>2

\* A purged message leaves no receptions and no classifier row
\* (PurgeArchivedMessages).
LEMMA PurgeStore ==
  ASSUME TypeOK, StoreInv, NEW i \in Ids, Purge(i)
  PROVE  StoreInv' /\ TypeOK'
<1>1. /\ receptions'[i] = {}
      /\ \A j \in Ids : j # i => receptions'[j] = receptions[j]
      /\ receptions' \in [Ids -> SUBSET (Stations \X Telegrams)]
  BY DEF TypeOK, Purge
<1>2. TypeOK'
  <2>1. classifier' = NoRow \/ classifier' \in [first : Ids, rx : Nat, hash : Nat]
    BY DEF TypeOK, Purge
  <2>2. /\ status' \in [Rows -> {"absent", "pending", "delivered", "parked"}]
        /\ attempts' \in [Rows -> 0..AttemptCap]
        /\ wait' = [r \in Rows |-> wait'[r]]
    BY OutboxAssumption DEF TypeOK, Purge
  <2> QED BY <1>1, <2>1, <2>2 DEF TypeOK, Purge, workerVars, ghostVars
<1>3. ClassifierInv'
  <2> SUFFICES ASSUME classifier' # NoRow PROVE ClassifierInv'
    BY DEF ClassifierInv
  <2>1. classifier' = classifier /\ count # i /\ count \in Ids
    BY DEF Purge, StoreInv, ClassifierInv, TypeOK
  <2> QED BY <2>1, <1>1 DEF StoreInv, ClassifierInv, Purge, HeardAround
<1>4. MessageInv'
  <2> SUFFICES ASSUME NEW j \in Ids
               PROVE  /\ j <= count' => /\ telegram'[j] \in Telegrams
                                        /\ \E q \in Stations : HeardAround(j, RxTime[telegram[j]][q])'
                      /\ j > count'  => receptions'[j] = {} /\ j \notin reused'
                      /\ \A p \in receptions'[j] : Content[p[2]] = Content[telegram'[j]]
                      /\ receptions'[j] # {} => early'[j] \subseteq Heard(j)'
    BY DEF MessageInv
  <2> QED BY <1>1 DEF StoreInv, MessageInv, Purge, HeardAround, Heard
<1>5. ReuseIsAnotherTelegram'
  BY DEF StoreInv, ReuseIsAnotherTelegram, Purge
<1> QED BY <1>2, <1>3, <1>4, <1>5 DEF StoreInv

-----------------------------------------------------------------------------
(* The outbox under the store's steps.                                     *)

\* The rows of a new message are due when its reception window closes, and
\* nothing happened to them before (insertDeliveryRows).
LEMMA PersistNewOutbox ==
  ASSUME TypeOK, StoreInv, OutboxInv,
         NEW s \in Stations, NEW t \in Telegrams, NEW b \in BOOLEAN,
         persistNew(s, t, b), UNCHANGED <<workerVars, ghostVars>>
  PROVE  OutboxInv'
<1> DEFINE n == count + 1
<1>1. n \in Ids /\ count' = n /\ count \in Nat
  BY OutboxAssumption DEF TypeOK, persistNew
<1>2. /\ receptions'[n] # {} /\ age'[n] = 0
      /\ \A i \in Ids : i # n => /\ receptions'[i] = receptions[i] /\ age'[i] = age[i]
                                 /\ early'[i] = early[i]
  BY <1>1 DEF TypeOK, persistNew
<1>3. \A r \in Rows : IF r[1] = n THEN status'[r] = "pending" /\ wait'[r] = ReceptionWindow
                                  ELSE status'[r] = status[r] /\ wait'[r] = wait[r]
  BY DEF persistNew, DueAfter
<1>4. \A r \in Rows : r[1] \in Ids /\ (r[1] = n => r[1] > count) /\ (r[1] # n => (r[1] > count <=> r[1] > n))
  BY <1>1
<1>5. /\ attempts' = attempts /\ batch' = batch /\ turn' = turn /\ outcome' = outcome
      /\ copies' = copies /\ shown' = shown /\ lost' = lost
  BY DEF persistNew, workerVars, ghostVars
<1>6. \A r \in Rows : r[1] = n => /\ attempts[r] = 0 /\ copies[r] = 0
                                  /\ r \notin batch /\ r # turn
  BY <1>1, <1>4 DEF OutboxInv, RowInv, TypeOK
<1>7. RowInv'
  <2> SUFFICES ASSUME NEW r \in Rows
               PROVE  /\ receptions'[r[1]] # {} <=> status'[r] # "absent"
                      /\ r[1] > count' => status'[r] = "absent" /\ copies[r] = 0 /\ attempts[r] = 0
                      /\ status'[r] = "pending" /\ attempts[r] = 0
                           => wait'[r] \in Nat /\ wait'[r] + age'[r[1]] = ReceptionWindow
                      /\ attempts[r] > 0 \/ copies[r] > 0 \/ r \in batch \cup {turn}
                           => r[1] <= count' /\ age'[r[1]] = ReceptionWindow
                      /\ copies[r] = 0 => shown[r] = Stations
    BY <1>5 DEF RowInv
  <2>1. CASE r[1] = n
    <3>1. copies[r] = 0 => shown[r] = Stations
      BY DEF OutboxInv, RowInv
    <3> QED BY <2>1, <3>1, <1>1, <1>2, <1>3, <1>6, WindowAssumption
  <2>2. CASE r[1] # n
    <3>1. r[1] <= count => r[1] <= count'
      BY <1>1
    <3> QED BY <2>2, <3>1, <1>1, <1>2, <1>3, <1>4 DEF OutboxInv, RowInv
  <2> QED BY <2>1, <2>2
<1>8. WorkerInv'
  <2>1. \A r \in Rows : r[1] = n => copies[r] = 0
    BY <1>6
  <2>2. \A r \in batch \cup ({turn} \ {NoRow}) : r \in Rows /\ status'[r] = status[r]
    BY <1>3, <1>6 DEF TypeOK
  <2>3. outcome = "permanent" => turn \in Rows /\ status'[turn] = status[turn]
    BY <1>3, <1>6 DEF OutboxInv, WorkerInv, TypeOK
  <2>4. \A r \in Rows : copies[r] > 0 => status'[r] = status[r]
    BY <2>1, <1>3
  <2> QED BY <1>5, <2>2, <2>3, <2>4 DEF OutboxInv, WorkerInv
<1>9. WindowSeen'
  BY <1>2, <1>4, <1>5, <1>6 DEF OutboxInv, WindowSeen
<1>10. HandedOnce' /\ NothingGivenUp'
  BY <1>3, <1>5 DEF OutboxInv, HandedOnce, NothingGivenUp
<1> QED BY <1>7, <1>8, <1>9, <1>10 DEF OutboxInv

\* A copy merged before the window closed is of a message no consumer got yet
\* (mergeDuplicate).
LEMMA MergeOutbox ==
  ASSUME TypeOK, StoreInv, OutboxInv, NEW s \in Stations, NEW t \in Telegrams,
         mergeDuplicate(s, t)
  PROVE  OutboxInv'
<1> DEFINE n == classifier.first
<1>1. n \in Ids /\ n = count /\ receptions[n] # {}
  BY DEF TypeOK, StoreInv, ClassifierInv, mergeDuplicate
<1>2. \A i \in Ids : (receptions'[i] # {}) <=> (receptions[i] # {})
  BY <1>1, MergeReception DEF TypeOK, mergeDuplicate
<1>3. \A i \in Ids : age[i] = ReceptionWindow => early'[i] = early[i]
  BY <1>1, WindowAssumption DEF TypeOK, mergeDuplicate
<1>4. UNCHANGED <<count, age, status, attempts, wait, batch, turn, outcome, copies, shown, lost>>
  BY DEF mergeDuplicate, outboxVars, workerVars, ghostVars
<1>5. RowInv'
  BY <1>2, <1>4 DEF OutboxInv, RowInv
<1>6. WorkerInv' /\ HandedOnce' /\ NothingGivenUp'
  BY <1>4 DEF OutboxInv, WorkerInv, HandedOnce, NothingGivenUp
<1>7. WindowSeen'
  BY <1>3, <1>4 DEF OutboxInv, WindowSeen, RowInv
<1> QED BY <1>5, <1>6, <1>7 DEF OutboxInv

\* The outbox does not look at the classifier (ForgetEndpoint).
LEMMA ForgetOutbox ==
  ASSUME OutboxInv, ForgetEndpoint
  PROVE  OutboxInv'
BY DEF OutboxInv, RowInv, WorkerInv, WindowSeen, HandedOnce, NothingGivenUp, ForgetEndpoint,
       outboxVars, workerVars, ghostVars

\* A purge takes the message's rows along, those in the worker's hands too
\* (PurgeArchivedMessages).
LEMMA PurgeOutbox ==
  ASSUME TypeOK, StoreInv, OutboxInv, NEW i \in Ids, Purge(i)
  PROVE  OutboxInv'
<1>1. \A r \in Rows :
        IF r[1] = i THEN status'[r] = "absent" /\ attempts'[r] = 0 /\ receptions'[r[1]] = {}
                    ELSE /\ status'[r] = status[r] /\ attempts'[r] = attempts[r]
                         /\ wait'[r] = wait[r] /\ receptions'[r[1]] = receptions[r[1]]
  BY DEF TypeOK, Purge
<1>2. UNCHANGED <<count, age, early, batch, turn, outcome, copies, shown, lost>>
  BY DEF Purge, workerVars, ghostVars
<1>3. i <= count
  BY DEF Purge
<1>4. RowInv'
  <2> SUFFICES ASSUME NEW r \in Rows
               PROVE  /\ receptions'[r[1]] # {} <=> status'[r] # "absent"
                      /\ r[1] > count => status'[r] = "absent" /\ copies[r] = 0 /\ attempts'[r] = 0
                      /\ status'[r] = "pending" /\ attempts'[r] = 0
                           => wait'[r] \in Nat /\ wait'[r] + age[r[1]] = ReceptionWindow
                      /\ attempts'[r] > 0 \/ copies[r] > 0 \/ r \in batch \cup {turn}
                           => r[1] <= count /\ age[r[1]] = ReceptionWindow
                      /\ copies[r] = 0 => shown[r] = Stations
    BY <1>2 DEF RowInv
  <2>0. r[1] \in Ids /\ ~(0 > 0)
    OBVIOUS
  <2>1. CASE r[1] = i
    BY <2>0, <2>1, <1>1 DEF OutboxInv, RowInv
  <2>2. CASE r[1] # i
    BY <2>2, <1>1 DEF OutboxInv, RowInv
  <2> QED BY <2>1, <2>2
<1>5. WorkerInv'
  <2>1. \A r \in Rows : status'[r] = "absent" \/ (status'[r] = status[r] /\ attempts'[r] = attempts[r])
    BY <1>1
  <2>2. \A r \in batch \cup ({turn} \ {NoRow}) : r \in Rows
    BY DEF TypeOK
  <2>3. outcome = "permanent" => turn \in Rows
    BY DEF OutboxInv, WorkerInv, TypeOK
  <2> QED BY <1>2, <2>1, <2>2, <2>3 DEF OutboxInv, WorkerInv
<1>6. WindowSeen' /\ HandedOnce' /\ NothingGivenUp'
  BY <1>1, <1>2 DEF OutboxInv, WindowSeen, HandedOnce, NothingGivenUp
<1> QED BY <1>4, <1>5, <1>6 DEF OutboxInv

-----------------------------------------------------------------------------
(* The worker.                                                             *)

\* A claim takes pending rows whose window closed, and counts the attempt
\* (ClaimDue).
LEMMA ClaimInv ==
  ASSUME TypeOK, OutboxInv, NEW D \in SUBSET Rows, ClaimDue(D)
  PROVE  TypeOK' /\ OutboxInv'
<1>1. /\ UNCHANGED <<count, receptions, age, early, status, turn, outcome, copies, shown, lost>>
      /\ batch = {} /\ turn = NoRow /\ outcome = "none" /\ batch' = D
  BY DEF ClaimDue, storeVars, ghostVars, OutboxInv, WorkerInv
<1>2. \A r \in Rows : /\ attempts[r] \in 0..AttemptCap
                      /\ attempts'[r] \in 0..AttemptCap
                      /\ IF r \in D THEN attempts'[r] > 0
                                    ELSE attempts'[r] = attempts[r] /\ wait'[r] = wait[r]
  <2> SUFFICES ASSUME NEW r \in Rows
               PROVE  /\ attempts[r] \in 0..AttemptCap
                      /\ attempts'[r] \in 0..AttemptCap
                      /\ IF r \in D THEN attempts'[r] > 0
                                    ELSE attempts'[r] = attempts[r] /\ wait'[r] = wait[r]
    OBVIOUS
  <2>1. attempts[r] \in 0..AttemptCap
    BY DEF TypeOK
  <2>2. /\ attempts'[r] = IF r \in D /\ attempts[r] < AttemptCap THEN attempts[r] + 1
                                                               ELSE attempts[r]
        /\ r \notin D => wait'[r] = wait[r]
    BY DEF ClaimDue
  <2> QED BY <2>1, <2>2, OutboxAssumption
<1>3. \A r \in D : r \in Rows /\ status[r] = "pending" /\ wait[r] = 0
  BY DEF ClaimDue, Due
<1>4. TypeOK'
  <2>1. attempts' \in [Rows -> 0..AttemptCap] /\ wait' = [r \in Rows |-> wait'[r]]
    BY <1>2 DEF ClaimDue
  <2> QED BY <2>1 DEF TypeOK, ClaimDue, storeVars, ghostVars
<1>5. \A r \in D : r[1] <= count /\ age[r[1]] = ReceptionWindow
  <2> SUFFICES ASSUME NEW r \in D PROVE r[1] <= count /\ age[r[1]] = ReceptionWindow
    OBVIOUS
  <2>1. r \in Rows /\ r[1] \in Ids /\ age[r[1]] \in 0..ReceptionWindow /\ count \in Nat
    BY <1>3 DEF TypeOK
  <2>2. ~(r[1] > count)
    BY <1>3, <2>1 DEF OutboxInv, RowInv
  <2>3. CASE attempts[r] = 0
    BY <1>3, <2>1, <2>2, <2>3, WindowAssumption DEF OutboxInv, RowInv
  <2>4. CASE attempts[r] > 0
    BY <2>1, <2>4 DEF OutboxInv, RowInv
  <2> QED BY <1>2, <2>1, <2>3, <2>4
<1>6. RowInv'
  <2> SUFFICES ASSUME NEW r \in Rows
               PROVE  /\ receptions[r[1]] # {} <=> status[r] # "absent"
                      /\ r[1] > count => status[r] = "absent" /\ copies[r] = 0 /\ attempts'[r] = 0
                      /\ status[r] = "pending" /\ attempts'[r] = 0
                           => wait'[r] \in Nat /\ wait'[r] + age[r[1]] = ReceptionWindow
                      /\ attempts'[r] > 0 \/ copies[r] > 0 \/ r \in D \cup {NoRow}
                           => r[1] <= count /\ age[r[1]] = ReceptionWindow
                      /\ copies[r] = 0 => shown[r] = Stations
    BY <1>1 DEF RowInv
  <2>1. r # NoRow /\ r[1] \in Ids /\ count \in Nat
    BY OutboxAssumption DEF TypeOK
  <2>2. CASE r \in D
    BY <2>1, <2>2, <1>2, <1>3, <1>5 DEF OutboxInv, RowInv
  <2>3. CASE r \notin D
    BY <2>1, <2>3, <1>2 DEF OutboxInv, RowInv
  <2> QED BY <2>2, <2>3
<1>7. WorkerInv'
  <2>1. NoRow \notin D
    BY OutboxAssumption, <1>3
  <2> QED BY <1>1, <1>2, <1>3, <2>1 DEF OutboxInv, WorkerInv
<1>8. WindowSeen' /\ HandedOnce' /\ NothingGivenUp'
  BY <1>1 DEF OutboxInv, WindowSeen, HandedOnce, NothingGivenUp
<1> QED BY <1>4, <1>6, <1>7, <1>8 DEF OutboxInv

\* A message is handed over again only when a copy of it was lost track of, and
\* each copy lists the stations merged in its window (deliver, attempt).
LEMMA AttemptInv ==
  ASSUME TypeOK, StoreInv, OutboxInv, NEW r \in Rows, Attempt(r)
  PROVE  TypeOK' /\ OutboxInv'
<1>1. PICK o \in {"ok", "failed", "permanent"} : Attempted(r, o)
  BY DEF Attempt, AttemptSucceeds, AttemptFails, AttemptInDoubt, AttemptRefused
<1>2. /\ UNCHANGED <<count, receptions, age, early, status, attempts, wait>>
      /\ turn = NoRow /\ outcome = "none" /\ r \in batch /\ r # NoRow
      /\ batch' = batch \ {r} /\ turn' = r /\ outcome' = o
  BY <1>1, OutboxAssumption DEF Attempted, storeVars, outboxVars, OutboxInv, WorkerInv
<1>3. /\ r[1] \in Ids /\ r[1] <= count /\ age[r[1]] = ReceptionWindow
      /\ status[r] = "absent" \/ (status[r] = "pending" /\ attempts[r] > 0)
  BY <1>2 DEF OutboxInv, RowInv, WorkerInv
<1>4. \/ /\ Deliverable(r) /\ Hand(r) /\ o # "permanent"
         /\ lost' = IF o = "ok" THEN lost ELSE lost \cup {r}
      \/ /\ ~Deliverable(r) \/ o = "failed"
         /\ o # "ok" /\ UNCHANGED <<copies, shown, lost>>
  BY <1>2 DEF Attempt, AttemptSucceeds, AttemptFails, AttemptInDoubt, AttemptRefused,
              Attempted, ghostVars
<1>5. o = "permanent" => r[2] \notin Configured \/ status[r] = "absent"
  BY <1>4 DEF Deliverable, OutboxInv, RowInv
<1>6. CASE UNCHANGED <<copies, shown, lost>> /\ o # "ok"
  <2>1. TypeOK'
    BY <1>1, <1>2, <1>6 DEF TypeOK, Attempted, storeVars
  <2>2. RowInv'
    BY <1>2, <1>6 DEF OutboxInv, RowInv
  <2>3. WorkerInv'
    BY <1>2, <1>3, <1>5, <1>6 DEF OutboxInv, WorkerInv
  <2>4. WindowSeen' /\ HandedOnce' /\ NothingGivenUp'
    BY <1>2, <1>6 DEF OutboxInv, WindowSeen, HandedOnce, NothingGivenUp
  <2> QED BY <2>1, <2>2, <2>3, <2>4 DEF OutboxInv
<1>7. CASE /\ Deliverable(r) /\ Hand(r) /\ o # "permanent"
           /\ lost' = IF o = "ok" THEN lost ELSE lost \cup {r}
  <2>1. /\ copies' \in [Rows -> Nat] /\ shown' \in [Rows -> SUBSET Stations]
        /\ lost' \subseteq Rows
    BY <1>7 DEF TypeOK, Hand
  <2>2. /\ copies'[r] > 0 /\ (copies'[r] > 1 => copies[r] > 0)
        /\ shown'[r] = shown[r] \cap Heard(r[1])
        /\ \A q \in Rows : q # r => copies'[q] = copies[q] /\ shown'[q] = shown[q]
    BY <1>7 DEF TypeOK, Hand
  <2>3. lost \subseteq lost' /\ (o # "ok" => r \in lost')
    BY <1>7
  <2>4. receptions[r[1]] # {} /\ status[r] = "pending" /\ r[2] \in Configured
    BY <1>3, <1>7 DEF Deliverable, OutboxInv, RowInv
  <2>5. TypeOK'
    BY <1>1, <1>2, <2>1 DEF TypeOK, Attempted, storeVars
  <2>6. RowInv'
    <3> SUFFICES ASSUME NEW q \in Rows
                 PROVE  /\ receptions[q[1]] # {} <=> status[q] # "absent"
                        /\ q[1] > count => status[q] = "absent" /\ copies'[q] = 0 /\ attempts[q] = 0
                        /\ status[q] = "pending" /\ attempts[q] = 0
                             => wait[q] \in Nat /\ wait[q] + age[q[1]] = ReceptionWindow
                        /\ attempts[q] > 0 \/ copies'[q] > 0 \/ q \in (batch \ {r}) \cup {r}
                             => q[1] <= count /\ age[q[1]] = ReceptionWindow
                        /\ copies'[q] = 0 => shown'[q] = Stations
      BY <1>2 DEF RowInv
    <3>1. CASE q = r
      <4>1. ~(r[1] > count) /\ ~(copies'[r] = 0) /\ attempts[r] # 0
        BY <1>3, <2>1, <2>2, <2>4 DEF TypeOK
      <4> QED BY <3>1, <4>1, <1>3, <2>4
    <3>2. CASE q # r
      BY <3>2, <1>2, <2>2 DEF OutboxInv, RowInv
    <3> QED BY <3>1, <3>2
  <2>7. WorkerInv'
    <3>1. \A q \in Rows : copies'[q] > 0 =>
            \/ q \in lost'
            \/ status[q] \in {"delivered", "absent"}
            \/ r = q /\ o = "ok"
      BY <1>2, <2>2, <2>3 DEF OutboxInv, WorkerInv
    <3> QED BY <1>2, <1>3, <1>5, <2>2, <3>1 DEF OutboxInv, WorkerInv
  <2>8. WindowSeen'
    <3>1. early[r[1]] \subseteq Heard(r[1])
      BY <1>3, <2>4 DEF StoreInv, MessageInv
    <3>2. early[r[1]] \subseteq shown[r]
      <4>1. CASE copies[r] = 0
        BY <4>1, <1>3 DEF TypeOK, OutboxInv, RowInv
      <4>2. CASE copies[r] > 0
        BY <4>2 DEF OutboxInv, WindowSeen
      <4> QED BY <4>1, <4>2 DEF TypeOK
    <3> QED BY <1>2, <2>2, <3>1, <3>2 DEF OutboxInv, WindowSeen
  <2>9. HandedOnce'
    <3>1. copies'[r] > 1 => r \in lost
      BY <1>2, <2>2, <2>4 DEF OutboxInv, WorkerInv
    <3> QED BY <2>2, <2>3, <3>1 DEF OutboxInv, HandedOnce
  <2>10. NothingGivenUp'
    BY <1>2, <2>2 DEF OutboxInv, NothingGivenUp
  <2> QED BY <2>5, <2>6, <2>7, <2>8, <2>9, <2>10 DEF OutboxInv
<1> QED BY <1>4, <1>6, <1>7

\* Closing the row in hand as its outcome says (MarkDelivered, Park): a row is
\* delivered only after a hand-over, parked only where no channel is configured.
LEMMA CloseInv ==
  ASSUME TypeOK, OutboxInv, NEW st \in {"delivered", "parked"}, Close(st), Done,
         outcome = IF st = "delivered" THEN "ok" ELSE "permanent",
         UNCHANGED <<attempts, wait, lost>>
  PROVE  TypeOK' /\ OutboxInv'
<1>1. turn \in Rows /\ turn # NoRow /\ turn \notin batch
  BY OutboxAssumption DEF TypeOK, OutboxInv, WorkerInv
<1>2. /\ UNCHANGED <<count, receptions, age, early, attempts, wait, batch, copies, shown, lost>>
      /\ turn' = NoRow /\ outcome' = "none"
  BY DEF Done, storeVars
<1>3. /\ status' \in [Rows -> {"absent", "pending", "delivered", "parked"}]
      /\ status'[turn] = IF status[turn] = "absent" THEN "absent" ELSE st
      /\ \A q \in Rows : q # turn => status'[q] = status[q]
  BY <1>1 DEF TypeOK, Close
<1>4. TypeOK'
  BY <1>3, <1>2 DEF TypeOK, Done, storeVars
<1>5. RowInv'
  <2> SUFFICES ASSUME NEW q \in Rows
               PROVE  /\ receptions[q[1]] # {} <=> status'[q] # "absent"
                      /\ q[1] > count => status'[q] = "absent" /\ copies[q] = 0 /\ attempts[q] = 0
                      /\ status'[q] = "pending" /\ attempts[q] = 0
                           => wait[q] \in Nat /\ wait[q] + age[q[1]] = ReceptionWindow
                      /\ attempts[q] > 0 \/ copies[q] > 0 \/ q \in batch \cup {NoRow}
                           => q[1] <= count /\ age[q[1]] = ReceptionWindow
                      /\ copies[q] = 0 => shown[q] = Stations
    BY <1>2 DEF RowInv
  <2>1. q # NoRow BY OutboxAssumption
  <2>2. CASE q = turn
    BY <2>1, <2>2, <1>3 DEF OutboxInv, RowInv
  <2>3. CASE q # turn
    BY <2>1, <2>3, <1>3 DEF OutboxInv, RowInv
  <2> QED BY <2>2, <2>3
<1>6. WorkerInv'
  <2>1. \A q \in Rows : copies[q] > 0 => q \in lost \/ status'[q] \in {"delivered", "absent"}
    <3> SUFFICES ASSUME NEW q \in Rows, copies[q] > 0
                 PROVE  q \in lost \/ status'[q] \in {"delivered", "absent"}
      OBVIOUS
    <3>1. CASE q # turn
      BY <3>1, <1>3 DEF OutboxInv, WorkerInv
    <3>2. CASE q = turn
      BY <3>2, <1>1, <1>3 DEF OutboxInv, WorkerInv
    <3> QED BY <3>1, <3>2
  <2>2. \A q \in batch : q \in Rows /\ q # turn /\ q # NoRow
    BY <1>1, OutboxAssumption DEF TypeOK
  <2> QED BY <1>2, <1>3, <2>1, <2>2 DEF OutboxInv, WorkerInv
<1>7. WindowSeen' /\ HandedOnce'
  BY <1>2 DEF OutboxInv, WindowSeen, HandedOnce
<1>8. NothingGivenUp'
  BY <1>1, <1>2, <1>3 DEF OutboxInv, NothingGivenUp, WorkerInv
<1> QED BY <1>4, <1>5, <1>6, <1>7, <1>8 DEF OutboxInv

\* Whatever drops the worker's row unrecorded remembers a copy handed over: the
\* statement that fails, the process that dies, the attempt to be repeated.
LEMMA DroppedInv ==
  ASSUME TypeOK, OutboxInv, NEW B \in SUBSET batch, batch' = B, turn' = NoRow,
         outcome' = "none", lost' = lost \cup Unrecorded,
         wait' = [r \in Rows |-> wait'[r]],
         \A r \in Rows : r # turn => wait'[r] = wait[r],
         \A r \in Rows : status[r] = "pending" /\ attempts[r] = 0 => wait'[r] = wait[r],
         UNCHANGED <<storeVars, status, attempts, copies, shown>>
  PROVE  TypeOK' /\ OutboxInv'
<1>1. outcome = "ok" => turn \in Rows
  BY DEF TypeOK, OutboxInv, WorkerInv
<1>2. UNCHANGED <<count, receptions, age, early, status, attempts, copies, shown>>
  BY DEF storeVars
<1>3. TypeOK'
  BY <1>1 DEF TypeOK, storeVars, Unrecorded
<1>4. RowInv'
  <2>1. \A r \in Rows : r # NoRow BY OutboxAssumption
  <2> QED BY <1>2, <2>1 DEF OutboxInv, RowInv
<1>5. WorkerInv'
  <2>1. \A r \in Rows : copies[r] > 0 => r \in lost' \/ status[r] \in {"delivered", "absent"}
    BY DEF OutboxInv, WorkerInv, Unrecorded
  <2>2. NoRow \notin B
    BY OutboxAssumption DEF TypeOK
  <2> QED BY <1>2, <2>1, <2>2 DEF OutboxInv, WorkerInv
<1>6. WindowSeen' /\ NothingGivenUp' /\ HandedOnce'
  BY <1>2 DEF OutboxInv, WindowSeen, NothingGivenUp, HandedOnce
<1> QED BY <1>3, <1>4, <1>5, <1>6 DEF OutboxInv

\* Recording an attempt, and failing to (markDelivered, reschedule, park).
LEMMA RecordInv ==
  ASSUME TypeOK, OutboxInv, Record
  PROVE  TypeOK' /\ OutboxInv'
<1>1. CASE MarkDelivered
  BY <1>1, CloseInv DEF MarkDelivered
<1>2. CASE Park
  BY <1>2, CloseInv DEF Park
<1>3. CASE Reschedule
  <2>1. turn \in Rows /\ outcome = "failed" /\ (status[turn] = "pending" => attempts[turn] > 0)
    BY <1>3 DEF TypeOK, OutboxInv, WorkerInv, Reschedule
  <2>2. /\ wait' = [r \in Rows |-> wait'[r]]
        /\ \A r \in Rows : r # turn => wait'[r] = wait[r]
        /\ status[turn] # "pending" => wait'[turn] = wait[turn]
    BY <1>3, <2>1 DEF TypeOK, Reschedule
  <2>3. \A r \in Rows : status[r] = "pending" /\ attempts[r] = 0 => wait'[r] = wait[r]
    BY <2>1, <2>2 DEF TypeOK
  <2>4. Unrecorded = {}
    BY <2>1 DEF Unrecorded
  <2> QED BY <1>3, <2>2, <2>3, <2>4, DroppedInv DEF Reschedule, Done
<1>4. CASE RecordFails
  BY <1>4, DroppedInv DEF RecordFails, Done, outboxVars, TypeOK
<1> QED BY <1>1, <1>2, <1>3, <1>4 DEF Record

\* The process dies with its batch.
LEMMA CrashInv ==
  ASSUME TypeOK, OutboxInv, Crash
  PROVE  TypeOK' /\ OutboxInv'
<1>1. /\ batch' = {} /\ turn' = NoRow /\ outcome' = "none" /\ lost' = lost \cup Unrecorded
      /\ wait' = wait /\ UNCHANGED <<storeVars, status, attempts, copies, shown>>
  BY DEF Crash, outboxVars
<1>2. wait' = [r \in Rows |-> wait'[r]]
  BY <1>1 DEF TypeOK
<1>3. {} \in SUBSET batch
  OBVIOUS
<1> QED BY <1>1, <1>2, <1>3, DroppedInv

\* What a tick takes from the wait it adds to the age.
LEMMA TickSum ==
  ASSUME NEW w \in Nat, NEW a \in Int, w > 0
  PROVE  w - 1 \in Nat /\ (w - 1) + (a + 1) = w + a
OBVIOUS

\* A message ages as fast as its rows come due.
LEMMA TickInv ==
  ASSUME TypeOK, OutboxInv, Tick
  PROVE  TypeOK' /\ OutboxInv'
<1>1. UNCHANGED <<classifier, count, telegram, reused, receptions, early, status, attempts,
                  batch, turn, outcome, copies, shown, lost>>
  BY DEF Tick, workerVars, ghostVars
<1>2. \A i \in Ids : /\ age[i] \in 0..ReceptionWindow
                     /\ age'[i] = IF i <= count /\ age[i] < ReceptionWindow THEN age[i] + 1 ELSE age[i]
                     /\ age'[i] \in 0..ReceptionWindow
  BY WindowAssumption DEF TypeOK, Tick
<1>3. \A r \in Rows : wait'[r] = IF wait[r] > 0 THEN wait[r] - 1 ELSE 0
  BY DEF Tick
<1>4. TypeOK'
  <2>1. age' \in [Ids -> 0..ReceptionWindow] /\ wait' = [r \in Rows |-> wait'[r]]
    BY <1>2 DEF Tick
  <2> QED BY <1>1, <2>1 DEF TypeOK
<1>5. RowInv'
  <2> SUFFICES ASSUME NEW r \in Rows
               PROVE  /\ status[r] = "pending" /\ attempts[r] = 0
                           => wait'[r] \in Nat /\ wait'[r] + age'[r[1]] = ReceptionWindow
                      /\ attempts[r] > 0 \/ copies[r] > 0 \/ r \in batch \cup {turn}
                           => r[1] <= count /\ age'[r[1]] = ReceptionWindow
    BY <1>1 DEF OutboxInv, RowInv
  <2>1. r[1] \in Ids /\ count \in Nat BY DEF TypeOK
  <2>2. ASSUME status[r] = "pending", attempts[r] = 0
        PROVE  wait'[r] \in Nat /\ wait'[r] + age'[r[1]] = ReceptionWindow
    <3>1. ~(r[1] > count) /\ wait[r] \in Nat /\ wait[r] + age[r[1]] = ReceptionWindow
      BY <2>2 DEF OutboxInv, RowInv
    <3>2. /\ age[r[1]] \in 0..ReceptionWindow
          /\ age'[r[1]] = IF age[r[1]] < ReceptionWindow THEN age[r[1]] + 1 ELSE age[r[1]]
      BY <2>1, <3>1, <1>2
    <3>3. CASE wait[r] > 0
      <4>1. age[r[1]] < ReceptionWindow BY <3>1, <3>2, <3>3, WindowAssumption
      <4>2. wait'[r] = wait[r] - 1 BY <3>3, <1>3
      <4>3. age'[r[1]] = age[r[1]] + 1 BY <3>2, <4>1
      <4>4. age[r[1]] \in Int BY <3>2, WindowAssumption
      <4>5. /\ wait[r] - 1 \in Nat
            /\ (wait[r] - 1) + (age[r[1]] + 1) = wait[r] + age[r[1]]
        BY <3>1, <3>3, <4>4, TickSum
      <4> QED BY <3>1, <4>2, <4>3, <4>5
    <3>4. CASE wait[r] = 0
      <4>1. age[r[1]] = ReceptionWindow BY <3>1, <3>2, <3>4, WindowAssumption
      <4>2. wait'[r] = 0 BY <3>1, <3>4, <1>3
      <4>3. age'[r[1]] = ReceptionWindow BY <3>2, <4>1, WindowAssumption
      <4> QED BY <4>2, <4>3, WindowAssumption
    <3> QED BY <3>1, <3>3, <3>4
  <2>3. attempts[r] > 0 \/ copies[r] > 0 \/ r \in batch \cup {turn}
          => r[1] <= count /\ age'[r[1]] = ReceptionWindow
    BY <2>1, <1>2, WindowAssumption DEF OutboxInv, RowInv
  <2> QED BY <2>2, <2>3
<1>6. WorkerInv' /\ WindowSeen' /\ HandedOnce' /\ NothingGivenUp'
  BY <1>1 DEF OutboxInv, WorkerInv, WindowSeen, HandedOnce, NothingGivenUp
<1> QED BY <1>4, <1>5, <1>6 DEF OutboxInv

-----------------------------------------------------------------------------
(* The theorems.                                                           *)

\* The inductive invariant holds before anything is received.
LEMMA InitInv == Init => TypeOK /\ StoreInv /\ OutboxInv
<1> SUFFICES ASSUME Init PROVE TypeOK /\ StoreInv /\ OutboxInv
  OBVIOUS
<1>1. TypeOK
  BY WindowAssumption, OutboxAssumption DEF Init, TypeOK
<1>2. StoreInv
  BY DEF Init, StoreInv, ClassifierInv, MessageInv, ReuseIsAnotherTelegram, HeardAround, Heard
<1>3. OutboxInv
  <2>1. RowInv
    BY OutboxAssumption DEF Init, RowInv
  <2>2. WorkerInv
    BY OutboxAssumption DEF Init, WorkerInv
  <2>3. WindowSeen /\ HandedOnce /\ NothingGivenUp
    BY DEF Init, WindowSeen, HandedOnce, NothingGivenUp
  <2> QED BY <2>1, <2>2, <2>3 DEF OutboxInv
<1> QED BY <1>1, <1>2, <1>3

\* Every step keeps it.
LEMMA NextInv ==
  ASSUME TypeOK, StoreInv, OutboxInv, [Next]_vars
  PROVE  TypeOK' /\ StoreInv' /\ OutboxInv'
<1>1. CASE \E s \in Stations, t \in Telegrams : Persist(s, t)
  <2>1. PICK s \in Stations, t \in Telegrams : Persist(s, t)
    BY <1>1
  <2>2. CASE PersistFirst(s, t)
    <3>1. persistNew(s, t, FALSE) /\ classifier' = RowOf(s, t, count + 1)
          /\ UNCHANGED <<workerVars, ghostVars>>
      BY <2>2 DEF PersistFirst
    <3>2. TypeOK' BY <3>1, PersistNewType
    <3>3. StoreInv' BY <3>1, PersistNewStore
    <3>4. OutboxInv' BY <3>1, PersistNewOutbox
    <3> QED BY <3>2, <3>3, <3>4
  <2>3. CASE PersistReused(s, t)
    <3>1. persistNew(s, t, TRUE) /\ classifier' = RowOf(s, t, count + 1)
          /\ UNCHANGED <<workerVars, ghostVars>>
          /\ classifier # NoRow /\ ~sameTelegram(s, t)
      BY <2>3 DEF PersistReused, ResetRow
    <3>2. TypeOK' BY <3>1, PersistNewType
    <3>3. StoreInv' BY <3>1, PersistNewStore
    <3>4. OutboxInv' BY <3>1, PersistNewOutbox
    <3> QED BY <3>2, <3>3, <3>4
  <2>4. CASE mergeDuplicate(s, t)
    BY <2>4, MergeStore, MergeOutbox
  <2> QED BY <2>1, <2>2, <2>3, <2>4 DEF Persist
<1>2. CASE ForgetEndpoint
  BY <1>2, ForgetStore, ForgetOutbox
<1>3. CASE \E i \in Ids : Purge(i)
  BY <1>3, PurgeStore, PurgeOutbox
<1>4. CASE \E D \in SUBSET Rows : ClaimDue(D)
  <2>1. StoreInv'
    BY <1>4, StoreUntouched DEF ClaimDue, storeVars
  <2> QED BY <1>4, <2>1, ClaimInv
<1>5. CASE \E r \in Rows : Attempt(r)
  <2>1. StoreInv'
    BY <1>5, StoreUntouched DEF Attempt, AttemptSucceeds, AttemptFails, AttemptInDoubt,
                                AttemptRefused, Attempted, storeVars
  <2> QED BY <1>5, <2>1, AttemptInv
<1>6. CASE Record
  <2>1. StoreInv'
    BY <1>6, StoreUntouched DEF Record, MarkDelivered, Reschedule, Park, RecordFails, Done,
                                storeVars
  <2> QED BY <1>6, <2>1, RecordInv
<1>7. CASE Crash
  <2>1. StoreInv'
    BY <1>7, StoreUntouched DEF Crash, storeVars
  <2> QED BY <1>7, <2>1, CrashInv
<1>8. CASE Tick
  <2>1. StoreInv'
    BY <1>8, StoreUntouched DEF Tick
  <2> QED BY <1>8, <2>1, TickInv
<1>9. CASE UNCHANGED vars
  <2>1. StoreInv'
    BY <1>9, StoreUntouched DEF vars, storeVars
  <2>2. TypeOK'
    BY <1>9 DEF TypeOK, vars, storeVars, outboxVars, workerVars, ghostVars
  <2>3. OutboxInv'
    BY <1>9 DEF OutboxInv, RowInv, WorkerInv, WindowSeen, HandedOnce, NothingGivenUp,
                vars, storeVars, outboxVars, workerVars, ghostVars
  <2> QED BY <2>1, <2>2, <2>3
<1> QED BY <1>1, <1>2, <1>3, <1>4, <1>5, <1>6, <1>7, <1>8, <1>9 DEF Next

\* The inductive invariant the outbox run checks holds in every behaviour, for
\* any telegrams, stations, channels and windows.
THEOREM UplinkInvariance == Spec => []UplinkInv
<1>1. Init => UplinkInv
  BY InitInv DEF UplinkInv, StoreInv, OutboxInv
<1>2. UplinkInv /\ [Next]_vars => UplinkInv'
  BY NextInv DEF UplinkInv, StoreInv, OutboxInv
<1> QED BY <1>1, <1>2, PTL DEF Spec

\* No copy of the telegram stored last is taken for a reuse of its counter
\* (sameTelegram, Persist).
THEOREM ReuseIsGenuine == Spec => []ReuseIsAnotherTelegram
<1>1. UplinkInv => ReuseIsAnotherTelegram
  BY DEF UplinkInv
<1> QED BY <1>1, UplinkInvariance, PTL

\* The receptions of one message are copies of one transmission
\* (mergeDuplicate, ErrPacketCounterCollision).
THEOREM MessagesAreOneTransmission == Spec => []OneTransmission
<1>1. UplinkInv => OneTransmission
  <2> SUFFICES ASSUME UplinkInv, NEW i \in Ids, NEW p \in receptions[i], NEW q \in receptions[i]
               PROVE  /\ Content[p[2]] = Content[q[2]]
                      /\ Abs(RxTime[p[2]][p[1]] - RxTime[q[2]][q[1]]) <= 2 * Window
    BY DEF OneTransmission
  <2>0. count \in Int /\ i \in Int /\ receptions[i] # {}
    BY OutboxAssumption DEF UplinkInv, TypeOK
  <2>1. i <= count
    BY <2>0 DEF UplinkInv, MessageInv
  <2>2. PICK s \in Stations : HeardAround(i, RxTime[telegram[i]][s])
    BY <2>1 DEF UplinkInv, MessageInv
  <2>3. telegram[i] \in Telegrams /\ p \in Stations \X Telegrams /\ q \in Stations \X Telegrams
    BY <2>1 DEF UplinkInv, MessageInv, TypeOK
  <2>4. /\ RxTime[telegram[i]][s] \in Nat
        /\ RxTime[p[2]][p[1]] \in Nat /\ RxTime[q[2]][q[1]] \in Nat
    BY <2>3, WindowAssumption
  <2>5. Abs(RxTime[p[2]][p[1]] - RxTime[q[2]][q[1]]) <= 2 * Window
    BY <2>2, <2>4, WindowAssumption DEF HeardAround, Abs
  <2>6. Content[p[2]] = Content[q[2]]
    BY DEF UplinkInv, MessageInv
  <2> QED BY <2>5, <2>6
<1> QED BY <1>1, UplinkInvariance, PTL

\* Every copy a consumer gets lists the stations heard while the reception
\* window was open (persistNew, ClaimDue).
THEOREM CopiesAreComplete == Spec => []WindowSeen
<1>1. UplinkInv => WindowSeen
  BY DEF UplinkInv
<1> QED BY <1>1, UplinkInvariance, PTL

\* A consumer gets a second copy only of a row whose record was lost (deliver).
THEOREM DeliveredOnce == Spec => []HandedOnce
<1>1. UplinkInv => HandedOnce
  BY DEF UplinkInv
<1> QED BY <1>1, UplinkInvariance, PTL

\* No row is closed unearned: a delivered one was handed over, a parked one has
\* no channel (deliver, RetryPolicy.Permanent).
THEOREM RowsClosedWhenEarned == Spec => []NothingGivenUp
<1>1. UplinkInv => NothingGivenUp
  BY DEF UplinkInv
<1> QED BY <1>1, UplinkInvariance, PTL
-----------------------------------------------------------------------------
(* The retry policy.                                                       *)

\* A nonempty set of numbers has a least one.
LEMMA LeastExists ==
  ASSUME NEW S \in SUBSET Nat, S # {}
  PROVE  \E x \in S : \A y \in S : x <= y
<1> DEFINE Less == {p \in Nat \X Nat : p[1] < p[2]}
<1>1. IsWellFoundedOn(Less, Nat)
  BY NatLessThanWellFounded DEF OpToRel
<1>2. \E x \in S : \A y \in S : ~(<<y, x>> \in Less)
  <2> HIDE DEF Less
  <2> QED BY <1>1, WFMin
<1>3. PICK x \in S : \A y \in S : ~(<<y, x>> \in Less)
  BY <1>2
<1>4. ASSUME NEW y \in S PROVE x <= y
  <2>1. x \in Nat /\ y \in Nat /\ <<y, x>> \in Nat \X Nat
    OBVIOUS
  <2>2. ~(y < x)
    BY <1>3, <2>1
  <2> QED BY <2>1, <2>2
<1> QED BY <1>4

\* A step on integers can be taken again and again from a start (the loop of
\* Delay computes something, however often it runs).
LEMMA Iterated ==
  ASSUME NEW a \in Int, NEW step \in [Int -> Int]
  PROVE  \E g \in [Nat -> Int] : g[0] = a /\ \A n \in Nat : g[n + 1] = step[g[n]]
<1> DEFINE Run(n, h) == /\ h \in [0..n -> Int]
                        /\ h[0] = a
                        /\ \A m \in 0..(n - 1) : h[m + 1] = step[h[m]]
           Bad == {n \in Nat : ~\E h : Run(n, h)}
<1>1. \A n \in Nat : \E h : Run(n, h)
  <2> SUFFICES ASSUME Bad # {} PROVE FALSE
    OBVIOUS
  <2>1. PICK n \in Bad : \A m \in Bad : n <= m
    BY LeastExists
  <2>2. CASE n = 0
    <3>1. Run(0, [m \in 0..0 |-> a])
      OBVIOUS
    <3> QED BY <2>1, <2>2, <3>1
  <2>3. CASE n # 0
    <3>1. n - 1 \in Nat /\ n \in Nat /\ ~(n <= n - 1)
      BY <2>3
    <3>2. PICK h : Run(n - 1, h)
      BY <2>1, <3>1
    <3> DEFINE k == [m \in 0..n |-> IF m = n THEN step[h[n - 1]] ELSE h[m]]
    <3>3. \A m \in 0..(n - 1) : h[m] \in Int
      BY <3>2
    <3>4. k \in [0..n -> Int]
      BY <3>1, <3>3
    <3>5. \A m \in 0..(n - 1) : k[m] = h[m]
      BY <3>1
    <3>6. k[n] = step[h[n - 1]]
      BY <3>1
    <3>7. ASSUME NEW m \in 0..(n - 1) PROVE k[m + 1] = step[k[m]]
      <4>1. CASE m = n - 1
        BY <3>1, <3>5, <3>6, <4>1
      <4>2. CASE m # n - 1
        <5>1. m \in 0..((n - 1) - 1) /\ m + 1 \in 0..(n - 1)
          BY <3>1, <4>2
        <5> HIDE DEF k
        <5> QED BY <3>2, <3>5, <5>1
      <4> QED BY <4>1, <4>2
    <3>8. k[0] = a
      BY <3>1, <3>2, <3>5
    <3>9. Run(n, k)
      <4> HIDE DEF k
      <4> QED BY <3>4, <3>7, <3>8
    <3> QED BY <2>1, <3>9
  <2> QED BY <2>2, <2>3
<1>2. ASSUME NEW n \in Nat, NEW h, NEW k, Run(n, h), Run(n + 1, k)
      PROVE  h[n] = k[n]
  <2> DEFINE D == {m \in 0..n : h[m] # k[m]}
  <2> SUFFICES ASSUME D # {} PROVE FALSE
    OBVIOUS
  <2>1. PICK m \in D : \A q \in D : m <= q
    <3>1. D \in SUBSET Nat
      OBVIOUS
    <3> HIDE DEF D
    <3> QED BY <3>1, LeastExists
  <2>2. m # 0 /\ m \in Nat /\ m <= n
    BY <1>2, <2>1
  <2>3. m - 1 \in 0..n /\ m - 1 \in 0..(n - 1) /\ m - 1 \in 0..((n + 1) - 1) /\ ~(m <= m - 1) /\ (m - 1) + 1 = m
    BY <2>2
  <2>4. h[m - 1] = k[m - 1]
    BY <2>1, <2>3
  <2>5. h[m] = step[h[m - 1]] /\ k[m] = step[k[m - 1]]
    BY <1>2, <2>3
  <2> QED BY <2>1, <2>4, <2>5
<1> DEFINE G(n) == CHOOSE h : Run(n, h)
           g == [n \in Nat |-> G(n)[n]]
<1>3. \A n \in Nat : Run(n, G(n))
  BY <1>1
<1> HIDE DEF G
<1>4. g \in [Nat -> Int]
  <2>1. \A n \in Nat : G(n)[n] \in Int
    BY <1>3
  <2> QED BY <2>1
<1>5. g[0] = a
  BY <1>3
<1>6. ASSUME NEW n \in Nat PROVE g[n + 1] = step[g[n]]
  <2>1. g[n + 1] = G(n + 1)[n + 1] /\ g[n] = G(n)[n]
    OBVIOUS
  <2>2. n \in 0..((n + 1) - 1)
    OBVIOUS
  <2>3. Run(n + 1, G(n + 1)) /\ Run(n, G(n))
    <3>1. n + 1 \in Nat
      OBVIOUS
    <3> HIDE DEF Run
    <3> QED BY <1>3, <3>1
  <2>4. G(n + 1)[n + 1] = step[G(n + 1)[n]]
    BY <2>2, <2>3
  <2>5. G(n)[n] = G(n + 1)[n]
    <3> HIDE DEF Run
    <3> QED BY <1>2, <2>3
  <2> QED BY <2>1, <2>4, <2>5
<1> HIDE DEF g
<1> QED BY <1>4, <1>5, <1>6

\* The loop of Delay, step by step: a function as backoff is defined exists.
LEMMA BackoffSteps ==
  /\ backoff[1] = BaseDelay
  /\ \A n \in Nat \ {0} :
       backoff[n + 1] = IF backoff[n] > MaxDelay \div 2 THEN MaxDelay ELSE 2 * backoff[n]
<1> DEFINE step == [x \in Int |-> IF x > MaxDelay \div 2 THEN MaxDelay ELSE 2 * x]
           Def(f) == [n \in Nat |-> IF n <= 1 THEN BaseDelay
                                   ELSE IF f[n - 1] > MaxDelay \div 2 THEN MaxDelay ELSE 2 * f[n - 1]]
<1>1. step \in [Int -> Int] /\ BaseDelay \in Int
  BY OutboxAssumption
<1>2. PICK g \in [Nat -> Int] : g[0] = BaseDelay /\ \A n \in Nat : g[n + 1] = step[g[n]]
  <2>1. \A h \in [Int -> Int], b \in Int :
          \E g \in [Nat -> Int] : g[0] = b /\ \A n \in Nat : g[n + 1] = h[g[n]]
    BY Iterated
  <2> HIDE DEF step
  <2> QED BY <1>1, <2>1
<1> DEFINE f == [n \in Nat |-> IF n = 0 THEN BaseDelay ELSE g[n - 1]]
<1>3. ASSUME NEW n \in Nat PROVE f[n] = Def(f)[n]
  <2>1. CASE n <= 1
    BY <1>2, <2>1
  <2>2. CASE n > 1
    <3>1. n - 2 \in Nat /\ (n - 2) + 1 = n - 1 /\ n - 1 \in Nat /\ n # 0 /\ n - 1 # 0 /\ (n - 1) - 1 = n - 2
      BY <2>2
    <3>2. f[n] = g[n - 1] /\ f[n - 1] = g[n - 2] /\ g[n - 2] \in Int
      BY <3>1
    <3>3. g[n - 1] = step[g[n - 2]]
      BY <1>2, <3>1
    <3>4. Def(f)[n] = IF f[n - 1] > MaxDelay \div 2 THEN MaxDelay ELSE 2 * f[n - 1]
      <4> HIDE DEF f
      <4> QED BY <2>2
    <3> HIDE DEF f
    <3> QED BY <3>2, <3>3, <3>4
  <2> QED BY <2>1, <2>2
<1>4. f = Def(f)
  <2>1. DOMAIN f = Nat /\ f = [n \in Nat |-> f[n]]
    OBVIOUS
  <2>2. Def(f) = [n \in Nat |-> Def(f)[n]]
    OBVIOUS
  <2> HIDE DEF f, Def
  <2> QED BY <1>3, <2>1, <2>2
<1>5. backoff = Def(backoff)
  <2>1. backoff = CHOOSE h : h = Def(h)
    BY DEF backoff
  <2> HIDE DEF f, Def
  <2> QED BY <1>4, <2>1
<1>6. \A n \in Nat : backoff[n] = Def(backoff)[n]
  BY <1>5
<1>7. backoff[1] = BaseDelay
  BY <1>6
<1>8. ASSUME NEW n \in Nat \ {0}
      PROVE  backoff[n + 1] = IF backoff[n] > MaxDelay \div 2 THEN MaxDelay ELSE 2 * backoff[n]
  <2>1. n + 1 \in Nat /\ ~(n + 1 <= 1) /\ (n + 1) - 1 = n
    OBVIOUS
  <2> QED BY <1>6, <2>1
<1> QED BY <1>7, <1>8

\* The reference: doubled without a cap.
LEMMA DoubledSteps ==
  /\ doubled[0] = BaseDelay
  /\ \A n \in Nat : doubled[n + 1] = 2 * doubled[n]
<1> DEFINE step == [x \in Int |-> 2 * x]
           Def(f) == [n \in Nat |-> IF n = 0 THEN BaseDelay ELSE 2 * f[n - 1]]
<1>1. step \in [Int -> Int] /\ BaseDelay \in Int
  BY OutboxAssumption
<1>2. PICK g \in [Nat -> Int] : g[0] = BaseDelay /\ \A n \in Nat : g[n + 1] = step[g[n]]
  <2>1. \A h \in [Int -> Int], b \in Int :
          \E g \in [Nat -> Int] : g[0] = b /\ \A n \in Nat : g[n + 1] = h[g[n]]
    BY Iterated
  <2> HIDE DEF step
  <2> QED BY <1>1, <2>1
<1>3. ASSUME NEW n \in Nat PROVE g[n] = Def(g)[n]
  <2>1. CASE n = 0
    BY <1>2, <2>1
  <2>2. CASE n # 0
    <3>1. n - 1 \in Nat /\ (n - 1) + 1 = n /\ g[n - 1] \in Int
      BY <2>2
    <3> QED BY <1>2, <2>2, <3>1
  <2> QED BY <2>1, <2>2
<1>4. g = Def(g)
  <2>1. g = [n \in Nat |-> g[n]] /\ Def(g) = [n \in Nat |-> Def(g)[n]]
    OBVIOUS
  <2> HIDE DEF Def
  <2> QED BY <1>3, <2>1
<1>5. doubled = Def(doubled)
  <2>1. doubled = CHOOSE h : h = Def(h)
    BY DEF doubled
  <2> HIDE DEF Def
  <2> QED BY <1>4, <2>1
<1>6. \A n \in Nat : doubled[n] = Def(doubled)[n]
  BY <1>5
<1>7. doubled[0] = BaseDelay
  BY <1>6
<1>8. ASSUME NEW n \in Nat PROVE doubled[n + 1] = 2 * doubled[n]
  <2>1. n + 1 \in Nat /\ n + 1 # 0 /\ (n + 1) - 1 = n
    OBVIOUS
  <2> QED BY <1>6, <2>1
<1> QED BY <1>7, <1>8

\* Doubling half-way and stopping there is doubling all the way and capping: the
\* comparison with MaxDelay \div 2 neither stops early nor overshoots.
LEMMA DelayIsCapped ==
  ASSUME NEW n \in Nat \ {0}
  PROVE  /\ doubled[n - 1] \in Nat \ {0}
         /\ Delay(n) = IF doubled[n - 1] < MaxDelay THEN doubled[n - 1] ELSE MaxDelay
<1> DEFINE Good(m) == /\ doubled[m - 1] \in Nat \ {0} /\ backoff[m] \in Nat
                      /\ Delay(m) = IF doubled[m - 1] < MaxDelay THEN doubled[m - 1] ELSE MaxDelay
           Bad == {m \in Nat \ {0} : ~Good(m)}
<1> SUFFICES ASSUME Bad # {} PROVE FALSE
  OBVIOUS
<1>1. PICK m \in Bad : \A q \in Bad : m <= q
  <2>1. Bad \in SUBSET Nat
    OBVIOUS
  <2> HIDE DEF Bad
  <2> QED BY <2>1, LeastExists
<1>2. CASE m = 1
  <2>1. doubled[1 - 1] = BaseDelay
    BY DoubledSteps
  <2> QED BY <1>1, <1>2, <2>1, BackoffSteps, OutboxAssumption DEF Delay
<1>3. CASE m # 1
  <2> DEFINE p == m - 1
             d == doubled[p - 1]
  <2>1. p \in Nat \ {0} /\ p + 1 = m /\ ~(m <= p) /\ p - 1 \in Nat /\ (p - 1) + 1 = m - 1
    BY <1>1, <1>3
  <2>2. Good(p)
    <3> HIDE DEF Good
    <3> QED BY <1>1, <2>1
  <2>3. /\ d \in Nat \ {0} /\ backoff[p] \in Nat
        /\ backoff[p] < MaxDelay \/ d < MaxDelay => backoff[p] = d
    BY <2>2, OutboxAssumption DEF Delay
  <2>4. doubled[m - 1] = 2 * d
    BY <2>1, DoubledSteps
  <2>5. backoff[m] = IF backoff[p] > MaxDelay \div 2 THEN MaxDelay ELSE 2 * backoff[p]
    BY <2>1, BackoffSteps
  <2>6. /\ MaxDelay \in Nat /\ MaxDelay \div 2 \in Nat
        /\ 2 * (MaxDelay \div 2) <= MaxDelay /\ MaxDelay < 2 * (MaxDelay \div 2) + 2
    BY OutboxAssumption
  <2> HIDE DEF p, d
  <2>7. Good(m)
    BY <2>3, <2>4, <2>5, <2>6 DEF Delay
  <2> HIDE DEF Good
  <2> QED BY <1>1, <2>7
<1> QED BY <1>2, <1>3

\* A row with a failed attempt behind it is due again within the lease.
WaitInv == \A r \in Rows : attempts[r] > 0 => wait[r] \in 0..Lease

\* What Delay returns is a wait, and none above the cap.
LEMMA DelayBounded ==
  ASSUME NEW n \in Nat \ {0}
  PROVE  Delay(n) \in 0..Lease
<1> DEFINE d == doubled[n - 1]
<1>1. d \in Nat \ {0} /\ Delay(n) = IF d < MaxDelay THEN d ELSE MaxDelay
  BY DelayIsCapped
<1> HIDE DEF d
<1> QED BY <1>1, OutboxAssumption DEF Lease

\* A row waits longer than its lease only for its reception window: each step
\* shortens a wait, sets it to the lease or to what Delay returns, or clears the
\* attempts with the row.
LEMMA WaitKept ==
  ASSUME UplinkInv, WaitInv, [Next]_vars
  PROVE  WaitInv'
<1>1. TypeOK /\ RowInv /\ WorkerInv
  BY DEF UplinkInv
<1>2. CASE UNCHANGED <<attempts, wait>>
  BY <1>2 DEF WaitInv, Lease
<1>3. ASSUME NEW s \in Stations, NEW t \in Telegrams, NEW b \in BOOLEAN, persistNew(s, t, b)
      PROVE  WaitInv'
  <2>1. /\ \A r \in Rows : r[1] # count + 1 => wait'[r] = wait[r]
        /\ attempts' = attempts
    BY <1>3 DEF persistNew
  <2>2. ASSUME NEW r \in Rows, r[1] = count + 1 PROVE attempts[r] = 0
    <3>1. count \in Nat /\ r[1] > count
      BY <1>1, <2>2 DEF TypeOK
    <3> QED BY <1>1, <3>1 DEF RowInv
  <2> QED BY <2>1, <2>2 DEF WaitInv, Lease
<1>4. CASE \E s \in Stations, t \in Telegrams : Persist(s, t)
  <2>1. PICK s \in Stations, t \in Telegrams : Persist(s, t)
    BY <1>4
  <2>2. CASE PersistFirst(s, t)
    BY <1>3, <2>2 DEF PersistFirst
  <2>3. CASE PersistReused(s, t)
    BY <1>3, <2>3 DEF PersistReused
  <2>4. CASE mergeDuplicate(s, t)
    BY <1>2, <2>4 DEF mergeDuplicate, outboxVars
  <2> QED BY <2>1, <2>2, <2>3, <2>4 DEF Persist
<1>5. CASE ForgetEndpoint
  BY <1>2, <1>5 DEF ForgetEndpoint, outboxVars
<1>6. CASE \E i \in Ids : Purge(i)
  <2>1. PICK i \in Ids : Purge(i)
    BY <1>6
  <2>2. \A r \in Rows : attempts'[r] > 0 => attempts'[r] = attempts[r] /\ wait'[r] = wait[r]
    BY <2>1 DEF Purge
  <2> QED BY <2>2 DEF WaitInv, Lease
<1>7. ASSUME NEW D \in SUBSET Rows, ClaimDue(D) PROVE WaitInv'
  <2>1. ASSUME NEW r \in Rows, attempts'[r] > 0 PROVE wait'[r] \in 0..Lease
    <3>1. CASE r \in D
      BY <1>7, <3>1, OutboxAssumption DEF ClaimDue, Lease
    <3>2. CASE r \notin D
      BY <1>7, <2>1, <3>2 DEF ClaimDue, WaitInv
    <3> QED BY <3>1, <3>2
  <2> QED BY <2>1 DEF WaitInv, Lease
<1>8. CASE \E r \in Rows : Attempt(r)
  BY <1>2, <1>8 DEF Attempt, AttemptSucceeds, AttemptFails, AttemptInDoubt, AttemptRefused,
                    Attempted, outboxVars
<1>9. CASE Record
  <2>1. CASE Reschedule
    <3>1. turn \in Rows /\ (status[turn] = "pending" => attempts[turn] \in Nat \ {0})
      <4>1. turn # NoRow
        BY <1>1, <2>1 DEF WorkerInv, Reschedule
      <4>2. turn \in Rows
        BY <1>1, <4>1 DEF TypeOK
      <4>3. attempts[turn] \in Nat
        <5>1. attempts[turn] \in 0..AttemptCap
          BY <1>1, <4>2 DEF TypeOK
        <5> QED BY <5>1, OutboxAssumption
      <4>4. status[turn] = "absent" \/ (status[turn] = "pending" /\ attempts[turn] > 0)
        BY <1>1, <4>1 DEF WorkerInv
      <4> QED BY <4>2, <4>3, <4>4
    <3>2. attempts' = attempts
      BY <2>1 DEF Reschedule
    <3>3. ASSUME NEW r \in Rows, attempts[r] > 0 PROVE wait'[r] \in 0..Lease
      <4>1. CASE r = turn /\ status[turn] = "pending"
        <5>1. wait'[r] = Delay(attempts[turn])
          BY <1>1, <2>1, <3>1, <4>1 DEF Reschedule, TypeOK
        <5> QED BY <3>1, <4>1, <5>1, DelayBounded
      <4>2. CASE ~(r = turn /\ status[turn] = "pending")
        <5>1. wait'[r] = wait[r]
          BY <1>1, <2>1, <3>1, <4>2 DEF Reschedule, TypeOK
        <5> QED BY <3>3, <5>1 DEF WaitInv
      <4> QED BY <4>1, <4>2
    <3> QED BY <3>2, <3>3 DEF WaitInv, Lease
  <2>2. CASE MarkDelivered \/ Park \/ RecordFails
    BY <1>2, <2>2 DEF MarkDelivered, Park, RecordFails, outboxVars
  <2> QED BY <1>9, <2>1, <2>2 DEF Record
<1>10. CASE Crash
  BY <1>2, <1>10 DEF Crash, outboxVars
<1>11. CASE Tick
  <2>1. /\ attempts' = attempts
        /\ \A r \in Rows : wait'[r] = IF wait[r] > 0 THEN wait[r] - 1 ELSE 0
    BY <1>11 DEF Tick
  <2>2. Lease \in Nat
    BY OutboxAssumption DEF Lease
  <2>3. ASSUME NEW r \in Rows, attempts[r] > 0 PROVE wait'[r] \in 0..Lease
    <3>1. wait[r] \in 0..Lease
      BY <2>3 DEF WaitInv
    <3> QED BY <2>1, <2>2, <3>1
  <2> QED BY <2>1, <2>3 DEF WaitInv, Lease
<1>12. CASE UNCHANGED vars
  BY <1>2, <1>12 DEF vars, outboxVars
<1> QED BY <1>4, <1>5, <1>6, <1>7, <1>8, <1>9, <1>10, <1>11, <1>12 DEF Next

\* The wait before the next attempt is the base delay doubled with each failed
\* one, up to the cap, and no failed or lost attempt is retried later than the
\* cap (Delay, Lease): for every base, cap and number of attempts.
THEOREM RetriesWithinTheCap == Spec => []BackoffDoublesToCap
<1>1. Init => WaitInv
  BY DEF Init, WaitInv
<1>2. UplinkInv /\ UplinkInv' /\ WaitInv /\ [Next]_vars => WaitInv'
  BY WaitKept
<1>3. UplinkInv /\ WaitInv => BackoffDoublesToCap
  <2> SUFFICES ASSUME UplinkInv, WaitInv, NEW r \in Rows, attempts[r] > 0
               PROVE  /\ Delay(attempts[r]) = IF doubled[attempts[r] - 1] < MaxDelay
                                              THEN doubled[attempts[r] - 1] ELSE MaxDelay
                      /\ wait[r] <= Lease
    BY DEF BackoffDoublesToCap
  <2>1. attempts[r] \in Nat \ {0}
    BY OutboxAssumption DEF UplinkInv, TypeOK
  <2>2. wait[r] \in 0..Lease /\ Lease \in Nat
    BY OutboxAssumption DEF WaitInv, Lease
  <2>3. wait[r] <= Lease
    BY <2>2
  <2> QED BY <2>1, <2>3, DelayIsCapped
<1> QED BY <1>1, <1>2, <1>3, UplinkInvariance, PTL DEF Spec
=============================================================================
