------------------------- MODULE AttachmentProofs --------------------------
(***************************************************************************)
(* Proofs about Attachment, for any set of stations, telegrams and calls   *)
(* under way.                                                              *)
(***************************************************************************)
EXTENDS Attachment, TLAPS, SequenceTheorems, WellFoundedInduction

PCs   == {"idle", "key", "sign", "snapshot", "attached", "missed", "begin", "frame"}
Kinds == {"none", "attach", "trigger", "detach", "otaDetach", "reconcile"}
Sess  == {"here", "gone", "ended"}

\* A goroutine's record keeps its type when one field of it is assigned.
LEMMA JobFields ==
  ASSUME NEW r \in JobType
  PROVE  /\ \A x \in PCs : [r EXCEPT !.pc = x] \in JobType
         /\ \A x \in Kinds : [r EXCEPT !.kind = x] \in JobType
         /\ \A x \in SUBSET Stations : [r EXCEPT !.targets = x] \in JobType
         /\ \A x \in Seq({"key", "begin"}) : [r EXCEPT !.todo = x] \in JobType
         /\ \A x \in Stations \cup {NoStation} : [r EXCEPT !.cur = x] \in JobType
         /\ \A x \in Contents : [r EXCEPT !.what = x] \in JobType
         /\ \A x \in Nat : [r EXCEPT !.op = x] \in JobType
         /\ \A x \in Sess : [r EXCEPT !.sess = x] \in JobType
  BY DEF JobType, PCs, Kinds, Sess

\* No goroutine.
LEMMA IdleType == Idle \in JobType
  BY DEF Idle, JobType, Contents

\* The fields of a goroutine's record.
LEMMA JobParts ==
  ASSUME NEW r \in JobType
  PROVE  /\ r.pc \in PCs /\ r.kind \in Kinds /\ r.targets \in SUBSET Stations
         /\ r.todo \in Seq({"key", "begin"}) /\ r.cur \in Stations \cup {NoStation}
         /\ r.what \in Contents /\ r.op \in Nat /\ r.sess \in Sess
  BY DEF JobType, PCs, Kinds, Sess

\* Where a propagation goes on (sendEach, the loops over the sessions): it is
\* over, or a reconciliation is at its next send, or a fan-out at one of the
\* sessions it had left, its key kept or to be read again.  None of those is lost.
LEMMA OnwardFacts ==
  ASSUME NEW r \in JobType, NEW o \in Onward(r)
  PROVE  /\ o \in JobType
         /\ \/ o = Idle
            \/ /\ r.kind = "reconcile" /\ o.kind = r.kind
               /\ o.pc \in {"key", "begin"} /\ o.what = Detach
               /\ o.cur = r.cur /\ o.sess = r.sess /\ o.targets = r.targets
            \/ /\ r.kind # "reconcile" /\ o.kind = r.kind
               /\ o.cur \in r.targets /\ o.sess = "here" /\ o.targets \subseteq r.targets
               /\ IF r.kind = "trigger" THEN o.pc = "key" /\ o.what = Detach
                  ELSE o.pc = "begin" /\ o.what = r.what
         /\ r.kind = "reconcile" => (o = Idle <=> r.todo = <<>>)
         /\ r.kind # "reconcile" => /\ o = Idle <=> r.targets = {}
                                   /\ \A s \in r.targets : o.cur = s \/ s \in o.targets
<1> USE JobParts
<1>1. CASE r.kind = "reconcile" /\ r.todo = <<>>
  BY <1>1, IdleType DEF Onward
<1>2. CASE r.kind = "reconcile" /\ r.todo # <<>>
  <2>1. o = [r EXCEPT !.pc = Head(r.todo), !.todo = Tail(@), !.what = Detach, !.op = 0]
    BY <1>2 DEF Onward
  <2>2. Head(r.todo) \in {"key", "begin"} /\ Tail(r.todo) \in Seq({"key", "begin"})
    BY <1>2
  <2>3. [r EXCEPT !.pc = Head(r.todo)] \in JobType
    BY <2>2, JobFields DEF PCs
  <2>4. [[r EXCEPT !.pc = Head(r.todo)] EXCEPT !.todo = Tail(r.todo)] \in JobType
    BY <2>2, <2>3, JobFields
  <2>5. [[[r EXCEPT !.pc = Head(r.todo)] EXCEPT !.todo = Tail(r.todo)] EXCEPT !.what = Detach] \in JobType
    BY <2>4, JobFields DEF Contents
  <2>6. [[[[r EXCEPT !.pc = Head(r.todo)] EXCEPT !.todo = Tail(r.todo)] EXCEPT !.what = Detach] EXCEPT !.op = 0] \in JobType
    BY <2>5, JobFields
  <2>7. o = [[[[r EXCEPT !.pc = Head(r.todo)] EXCEPT !.todo = Tail(r.todo)] EXCEPT !.what = Detach] EXCEPT !.op = 0]
    BY <2>1 DEF JobType
  <2>8. o.pc \in {"key", "begin"} /\ Idle.pc = "idle"
    BY <2>1, <2>2 DEF JobType, Idle
  <2> QED BY <1>2, <2>1, <2>2, <2>6, <2>7, <2>8 DEF JobType
<1>3. CASE r.kind # "reconcile" /\ r.targets = {}
  BY <1>3, IdleType DEF Onward
<1>4. CASE r.kind # "reconcile" /\ r.targets # {}
  <2> DEFINE p == IF r.kind = "trigger" THEN "key" ELSE "begin"
             w == IF r.kind = "trigger" THEN Detach ELSE r.what
  <2>1. PICK s \in r.targets :
          o = [r EXCEPT !.pc = p, !.cur = s, !.sess = "here", !.targets = @ \ {s}, !.what = w, !.op = 0]
    BY <1>4, Zenon DEF Onward
  <2>2. p \in PCs /\ w \in Contents /\ s \in Stations
    BY DEF PCs, Contents
  <2> HIDE DEF p, w
  <2> DEFINE r1 == [r EXCEPT !.pc = p]
             r2 == [r1 EXCEPT !.cur = s]
             r3 == [r2 EXCEPT !.sess = "here"]
             r4 == [r3 EXCEPT !.targets = r.targets \ {s}]
             r5 == [r4 EXCEPT !.what = w]
             r6 == [r5 EXCEPT !.op = 0]
  <2>3. r1 \in JobType
    BY <2>2, JobFields
  <2> HIDE DEF r1
  <2>4. r2 \in JobType
    BY <2>2, <2>3, JobFields
  <2> HIDE DEF r2
  <2>5. r3 \in JobType
    BY <2>4, JobFields DEF Sess
  <2> HIDE DEF r3
  <2>6. r4 \in JobType
    BY <2>5, JobFields
  <2> HIDE DEF r4
  <2>7. r5 \in JobType
    BY <2>2, <2>6, JobFields
  <2> HIDE DEF r5
  <2>11. r6 \in JobType
    BY <2>7, JobFields
  <2>8. o = r6
    BY <2>1 DEF r1, r2, r3, r4, r5, r6, JobType
  <2>9. o.pc = p /\ o.what = w /\ o.cur = s /\ o.sess = "here" /\ o.targets = r.targets \ {s} /\ o.kind = r.kind
    BY <2>1 DEF JobType
  <2>10. Idle.pc = "idle" /\ o # Idle
    BY <2>9 DEF Idle, p
  <2> QED BY <1>4, <2>8, <2>9, <2>10, <2>11 DEF p, w
<1> QED BY <1>1, <1>2, <1>3, <1>4

\* A nonempty set of positions has a first one.
LEMMA LeastExists ==
  ASSUME NEW S \in SUBSET Nat, S # {}
  PROVE  \E x \in S : \A y \in S : x <= y
<1> DEFINE Less == {p \in Nat \X Nat : p[1] < p[2]}
<1>1. IsWellFoundedOn(Less, Nat)
  BY NatLessThanWellFounded DEF OpToRel
<1>2. \E x \in S : \A y \in S : ~(<<y, x>> \in Less)
  <2> HIDE DEF Less
  <2> QED BY <1>1, WFMin
<1>3. PICK x \in S : \A y \in S : ~(<<y, x>> \in Less)
  BY <1>2
<1>4. ASSUME NEW y \in S PROVE x <= y
  <2>1. x \in Nat /\ y \in Nat /\ <<y, x>> \in Nat \X Nat
    OBVIOUS
  <2>2. ~(y < x)
    BY <1>3, <2>1
  <2> QED BY <2>1, <2>2
<1> QED BY <1>4

\* A record of the pending list is removed (Settled).
LEMMA RemoveFirstType ==
  ASSUME NEW S, NEW q \in Seq(S), NEW e
  PROVE  RemoveFirst(q, e) \in Seq(S)
<1>1. CASE \E i \in 1..Len(q) : q[i] = e
  <2> DEFINE I == {i \in 1..Len(q) : q[i] = e}
  <2>1. PICK x \in I : \A y \in I : x <= y
    <3>1. I \in SUBSET Nat /\ I # {}
      BY <1>1
    <3> QED BY <3>1, LeastExists
  <2>2. Min(I) \in I
    BY <2>1, Zenon DEF Min
  <2>3. RemoveFirst(q, e) = RemoveAt(q, Min(I))
    BY <1>1, <2>1 DEF RemoveFirst, SelectInSeq
  <2> DEFINE n == Min(I)
  <2>4. n \in 1..Len(q)
    BY <2>2
  <2> HIDE DEF n
  <2>5. RemoveAt(q, n) \in Seq(S)
    BY <2>4 DEF RemoveAt
  <2> QED BY <2>3, <2>5 DEF n
<1>2. CASE ~ \E i \in 1..Len(q) : q[i] = e
  BY <1>2 DEF RemoveFirst
<1> QED BY <1>1, <1>2

-----------------------------------------------------------------------------
(* Types.                                                                  *)

Registered == {"reissuing", "live", "broken"}

\* A station has one answer at most on its way to it.
OneAnswer ==
  \A s \in Stations : \A i, k \in DOMAIN wire[s] :
    wire[s][i].kind = "rsp" /\ wire[s][k].kind = "rsp" => i = k

\* Only an att is checked against the counter.
CheckedIsAttach == \A s \in Stations : hear[s].pc = "checked" => hear[s].what # Detach

\* A propagation whose session was not taken out of the registry works on a
\* registered one.
SessionsThere ==
  \A j \in Jobs :
    /\ jobs[j].cur \in Stations /\ jobs[j].sess = "here" => link[jobs[j].cur] \in Registered
    /\ \A s \in jobs[j].targets : link[s] \in Registered

\* Where a propagation can be: a reconciliation serves one station, a fan-out
\* none before it has read the sessions, and only a fan-out has sessions left.
Staged(r) ==
  /\ r.pc \in {"idle", "snapshot"} => r.targets = {}
  /\ r.kind = "reconcile" => r.targets = {} /\ r.pc # "snapshot" /\ r.cur \in Stations
  /\ r.pc \in {"attached", "missed"} => r.kind = "reconcile"
  /\ r.kind = "attach" /\ r.pc \in {"key", "sign"} => r.targets = {} /\ r.cur = NoStation
  /\ r.pc \in {"begin", "frame"} => r.cur \in Stations
  /\ r.pc = "snapshot" /\ r.kind = "trigger" => r.cur = NoStation
  /\ r.pc \in {"key", "sign"} /\ r.kind # "attach" => r.cur \in Stations

AllStaged == \A j \in Jobs : Staged(jobs[j])

\* What the invariant says of the goroutines.
JobsOK == jobs \in [Jobs -> JobType] /\ SessionsThere /\ AllStaged

TypeInv == TypeOK /\ OneAnswer /\ CheckedIsAttach /\ SessionsThere /\ AllStaged

\* A propagation that goes on is at a station, or over.
LEMMA OnwardStaged ==
  ASSUME NEW r \in JobType, NEW o \in Onward(r),
         r.kind = "reconcile" => r.targets = {} /\ r.cur \in Stations
  PROVE  Staged(o)
<1>1. CASE o = Idle
  BY <1>1 DEF Idle, Staged
<1>2. CASE o # Idle /\ r.kind = "reconcile"
  BY <1>2, OnwardFacts DEF Staged
<1>3. CASE o # Idle /\ r.kind # "reconcile"
  BY <1>3, OnwardFacts, JobParts DEF Staged
<1> QED BY <1>1, <1>2, <1>3

\* No key is the content of a detach.
LEMMA KeysApart == Detach \notin Keys /\ Detach \in Contents /\ Telegrams \subseteq Keys /\ PreShared \in Keys
                   /\ Keys \subseteq Contents /\ Contents \ {Detach} \subseteq Keys
  BY AttachmentAssumption DEF Keys, PreShared, Detach, Contents

\* The actions of a station, and of a goroutine.
StationStep(s) ==
  \/ \E a \in Telegrams : Attach(s, a)
  \/ Serve(s) \/ ServeFails(s) \/ DetachReported(s)
  \/ \E j \in Jobs : AttachComplete(s, j) \/ DetachComplete(s, j) \/ Reissue(s, j)
  \/ Deliver(s) \/ Refuse(s) \/ Break(s) \/ Unregister(s) \/ MarkDisconnected(s)
  \/ Connect(s) \/ Activate(s)

JobStep(j) ==
  \/ AttachEndPoint(j) \/ DetachEndPoint(j)
  \/ ReadSession(j) \/ ReadKey(j) \/ Snapshot(j)
  \/ ReadAttached(j) \/ ReadDetached(j)
  \/ Begin(j) \/ Frame(j) \/ SendFails(j)

\* A step is a station's, a goroutine's or the death of the process.
LEMMA NextCases == Next => (\E s \in Stations : StationStep(s)) \/ (\E j \in Jobs : JobStep(j)) \/ Crash
  BY Zenon DEF Next, StationStep, JobStep, Free

\* The session's key is read, or nonce and signature after it (NetworkSessionKey):
\* the propagation stays with its stations, and at the second has its key.
LEMMA KeyReads ==
  ASSUME TypeInv, NEW j \in Jobs, ReadSession(j) \/ ReadKey(j)
  PROVE  \E r \in JobType :
           /\ jobs' = [jobs EXCEPT ![j] = r]
           /\ r.kind = jobs[j].kind /\ r.cur = jobs[j].cur /\ r.sess = jobs[j].sess
           /\ r.targets = jobs[j].targets /\ r.todo = jobs[j].todo
           /\ \/ jobs[j].pc = "key" /\ r.pc = "sign" /\ r.what = sessionKey
              \/ /\ jobs[j].pc = "sign" /\ r.what = CurrentNetworkSessionKey(jobs[j].what)
                 /\ r.pc = IF jobs[j].kind = "attach" THEN "snapshot" ELSE "begin"
<1>0. jobs[j] \in JobType /\ sessionKey \in Contents
  BY KeysApart DEF TypeInv, TypeOK
<1>1. CASE ReadSession(j)
  <2> DEFINE r == [jobs[j] EXCEPT !.what = sessionKey, !.pc = "sign"]
  <2>1. jobs' = [jobs EXCEPT ![j] = r] /\ jobs[j].pc = "key"
    BY <1>1 DEF ReadSession, Job
  <2>2. /\ r \in JobType /\ r.kind = jobs[j].kind /\ r.cur = jobs[j].cur /\ r.sess = jobs[j].sess
        /\ r.targets = jobs[j].targets /\ r.todo = jobs[j].todo /\ r.pc = "sign" /\ r.what = sessionKey
    BY <1>0 DEF JobType
  <2> HIDE DEF r
  <2> QED BY <2>1, <2>2
<1>2. CASE ReadKey(j)
  <2> DEFINE k == CurrentNetworkSessionKey(jobs[j].what)
             p == IF jobs[j].kind = "attach" THEN "snapshot" ELSE "begin"
             r == [jobs[j] EXCEPT !.what = k, !.pc = p]
  <2>1. jobs' = [jobs EXCEPT ![j] = r] /\ jobs[j].pc = "sign"
    BY <1>0, <1>2 DEF ReadKey, Job, JobType
  <2>2. k \in Contents
    BY KeysApart DEF CurrentNetworkSessionKey, TypeInv, TypeOK
  <2> HIDE DEF k
  <2>3. /\ r \in JobType /\ r.kind = jobs[j].kind /\ r.cur = jobs[j].cur /\ r.sess = jobs[j].sess
        /\ r.targets = jobs[j].targets /\ r.todo = jobs[j].todo /\ r.pc = p /\ r.what = k
    BY <1>0, <2>2 DEF JobType
  <2> HIDE DEF r
  <2> QED BY <2>1, <2>3 DEF k
<1> QED BY <1>1, <1>2

\* The end point's row and the key of its session (PersistAttachSession, the
\* decider, PersistAttachPropagateSession).
LEMMA RowTypes ==
  ASSUME TypeInv, Next
  PROVE  /\ ep' \in [status : {"attached", "detached"}, sign : Keys]
         /\ sessionKey' \in Keys
         /\ served' \in [Telegrams -> Nat]
<1> USE KeysApart DEF TypeInv, TypeOK
<1>1. ASSUME NEW s \in Stations, StationStep(s)
      PROVE  /\ ep' \in [status : {"attached", "detached"}, sign : Keys]
             /\ sessionKey' \in Keys
             /\ served' \in [Telegrams -> Nat]
  <2>1. CASE Serve(s)
    <3> DEFINE a == hear[s].what
    <3>1. a \in Telegrams
      BY <2>1 DEF Serve, CheckedIsAttach, HearType
    <3>2. \/ ep' = [ep EXCEPT !.sign = a] /\ sessionKey' = a /\ served' = [served EXCEPT ![a] = @ + 1]
          \/ UNCHANGED <<epVars, keyGhosts>>
      BY <2>1 DEF Serve
    <3> HIDE DEF a
    <3>3. CASE UNCHANGED <<epVars, keyGhosts>>
      BY <3>3 DEF epVars, keyGhosts
    <3>4. CASE ep' = [ep EXCEPT !.sign = a] /\ sessionKey' = a /\ served' = [served EXCEPT ![a] = @ + 1]
      <4>1. a \in Keys
        BY <3>1
      <4>2. served' \in [Telegrams -> Nat]
        BY <3>1, <3>4
      <4>3. ep' \in [status : {"attached", "detached"}, sign : Keys]
        BY <3>4, <4>1
      <4> QED BY <3>4, <4>1, <4>2, <4>3
    <3> QED BY <3>2, <3>3, <3>4
  <2>2. ASSUME NEW j \in Jobs, AttachComplete(s, j) \/ DetachComplete(s, j) \/ Reissue(s, j)
        PROVE  /\ ep' \in [status : {"attached", "detached"}, sign : Keys]
               /\ sessionKey' \in Keys
               /\ served' \in [Telegrams -> Nat]
    BY <2>2 DEF AttachComplete, DetachComplete, Reissue, Detached, epVars, keyGhosts
  <2>3. CASE ~Serve(s) /\ ~\E j \in Jobs : AttachComplete(s, j) \/ DetachComplete(s, j) \/ Reissue(s, j)
    <3>1. UNCHANGED <<epVars, served>>
      BY <1>1, <2>3 DEF StationStep, Attach, ServeFails, DetachReported, Deliver, Refuse, Break,
           Unregister, MarkDisconnected, Connect, Activate, keyGhosts
    <3> QED BY <3>1 DEF epVars
  <2> QED BY <2>1, <2>2, <2>3
<1>2. ASSUME NEW j \in Jobs, JobStep(j)
      PROVE  /\ ep' \in [status : {"attached", "detached"}, sign : Keys]
             /\ sessionKey' \in Keys
             /\ served' \in [Telegrams -> Nat]
  <2>1. CASE AttachEndPoint(j) \/ DetachEndPoint(j)
    BY <2>1 DEF AttachEndPoint, DetachEndPoint, Detached, keyGhosts
  <2>2. CASE Begin(j)
    <3>1. jobs[j].what \in Contents
      BY JobParts
    <3> QED BY <2>2, <3>1 DEF Begin, keyGhosts
  <2>3. CASE ~AttachEndPoint(j) /\ ~DetachEndPoint(j) /\ ~Begin(j)
    <3>1. UNCHANGED <<epVars, served>>
      BY <1>2, <2>3 DEF JobStep, ReadSession, ReadKey, Snapshot, ReadAttached, ReadDetached, Frame, SendFails, keyGhosts
    <3> QED BY <3>1 DEF epVars
  <2> QED BY <2>1, <2>2, <2>3
<1>3. CASE Crash
  BY <1>3 DEF Crash, epVars, keyGhosts
<1> QED BY <1>1, <1>2, <1>3, NextCases

\* One goroutine goes on with the record r, on a session that is registered.
LEMMA JobChanged ==
  ASSUME TypeInv, NEW j \in Jobs, NEW r \in JobType, jobs' = [jobs EXCEPT ![j] = r],
         \A s \in Stations : link[s] \in Registered => link'[s] \in Registered,
         r.cur \in Stations /\ r.sess = "here" => link'[r.cur] \in Registered,
         \A s \in r.targets : link'[s] \in Registered, Staged(r)
  PROVE  JobsOK'
<1>1. jobs \in [Jobs -> JobType] /\ SessionsThere /\ AllStaged
  BY DEF TypeInv, TypeOK
<1>2. jobs' \in [Jobs -> JobType]
  BY <1>1
<1>3. ASSUME NEW k \in Jobs
      PROVE  /\ jobs'[k].cur \in Stations /\ jobs'[k].sess = "here" => link'[jobs'[k].cur] \in Registered
             /\ \A s \in jobs'[k].targets : link'[s] \in Registered
             /\ Staged(jobs'[k])
  <2>1. CASE k = j
    <3>1. jobs'[k] = r
      BY <1>1, <2>1
    <3> QED BY <3>1
  <2>2. CASE k # j
    <3>1. jobs'[k] = jobs[k] /\ jobs[k] \in JobType
      BY <1>1, <2>2
    <3> QED BY <1>1, <3>1, JobParts DEF SessionsThere, AllStaged
  <2> QED BY <2>1, <2>2
<1> QED BY <1>2, <1>3 DEF JobsOK, SessionsThere, AllStaged, Staged

\* The same for a propagation that goes on.
LEMMA JobOnward ==
  ASSUME TypeInv, NEW j \in Jobs, NEW r \in JobType,
         r.cur = jobs[j].cur, r.sess = jobs[j].sess,
         \A s \in r.targets : link[s] \in Registered,
         r.kind = "reconcile" => r.targets = {} /\ r.cur \in Stations,
         \E o \in Onward(r) : Job(j, o), link' = link
  PROVE  JobsOK'
<1>1. PICK o \in Onward(r) : jobs' = [jobs EXCEPT ![j] = o]
  BY DEF Job
<1>2. o \in JobType
  BY OnwardFacts
<1>3. o.cur \in Stations /\ o.sess = "here" => link'[o.cur] \in Registered
  BY OnwardFacts, AttachmentAssumption DEF Idle, TypeInv, SessionsThere
<1>4. \A s \in o.targets : link'[s] \in Registered
  BY OnwardFacts DEF Idle
<1>5. Staged(o)
  BY OnwardStaged
<1> QED BY <1>1, <1>2, <1>3, <1>4, <1>5, JobChanged

\* A goroutine's first record.
IsFresh(r, p, k, c) ==
  /\ r \in JobType
  /\ r.pc = p /\ r.kind = k /\ r.cur = c
  /\ r.targets = {} /\ r.what = Detach /\ r.sess = "here"

\* The records that Started is given.
LEMMA StartTypes ==
  ASSUME NEW p \in PCs, NEW k \in Kinds, NEW c \in Stations \cup {NoStation}
  PROVE  /\ IsFresh([Idle EXCEPT !.pc = p, !.kind = k], p, k, NoStation)
         /\ IsFresh([Idle EXCEPT !.pc = p, !.kind = k, !.cur = c], p, k, c)
<1> DEFINE i == Idle
<1>1. /\ i \in JobType /\ i.cur = NoStation
      /\ i.targets = {} /\ i.what = Detach /\ i.sess = "here"
  BY IdleType DEF Idle
<1> HIDE DEF i
<1>2. [i EXCEPT !.pc = p] \in JobType
  BY <1>1, JobFields
<1>3. [[i EXCEPT !.pc = p] EXCEPT !.kind = k] \in JobType
  BY <1>2, JobFields
<1>4. [[[i EXCEPT !.pc = p] EXCEPT !.kind = k] EXCEPT !.cur = c] \in JobType
  BY <1>3, JobFields
<1>5. IsFresh([i EXCEPT !.pc = p, !.kind = k], p, k, NoStation)
  BY <1>1, <1>3 DEF IsFresh, JobType
<1>6. IsFresh([i EXCEPT !.pc = p, !.kind = k, !.cur = c], p, k, c)
  BY <1>1, <1>4 DEF IsFresh, JobType
<1> QED BY <1>5, <1>6 DEF i

\* Sessions leave the registry by Unregister and Crash alone.
LEMMA RegistryKept ==
  ASSUME TypeInv, NEW s \in Stations, StationStep(s), ~Unregister(s)
  PROVE  \A t \in Stations : link[t] \in Registered => link'[t] \in Registered
<1> USE DEF TypeInv, TypeOK, Registered
<1>2. CASE Break(s)
  BY <1>2 DEF Break
<1>3. CASE MarkDisconnected(s)
  BY <1>3 DEF MarkDisconnected
<1>4. CASE Connect(s)
  BY <1>4 DEF Connect
<1>5. CASE Activate(s)
  BY <1>5 DEF Activate
<1>6. ASSUME NEW j \in Jobs, Reissue(s, j)
      PROVE  \A t \in Stations : link[t] \in Registered => link'[t] \in Registered
  BY <1>6 DEF Reissue
<1>7. CASE (\E a \in Telegrams : Attach(s, a)) \/ Serve(s) \/ ServeFails(s) \/ DetachReported(s)
           \/ Deliver(s) \/ Refuse(s) \/ \E j \in Jobs : AttachComplete(s, j) \/ DetachComplete(s, j)
  BY <1>7 DEF Attach, Serve, ServeFails, DetachReported, Deliver, Refuse, AttachComplete, DetachComplete, linkVars
<1> QED BY <1>2, <1>3, <1>4, <1>5, <1>6, <1>7 DEF StationStep

\* The goroutines keep their types and work on registered sessions.
LEMMA JobTypes ==
  ASSUME TypeInv, Next
  PROVE  JobsOK'
<1>0. /\ jobs \in [Jobs -> JobType] /\ SessionsThere /\ AllStaged
      /\ link \in [Stations -> {"down", "unresumable", "offered", "reissuing", "live", "broken", "removed"}]
  BY DEF TypeInv, TypeOK
<1>1. ASSUME NEW s \in Stations, StationStep(s)
      PROVE  JobsOK'
  <2>1. ASSUME NEW j \in Jobs, AttachComplete(s, j)
        PROVE  JobsOK'
    <3>1. PICK r : jobs' = [jobs EXCEPT ![j] = r] /\ IsFresh(r, "snapshot", "trigger", NoStation)
      BY <2>1, StartTypes DEF AttachComplete, Started, PCs, Kinds
    <3>2. link' = link
      BY <2>1 DEF AttachComplete
    <3> QED BY <3>1, <3>2, JobChanged, AttachmentAssumption DEF IsFresh, Staged
  <2>2. ASSUME NEW j \in Jobs, DetachComplete(s, j)
        PROVE  JobsOK'
    <3>1. link' = link /\ link[s] = "live"
      BY <2>2 DEF DetachComplete, Reads
    <3>2. jobs' = jobs \/ \E r : jobs' = [jobs EXCEPT ![j] = r] /\ IsFresh(r, "snapshot", "otaDetach", s)
      BY <2>2, StartTypes DEF DetachComplete, Started, PCs, Kinds
    <3>3. CASE jobs' = jobs
      BY <1>0, <3>1, <3>3 DEF JobsOK, SessionsThere, AllStaged, Staged
    <3>4. ASSUME NEW r, jobs' = [jobs EXCEPT ![j] = r] /\ IsFresh(r, "snapshot", "otaDetach", s)
          PROVE  JobsOK'
      BY <3>1, <3>4, JobChanged DEF IsFresh, Registered, Staged
    <3> QED BY <3>2, <3>3, <3>4
  <2>3. ASSUME NEW j \in Jobs, Reissue(s, j)
        PROVE  JobsOK'
    <3>1. PICK r : jobs' = [jobs EXCEPT ![j] = r] /\ IsFresh(r, "attached", "reconcile", s)
      BY <2>3, StartTypes DEF Reissue, Started, PCs, Kinds
    <3>2. link' = [link EXCEPT ![s] = "live"]
      BY <2>3 DEF Reissue
    <3> QED BY <1>0, <3>1, <3>2, JobChanged DEF IsFresh, Registered, Staged
  <2>4. CASE Unregister(s)
    <3>1. /\ link' = [link EXCEPT ![s] = "removed"]
          /\ jobs' = [j \in Jobs |-> [jobs[j] EXCEPT !.targets = @ \ {s},
                                                    !.sess = IF jobs[j].cur = s /\ @ = "here" THEN "gone" ELSE @]]
      BY <2>4 DEF Unregister
    <3>2. ASSUME NEW j \in Jobs
          PROVE  /\ jobs'[j] \in JobType
                 /\ jobs'[j].targets = jobs[j].targets \ {s}
                 /\ jobs'[j].cur = jobs[j].cur
                 /\ jobs'[j].kind = jobs[j].kind /\ jobs'[j].pc = jobs[j].pc
                 /\ jobs'[j].sess = "here" => jobs[j].cur # s /\ jobs[j].sess = "here"
      <4>1. jobs[j] \in JobType
        BY <1>0
      <4>2. PICK x \in {"here", "gone", "ended"} :
                   /\ jobs'[j] = [jobs[j] EXCEPT !.targets = @ \ {s}, !.sess = x]
                   /\ x = "here" => jobs[j].cur # s /\ jobs[j].sess = "here"
        <5>1. jobs[j].sess \in {"here", "gone", "ended"}
          BY <4>1 DEF JobType
        <5>2. CASE jobs[j].cur = s /\ jobs[j].sess = "here"
          BY <3>1, <5>2
        <5>3. CASE ~(jobs[j].cur = s /\ jobs[j].sess = "here")
          BY <3>1, <5>1, <5>3
        <5> QED BY <5>2, <5>3
      <4> QED BY <4>1, <4>2 DEF JobType
    <3>3. jobs' \in [Jobs -> JobType]
      BY <3>1, <3>2
    <3>4. \A t \in Stations \ {s} : link'[t] = link[t]
      BY <1>0, <3>1
    <3>5. AllStaged'
      BY <1>0, <3>2 DEF AllStaged, Staged
    <3> QED BY <1>0, <3>2, <3>3, <3>4, <3>5, JobParts DEF JobsOK, SessionsThere
  <2>5. CASE Activate(s)
    <3>1. \A t \in Stations : link[t] \in Registered => link'[t] \in Registered
      BY <2>5, RegistryKept DEF Activate, Unregister, StationStep
    <3>2. ASSUME NEW j \in Jobs
          PROVE  /\ jobs'[j] \in JobType
                 /\ jobs'[j].targets = jobs[j].targets
                 /\ jobs'[j].cur = jobs[j].cur
                 /\ jobs'[j].kind = jobs[j].kind /\ jobs'[j].pc = jobs[j].pc
                 /\ jobs'[j].sess = "here" => jobs[j].sess = "here"
      <4>1. CASE resumed[s]
        BY <1>0, <2>5, <4>1 DEF JobType, Activate
      <4>2. CASE ~resumed[s]
        <5>1. jobs'[j] = [jobs[j] EXCEPT !.sess = IF jobs[j].cur = s THEN "ended" ELSE @]
          BY <2>5, <4>2 DEF Activate
        <5>2. jobs[j] \in JobType
          BY <1>0
        <5>3. jobs'[j] = jobs[j] \/ jobs'[j] = [jobs[j] EXCEPT !.sess = "ended"]
          BY <5>1, <5>2 DEF JobType
        <5> QED BY <5>2, <5>3 DEF JobType
      <4> QED BY <4>1, <4>2
    <3>3. jobs' \in [Jobs -> JobType]
      BY <1>0, <2>5, <3>2 DEF Activate
    <3>4. AllStaged'
      BY <1>0, <3>2 DEF AllStaged, Staged
    <3> QED BY <1>0, <3>1, <3>2, <3>3, <3>4, JobParts DEF JobsOK, SessionsThere
  <2>6. CASE UNCHANGED jobs /\ ~Unregister(s)
    BY <1>0, <1>1, <2>6, RegistryKept, JobParts DEF JobsOK, SessionsThere, AllStaged, Staged
  <2> QED BY <1>1, <2>1, <2>2, <2>3, <2>4, <2>5, <2>6 DEF StationStep, Attach, Serve, ServeFails,
        DetachReported, Deliver, Refuse, Break, MarkDisconnected, Connect
<1>2. ASSUME NEW j \in Jobs, JobStep(j)
      PROVE  JobsOK'
  <2>0. /\ jobs[j] \in JobType
        /\ jobs[j].cur \in Stations /\ jobs[j].sess = "here" => link[jobs[j].cur] \in Registered
        /\ \A s \in jobs[j].targets : link[s] \in Registered
        /\ Staged(jobs[j])
    BY <1>0 DEF SessionsThere, AllStaged
  <2>00. link' = link
    BY <1>2 DEF JobStep, AttachEndPoint, DetachEndPoint, ReadSession, ReadKey, Snapshot, ReadAttached, ReadDetached,
         Begin, Frame, SendFails, linkVars
  <2>1. CASE AttachEndPoint(j)
    <3>1. PICK r : jobs' = [jobs EXCEPT ![j] = r] /\ IsFresh(r, "key", "attach", NoStation)
      BY <2>1, StartTypes DEF AttachEndPoint, Started, PCs, Kinds
    <3> QED BY <2>00, <3>1, JobChanged, AttachmentAssumption DEF IsFresh, Staged
  <2>2. CASE DetachEndPoint(j)
    <3>1. PICK r : jobs' = [jobs EXCEPT ![j] = r] /\ IsFresh(r, "snapshot", "detach", NoStation)
      BY <2>2, StartTypes DEF DetachEndPoint, Started, PCs, Kinds
    <3> QED BY <2>00, <3>1, JobChanged, AttachmentAssumption DEF IsFresh, Staged
  <2>3. CASE ReadSession(j) \/ ReadKey(j)
    <3>1. PICK r \in JobType :
            /\ jobs' = [jobs EXCEPT ![j] = r]
            /\ r.kind = jobs[j].kind /\ r.cur = jobs[j].cur /\ r.sess = jobs[j].sess
            /\ r.targets = jobs[j].targets
            /\ \/ jobs[j].pc = "key" /\ r.pc = "sign"
               \/ jobs[j].pc = "sign" /\ r.pc = IF jobs[j].kind = "attach" THEN "snapshot" ELSE "begin"
      BY <2>3, KeyReads
    <3>2. Staged(r)
      BY <2>0, <3>1 DEF Staged
    <3> QED BY <2>0, <2>00, <3>1, <3>2, JobChanged
  <2>4. CASE Snapshot(j)
    <3> DEFINE r == [jobs[j] EXCEPT !.targets = Reached(jobs[j])]
    <3>1. r \in JobType
      BY <2>0, JobFields DEF Reached, Sendable
    <3>2. r.cur = jobs[j].cur /\ r.sess = jobs[j].sess /\ \A s \in r.targets : link[s] \in Registered
      BY <2>0 DEF JobType, Reached, Sendable, Registered
    <3>3. \E o \in Onward(r) : Job(j, o)
      BY <2>4, Zenon DEF Snapshot
    <3>4. r.kind # "reconcile"
      BY <2>0, <2>4 DEF JobType, Staged, Snapshot
    <3> HIDE DEF r
    <3> QED BY <2>00, <3>1, <3>2, <3>3, <3>4, JobOnward
  <2>5. CASE ReadAttached(j)
    <3> DEFINE r == [jobs[j] EXCEPT !.pc = "missed", !.todo = IF AttachmentToSend(jobs[j].cur) THEN <<"key">> ELSE <<>>]
    <3>1. <<"key">> \in Seq({"key", "begin"}) /\ <<>> \in Seq({"key", "begin"})
      OBVIOUS
    <3>2. r \in JobType /\ r.cur = jobs[j].cur /\ r.sess = jobs[j].sess /\ r.targets = jobs[j].targets
      BY <2>0, <3>1 DEF JobType
    <3>3. jobs' = [jobs EXCEPT ![j] = r]
      BY <2>5 DEF ReadAttached, Job
    <3>4. Staged(r)
      BY <2>0, <2>5 DEF JobType, Staged, ReadAttached
    <3> HIDE DEF r
    <3> QED BY <2>0, <2>00, <3>2, <3>3, <3>4, JobChanged
  <2>6. CASE ReadDetached(j)
    <3> DEFINE t == IF DetachedWhileAway(jobs[j].cur) THEN jobs[j].todo \o <<"begin">> ELSE jobs[j].todo
               r == [jobs[j] EXCEPT !.todo = t]
    <3>1. t \in Seq({"key", "begin"})
      <4>1. jobs[j].todo \in Seq({"key", "begin"}) /\ <<"begin">> \in Seq({"key", "begin"})
        BY <2>0, JobParts
      <4>2. jobs[j].todo \o <<"begin">> \in Seq({"key", "begin"})
        BY <4>1
      <4> QED BY <4>1, <4>2
    <3>2. r \in JobType
      BY <2>0, <3>1, JobFields
    <3>3. r.cur = jobs[j].cur /\ r.sess = jobs[j].sess /\ r.targets = jobs[j].targets
      BY <2>0 DEF JobType
    <3>4. \E o \in Onward(r) : Job(j, o)
      BY <2>6, Zenon DEF ReadDetached
    <3>5. r.kind = "reconcile" => r.targets = {} /\ r.cur \in Stations
      BY <2>0 DEF JobType, Staged
    <3> HIDE DEF r
    <3> QED BY <2>0, <2>00, <3>2, <3>3, <3>4, <3>5, JobOnward
  <2>7. CASE \E o \in Onward(jobs[j]) : Job(j, o)
    BY <2>0, <2>00, <2>7, JobOnward DEF Staged
  <2>8. CASE Begin(j) /\ Job(j, [jobs[j] EXCEPT !.pc = "frame", !.op = lastOp[jobs[j].cur] + 1])
    <3> DEFINE n == lastOp[jobs[j].cur] + 1
    <3>0. n \in Nat
      BY <2>0, <2>8 DEF TypeInv, TypeOK, Staged, Begin
    <3> HIDE DEF n
    <3> DEFINE r == [jobs[j] EXCEPT !.pc = "frame", !.op = n]
    <3>1. r \in JobType /\ r.cur = jobs[j].cur /\ r.sess = jobs[j].sess /\ r.targets = jobs[j].targets
      BY <2>0, <3>0 DEF JobType
    <3>2. jobs' = [jobs EXCEPT ![j] = r]
      BY <2>8 DEF Job, n
    <3>3. Staged(r)
      BY <2>0, <2>8 DEF JobType, Staged, Begin
    <3> HIDE DEF r
    <3> QED BY <2>0, <2>00, <3>1, <3>2, <3>3, JobChanged
  <2>9. CASE Job(j, Idle)
    BY <2>00, <2>9, IdleType, JobChanged, AttachmentAssumption DEF Job, Idle, Staged
  <2> QED BY <1>2, <2>1, <2>2, <2>3, <2>4, <2>5, <2>6, <2>7, <2>8, <2>9, Zenon DEF JobStep, Begin, Frame, SendFails
<1>3. CASE Crash
  <2>1. jobs' = [j \in Jobs |-> Idle]
    BY <1>3 DEF Crash
  <2> QED BY <2>1, IdleType, AttachmentAssumption DEF JobsOK, SessionsThere, AllStaged, Staged, Idle
<1> QED BY <1>1, <1>2, <1>3, NextCases

\* An answer among the frames w, and no second one.
HasRsp(w) == \E i \in DOMAIN w : w[i].kind = "rsp"
OneRsp(w) == \A i, k \in DOMAIN w : w[i].kind = "rsp" /\ w[k].kind = "rsp" => i = k

\* A frame more.
LEMMA RspAppend ==
  ASSUME NEW w \in Seq(FrameType), NEW f \in FrameType, OneRsp(w), f.kind = "rsp" => ~HasRsp(w)
  PROVE  /\ Append(w, f) \in Seq(FrameType)
         /\ OneRsp(Append(w, f))
         /\ HasRsp(Append(w, f)) <=> HasRsp(w) \/ f.kind = "rsp"
<1> DEFINE v == Append(w, f)
<1>1. /\ v \in Seq(FrameType) /\ Len(v) = Len(w) + 1 /\ v[Len(w) + 1] = f
      /\ \A i \in 1..Len(w) : v[i] = w[i]
  OBVIOUS
<1>2. DOMAIN w = 1..Len(w) /\ DOMAIN v = 1..(Len(w) + 1) /\ Len(w) \in Nat
  BY <1>1
<1> HIDE DEF v
<1>3. \A i \in DOMAIN v : (i \in DOMAIN w /\ v[i] = w[i]) \/ (i = Len(w) + 1 /\ v[i] = f)
  <2> SUFFICES ASSUME NEW i \in 1..(Len(w) + 1)
               PROVE  (i \in DOMAIN w /\ v[i] = w[i]) \/ (i = Len(w) + 1 /\ v[i] = f)
    BY <1>2
  <2>1. CASE i = Len(w) + 1
    BY <1>1, <2>1
  <2>2. CASE i # Len(w) + 1
    <3>1. i \in 1..Len(w)
      BY <1>2, <2>2
    <3>2. v[i] = w[i]
      BY <1>1, <3>1
    <3> QED BY <1>2, <3>1, <3>2
  <2> QED BY <2>1, <2>2
<1>4. \A i \in DOMAIN w : i \in DOMAIN v /\ v[i] = w[i]
  BY <1>1, <1>2
<1>5. OneRsp(v)
  BY <1>3 DEF HasRsp, OneRsp
<1>6. HasRsp(v) => HasRsp(w) \/ f.kind = "rsp"
  BY <1>3 DEF HasRsp
<1>7. HasRsp(w) => HasRsp(v)
  BY <1>4 DEF HasRsp
<1>8. f.kind = "rsp" => HasRsp(v)
  <2>1. Len(w) + 1 \in DOMAIN v
    BY <1>2
  <2> QED BY <1>1, <2>1 DEF HasRsp
<1> QED BY <1>1, <1>5, <1>6, <1>7, <1>8 DEF v

\* A frame less.
LEMMA RspTail ==
  ASSUME NEW w \in Seq(FrameType), w # <<>>, OneRsp(w)
  PROVE  /\ Tail(w) \in Seq(FrameType) /\ Head(w) \in FrameType
         /\ OneRsp(Tail(w))
         /\ Head(w).kind = "rsp" => ~HasRsp(Tail(w)) /\ HasRsp(w)
         /\ Head(w).kind # "rsp" => (HasRsp(Tail(w)) <=> HasRsp(w))
<1> DEFINE v == Tail(w)
<1>1. /\ v \in Seq(FrameType) /\ Head(w) = w[1] /\ Head(w) \in FrameType
      /\ Len(w) >= 1 /\ Len(v) = Len(w) - 1 /\ \A i \in 1..Len(v) : v[i] = w[i + 1]
  OBVIOUS
<1>2. DOMAIN w = 1..Len(w) /\ DOMAIN v = 1..Len(v) /\ Len(w) \in Nat /\ Len(v) \in Nat
  BY <1>1
<1> HIDE DEF v
<1>3. \A i \in 1..Len(v) : i + 1 \in 1..Len(w)
  BY <1>1, <1>2
<1>4. OneRsp(v)
  BY <1>1, <1>2, <1>3 DEF OneRsp
<1>5. ASSUME Head(w).kind = "rsp" PROVE ~HasRsp(v) /\ HasRsp(w)
  <2>1. 1 \in DOMAIN w
    BY <1>1, <1>2
  <2>2. ASSUME NEW i \in DOMAIN v, v[i].kind = "rsp" PROVE FALSE
    <3>1. i + 1 \in DOMAIN w /\ w[i + 1].kind = "rsp" /\ i + 1 # 1
      BY <1>1, <1>2, <1>3, <2>2
    <3> QED BY <1>1, <1>5, <2>1, <3>1 DEF OneRsp
  <2> QED BY <1>1, <1>5, <2>1, <2>2 DEF HasRsp
<1>6. ASSUME Head(w).kind # "rsp" PROVE HasRsp(v) <=> HasRsp(w)
  <2>1. HasRsp(v) => HasRsp(w)
    BY <1>1, <1>2, <1>3 DEF HasRsp
  <2>2. ASSUME NEW i \in DOMAIN w, w[i].kind = "rsp" PROVE HasRsp(v)
    <3>1. i # 1
      BY <1>1, <1>6, <2>2
    <3>2. i - 1 \in 1..Len(v) /\ (i - 1) + 1 = i
      BY <1>1, <1>2, <3>1
    <3>3. v[i - 1] = w[i]
      BY <1>1, <3>2
    <3> QED BY <1>2, <2>2, <3>2, <3>3 DEF HasRsp
  <2> QED BY <2>1, <2>2 DEF HasRsp
<1> QED BY <1>1, <1>4, <1>5, <1>6 DEF v

\* The frames (the answers of the handlers, SendAttachPropagate).
LEMMA FrameParts ==
  /\ \A c \in Contents : /\ Response(c) \in FrameType /\ Response(c).kind = "rsp"
                         /\ Response(c).op = 0 /\ Response(c).what = c
  /\ \A p \in RecordType : /\ Propagate(p) \in FrameType /\ Propagate(p).kind = "prp"
                           /\ Propagate(p).op = p.op /\ Propagate(p).what = p.what
                           /\ RecordOf(Propagate(p)) = p
  /\ \A f \in FrameType \cup JobType : /\ RecordOf(f) \in RecordType
                                       /\ RecordOf(f).op = f.op /\ RecordOf(f).what = f.what
  BY DEF FrameType, RecordType, JobType, Response, Propagate, RecordOf

\* The reissued propagations.
LEMMA RspReissue ==
  ASSUME NEW w \in Seq(FrameType), NEW o \in Seq(RecordType), OneRsp(w)
  PROVE  LET v == w \o [i \in DOMAIN o |-> Propagate(o[i])] IN
         v \in Seq(FrameType) /\ OneRsp(v) /\ (HasRsp(v) <=> HasRsp(w))
<1> DEFINE u == [i \in DOMAIN o |-> Propagate(o[i])]
           v == w \o u
<1>1. DOMAIN o = 1..Len(o) /\ Len(o) \in Nat /\ \A i \in DOMAIN o : o[i] \in RecordType
  OBVIOUS
<1>2. \A i \in DOMAIN o : u[i] \in FrameType /\ u[i].kind = "prp"
  BY <1>1, FrameParts
<1>3. u \in Seq(FrameType) /\ Len(u) = Len(o)
  BY <1>1, <1>2
<1>4. \A i \in 1..Len(u) : u[i].kind = "prp"
  BY <1>1, <1>2, <1>3
<1> HIDE DEF u
<1>5. /\ v \in Seq(FrameType) /\ Len(v) = Len(w) + Len(u)
      /\ \A i \in 1..Len(v) : v[i] = IF i <= Len(w) THEN w[i] ELSE u[i - Len(w)]
  BY <1>3
<1>6. DOMAIN w = 1..Len(w) /\ DOMAIN v = 1..Len(v) /\ Len(w) \in Nat /\ Len(u) \in Nat
  BY <1>3, <1>5
<1> HIDE DEF v
<1>7. \A i \in DOMAIN v : v[i].kind = "rsp" => i \in DOMAIN w /\ v[i] = w[i]
  <2> SUFFICES ASSUME NEW i \in DOMAIN v, v[i].kind = "rsp" PROVE i \in DOMAIN w /\ v[i] = w[i]
    OBVIOUS
  <2>1. CASE i <= Len(w)
    BY <1>5, <1>6, <2>1
  <2>2. CASE ~(i <= Len(w))
    <3>1. i - Len(w) \in 1..Len(u)
      BY <1>5, <1>6, <2>2
    <3> QED BY <1>4, <1>5, <1>6, <2>2, <3>1
  <2> QED BY <2>1, <2>2
<1>8. \A i \in DOMAIN w : i \in DOMAIN v /\ v[i] = w[i]
  BY <1>5, <1>6
<1>9. v \in Seq(FrameType) /\ OneRsp(v) /\ (HasRsp(v) <=> HasRsp(w))
  BY <1>5, <1>7, <1>8 DEF OneRsp, HasRsp
<1> QED BY <1>9 DEF u, v

LinkStates == {"down", "unresumable", "offered", "reissuing", "live", "broken", "removed"}

\* What TypeInv says of the line to a station.
LineOK(h, l, w) ==
  /\ h \in HearType /\ l \in LinkStates /\ w \in Seq(FrameType)
  /\ OneRsp(w)
  /\ h.pc = "open" <=> HasRsp(w)
  /\ h.pc = "checked" => h.what # Detach
  /\ l \notin {"reissuing", "live"} => w = <<>>

LinesOK ==
  /\ hear \in [Stations -> HearType] /\ link \in [Stations -> LinkStates] /\ wire \in [Stations -> Seq(FrameType)]
  /\ \A s \in Stations : LineOK(hear[s], link[s], wire[s])

\* The invariant's parts about the lines.
LEMMA LinesOfTypeInv ==
  TypeInv <=> /\ LinesOK /\ SessionsThere /\ AllStaged
              /\ ep \in [status : {"attached", "detached"}, sign : Keys]
              /\ sessionKey \in Keys
              /\ lastOp \in [Stations -> Nat]
              /\ journal \in [Stations -> Seq(RecordType)] /\ offer \in [Stations -> Seq(RecordType)]
              /\ holds \in [Stations -> Contents]
              /\ jobs \in [Jobs -> JobType]
              /\ served \in [Telegrams -> Nat]
  BY DEF TypeInv, TypeOK, LinesOK, LineOK, OneAnswer, OneRsp, HasRsp, CheckedIsAttach, LinkStates

\* The line to one station changes.
LEMMA LineChanged ==
  ASSUME LinesOK, NEW s \in Stations, NEW h, NEW l, NEW w, LineOK(h, l, w),
         hear' = [hear EXCEPT ![s] = h], link' = [link EXCEPT ![s] = l], wire' = [wire EXCEPT ![s] = w]
  PROVE  LinesOK'
<1>1. /\ hear' \in [Stations -> HearType] /\ link' \in [Stations -> LinkStates]
      /\ wire' \in [Stations -> Seq(FrameType)]
  BY DEF LinesOK, LineOK
<1>2. ASSUME NEW t \in Stations PROVE LineOK(hear'[t], link'[t], wire'[t])
  <2>1. CASE t = s
    <3>1. hear'[t] = h /\ link'[t] = l /\ wire'[t] = w
      BY <2>1 DEF LinesOK
    <3> QED BY <3>1
  <2>2. CASE t # s
    <3>1. hear'[t] = hear[t] /\ link'[t] = link[t] /\ wire'[t] = wire[t]
      BY <2>2 DEF LinesOK
    <3> QED BY <3>1 DEF LinesOK
  <2> QED BY <2>1, <2>2
<1>3. \A t \in Stations : LineOK(hear[t], link[t], wire[t])'
  BY <1>2 DEF LineOK
<1> QED BY <1>1, <1>3 DEF LinesOK

\* What a station's operation becomes when frames reach it and the rest are
\* lost (Interrupted), and what the station then holds (After).
LEMMA InterruptedOK ==
  ASSUME LinesOK, NEW s \in Stations, NEW n \in Nat, NEW d \in BOOLEAN, NEW l \in LinkStates
  PROVE  LineOK(Interrupted(s, n, d), l, <<>>)
<1>1. hear[s] \in HearType /\ (hear[s].pc = "checked" => hear[s].what # Detach)
  BY DEF LinesOK, LineOK
<1>2. <<>> \in Seq(FrameType) /\ OneRsp(<<>>) /\ ~HasRsp(<<>>)
  BY DEF OneRsp, HasRsp
<1>3. /\ Interrupted(s, n, d) \in HearType
      /\ Interrupted(s, n, d).pc # "open"
      /\ Interrupted(s, n, d).what = hear[s].what
      /\ Interrupted(s, n, d).pc = "checked" => hear[s].pc = "checked"
  BY <1>1 DEF Interrupted, HearType
<1> QED BY <1>1, <1>2, <1>3 DEF LineOK

\* What a station holds after some of the frames on their way.
LEMMA AfterType ==
  ASSUME LinesOK, holds \in [Stations -> Contents], NEW s \in Stations, NEW n \in 0..Len(wire[s])
  PROVE  After(s, n) \in Contents
<1>1. wire[s] \in Seq(FrameType) /\ Len(wire[s]) \in Nat
  BY DEF LinesOK
<1>2. CASE n = 0
  BY <1>2 DEF After
<1>3. CASE n # 0
  <2>1. n \in 1..Len(wire[s])
    BY <1>1, <1>3
  <2>2. wire[s][n] \in FrameType
    BY <1>1, <2>1
  <2> QED BY <1>3, <2>2 DEF After, FrameType
<1> QED BY <1>2, <1>3

\* The lines keep their types over the steps of a station.
LEMMA StationLines ==
  ASSUME TypeInv, NEW s \in Stations, StationStep(s)
  PROVE  LinesOK'
<1>0. /\ LinesOK /\ LineOK(hear[s], link[s], wire[s])
      /\ hear \in [Stations -> HearType] /\ link \in [Stations -> LinkStates] /\ wire \in [Stations -> Seq(FrameType)]
      /\ journal \in [Stations -> Seq(RecordType)] /\ offer \in [Stations -> Seq(RecordType)]
  BY LinesOfTypeInv DEF LinesOK
<1>1. hear = [hear EXCEPT ![s] = hear[s]] /\ link = [link EXCEPT ![s] = link[s]] /\ wire = [wire EXCEPT ![s] = wire[s]]
  BY <1>0
<1>2. Quiet \in HearType /\ Quiet.pc = "idle"
  BY DEF Quiet, HearType
<1>3. ASSUME NEW h \in HearType, h.pc # "open", h.pc = "checked" => h.what # Detach, hear[s].pc # "open",
             hear' = [hear EXCEPT ![s] = h], UNCHANGED <<link, wire>>
      PROVE  LinesOK'
  <2>1. LineOK(h, link[s], wire[s])
    BY <1>0, <1>3 DEF LineOK
  <2>2. link' = [link EXCEPT ![s] = link[s]] /\ wire' = [wire EXCEPT ![s] = wire[s]]
    BY <1>1, <1>3
  <2> DEFINE l == link[s]
             w == wire[s]
  <2>3. LineOK(h, l, w) /\ link' = [link EXCEPT ![s] = l] /\ wire' = [wire EXCEPT ![s] = w]
    BY <2>1, <2>2
  <2> HIDE DEF l, w
  <2> QED BY <1>0, <1>3, <2>3, LineChanged
<1>4. ASSUME NEW a \in Telegrams, Attach(s, a) PROVE LinesOK'
  <2>1. hear[s].pc # "open" /\ UNCHANGED <<link, wire>>
    BY <1>4 DEF Attach, linkVars, airVars
  <2>2. [pc |-> "checked", what |-> a] \in HearType /\ a # Detach
    BY KeysApart DEF HearType
  <2>3. \/ hear' = [hear EXCEPT ![s] = [pc |-> "checked", what |-> a]]
        \/ hear' = [hear EXCEPT ![s] = Quiet]
    BY <1>4 DEF Attach
  <2> QED BY <1>2, <1>3, <2>1, <2>2, <2>3
<1>5. CASE Serve(s)
  <2>1. hear[s].pc = "checked" /\ ~HasRsp(wire[s]) /\ hear[s].what \in Telegrams /\ UNCHANGED link
    BY <1>0, <1>5 DEF Serve, LineOK, HearType, linkVars
  <2>2. CASE ~StillAdvances(ep, hear[s].what)
    <3>1. hear' = [hear EXCEPT ![s] = Quiet] /\ wire' = wire
      BY <1>5, <2>2 DEF Serve
    <3> QED BY <1>2, <1>3, <2>1, <3>1
  <2>3. CASE StillAdvances(ep, hear[s].what) /\ link[s] = "live"
    <3> DEFINE h == [hear[s] EXCEPT !.pc = "open"]
               f == Response(hear[s].what)
               w == Append(wire[s], f)
    <3>1. f \in FrameType /\ f.kind = "rsp"
      BY <2>1, KeysApart, FrameParts
    <3>2. h \in HearType /\ h.pc = "open"
      BY <1>0 DEF HearType
    <3>3. LineOK(h, link[s], w)
      <4> HIDE DEF f, h
      <4> QED BY <1>0, <2>1, <2>3, <3>1, <3>2, RspAppend DEF LineOK
    <3>4. hear' = [hear EXCEPT ![s] = h] /\ wire' = [wire EXCEPT ![s] = w]
      BY <1>0, <1>5, <2>3 DEF Serve
    <3> HIDE DEF h, w
    <3> QED BY <1>0, <1>1, <2>1, <3>3, <3>4, LineChanged
  <2>4. CASE StillAdvances(ep, hear[s].what) /\ link[s] # "live"
    <3> DEFINE h == [hear[s] EXCEPT !.pc = "lost"]
    <3>1. h \in HearType /\ h.pc = "lost"
      BY <1>0 DEF HearType
    <3>2. hear' = [hear EXCEPT ![s] = h] /\ wire' = wire
      BY <1>0, <1>5, <2>4 DEF Serve
    <3> HIDE DEF h
    <3> QED BY <1>3, <2>1, <3>1, <3>2
  <2> QED BY <2>2, <2>3, <2>4
<1>6. CASE ServeFails(s)
  BY <1>2, <1>3, <1>6 DEF ServeFails, linkVars, airVars
<1>7. CASE DetachReported(s)
  <2> DEFINE h == [pc |-> "open", what |-> Detach]
             f == Response(Detach)
             w == Append(wire[s], f)
  <2>1. ~HasRsp(wire[s]) /\ UNCHANGED link /\ link[s] = "live"
    BY <1>0, <1>7 DEF DetachReported, LineOK, linkVars, Reads
  <2>2. f \in FrameType /\ f.kind = "rsp"
    BY KeysApart, FrameParts
  <2>3. h \in HearType /\ h.pc = "open"
    BY DEF HearType
  <2>4. LineOK(h, link[s], w)
    <3> HIDE DEF f, h
    <3> QED BY <1>0, <2>1, <2>2, <2>3, RspAppend DEF LineOK
  <2>5. hear' = [hear EXCEPT ![s] = h] /\ wire' = [wire EXCEPT ![s] = w]
    BY <1>0, <1>7 DEF DetachReported
  <2> HIDE DEF h, w
  <2> QED BY <1>0, <1>1, <2>1, <2>4, <2>5, LineChanged
<1>8. ASSUME NEW j \in Jobs, AttachComplete(s, j) \/ DetachComplete(s, j) PROVE LinesOK'
  BY <1>2, <1>3, <1>8 DEF AttachComplete, DetachComplete, airVars
<1>9. ASSUME NEW j \in Jobs, Reissue(s, j) PROVE LinesOK'
  <2> DEFINE w == wire[s] \o [i \in DOMAIN offer[s] |-> Propagate(offer[s][i])]
  <2>1. w \in Seq(FrameType) /\ OneRsp(w) /\ (HasRsp(w) <=> HasRsp(wire[s]))
    BY <1>0, RspReissue DEF LineOK
  <2>2. UNCHANGED hear /\ link' = [link EXCEPT ![s] = "live"] /\ wire' = [wire EXCEPT ![s] = w]
    BY <1>0, <1>9 DEF Reissue
  <2> HIDE DEF w
  <2>3. LineOK(hear[s], "live", w)
    BY <1>0, <2>1 DEF LineOK, LinkStates
  <2> QED BY <1>0, <1>1, <2>2, <2>3, LineChanged
<1>10. CASE Deliver(s)
  <2>1. /\ Tail(wire[s]) \in Seq(FrameType) /\ Head(wire[s]) \in FrameType
        /\ OneRsp(Tail(wire[s]))
        /\ Head(wire[s]).kind = "rsp" => ~HasRsp(Tail(wire[s])) /\ HasRsp(wire[s])
        /\ Head(wire[s]).kind # "rsp" => (HasRsp(Tail(wire[s])) <=> HasRsp(wire[s]))
    BY <1>0, <1>10, RspTail DEF Deliver, LineOK
  <2>2. wire' = [wire EXCEPT ![s] = Tail(wire[s])] /\ UNCHANGED link /\ link[s] = "live"
    BY <1>0, <1>10 DEF Deliver
  <2>3. CASE Head(wire[s]).kind = "rsp"
    <3> DEFINE h == [hear[s] EXCEPT !.pc = "answered"]
    <3>1. h \in HearType /\ h.pc = "answered"
      BY <1>0 DEF HearType
    <3>2. hear' = [hear EXCEPT ![s] = h]
      BY <1>0, <1>10, <2>3 DEF Deliver
    <3> HIDE DEF h
    <3>3. LineOK(h, link[s], Tail(wire[s]))
      BY <1>0, <2>1, <2>2, <2>3, <3>1 DEF LineOK
    <3> QED BY <1>0, <1>1, <2>2, <3>2, <3>3, LineChanged
  <2>4. CASE Head(wire[s]).kind # "rsp"
    <3>1. UNCHANGED hear
      BY <1>10, <2>4 DEF Deliver
    <3>2. LineOK(hear[s], link[s], Tail(wire[s]))
      BY <1>0, <2>1, <2>2, <2>4 DEF LineOK
    <3>3. hear' = [hear EXCEPT ![s] = hear[s]] /\ link' = [link EXCEPT ![s] = link[s]]
      BY <1>1, <2>2, <3>1
    <3> QED BY <1>0, <2>2, <3>2, <3>3, LineChanged
  <2> QED BY <2>3, <2>4
<1>11. CASE Refuse(s)
  <2>1. /\ Tail(wire[s]) \in Seq(FrameType) /\ OneRsp(Tail(wire[s]))
        /\ Head(wire[s]).kind # "rsp" => (HasRsp(Tail(wire[s])) <=> HasRsp(wire[s]))
    BY <1>0, <1>11, RspTail DEF Refuse, LineOK
  <2>2. /\ wire' = [wire EXCEPT ![s] = Tail(wire[s])] /\ UNCHANGED <<hear, link>>
        /\ link[s] = "live" /\ Head(wire[s]).kind # "rsp"
    BY <1>0, <1>11 DEF Refuse, linkVars
  <2>3. LineOK(hear[s], link[s], Tail(wire[s]))
    BY <1>0, <2>1, <2>2 DEF LineOK
  <2>4. hear' = [hear EXCEPT ![s] = hear[s]] /\ link' = [link EXCEPT ![s] = link[s]]
    BY <1>1, <2>2
  <2> DEFINE h == hear[s]
             l == link[s]
             w == Tail(wire[s])
  <2>5. LineOK(h, l, w) /\ hear' = [hear EXCEPT ![s] = h] /\ link' = [link EXCEPT ![s] = l]
        /\ wire' = [wire EXCEPT ![s] = w]
    BY <2>2, <2>3, <2>4
  <2> HIDE DEF h, l, w
  <2> QED BY <1>0, <2>5, LineChanged
<1>12. CASE Break(s)
  <2>1. PICK n \in 0..Len(wire[s]) : hear' = [hear EXCEPT ![s] = Interrupted(s, n, FALSE)]
    BY <1>12 DEF Break
  <2>2. link' = [link EXCEPT ![s] = "broken"] /\ wire' = [wire EXCEPT ![s] = <<>>]
    BY <1>12 DEF Break
  <2>3. LineOK(Interrupted(s, n, FALSE), "broken", <<>>)
    <3>1. n \in Nat /\ "broken" \in LinkStates
      BY <1>0 DEF LinkStates
    <3> QED BY <1>0, <3>1, InterruptedOK
  <2> QED BY <1>0, <2>1, <2>2, <2>3, LineChanged
<1>13. ASSUME NEW l \in LinkStates, link' = [link EXCEPT ![s] = l], UNCHANGED <<hear, wire>>,
              link[s] \notin {"reissuing", "live"}
       PROVE  LinesOK'
  <2>1. LineOK(hear[s], l, wire[s])
    BY <1>0, <1>13 DEF LineOK
  <2> QED BY <1>0, <1>1, <1>13, <2>1, LineChanged
<1>14. CASE Unregister(s)
  BY <1>13, <1>14 DEF Unregister, airVars, LinkStates
<1>15. CASE MarkDisconnected(s)
  BY <1>13, <1>15 DEF MarkDisconnected, airVars, LinkStates
<1>16. CASE Connect(s)
  BY <1>13, <1>16 DEF Connect, airVars, LinkStates
<1>17. CASE Activate(s)
  <2>1. link' = [link EXCEPT ![s] = "reissuing"] /\ UNCHANGED wire /\ link[s] = "offered"
    BY <1>17 DEF Activate
  <2>2. CASE resumed[s]
    BY <1>13, <1>17, <2>1, <2>2 DEF Activate, LinkStates
  <2>3. CASE ~resumed[s]
    <3>1. hear' = [hear EXCEPT ![s] = Quiet]
      BY <1>17, <2>3 DEF Activate
    <3>2. wire[s] = <<>> /\ ~HasRsp(<<>>)
      BY <1>0, <2>1 DEF LineOK, HasRsp
    <3>3. LineOK(Quiet, "reissuing", wire[s])
      BY <1>0, <1>2, <3>2 DEF LineOK, LinkStates
    <3> QED BY <1>0, <1>1, <2>1, <3>1, <3>3, LineChanged
  <2> QED BY <2>2, <2>3
<1> QED BY <1>4, <1>5, <1>6, <1>7, <1>8, <1>9, <1>10, <1>11, <1>12, <1>14, <1>15, <1>16, <1>17 DEF StationStep

\* A propagation's frame goes to a session that is registered and not broken.
LEMMA JobLines ==
  ASSUME TypeInv, NEW j \in Jobs, JobStep(j)
  PROVE  LinesOK'
<1>0. LinesOK /\ jobs[j] \in JobType
  BY LinesOfTypeInv
<1>1. UNCHANGED <<hear, link>>
  BY DEF JobStep, AttachEndPoint, DetachEndPoint, ReadSession, ReadKey, Snapshot, ReadAttached, ReadDetached,
     Begin, Frame, SendFails, linkVars
<1>2. CASE UNCHANGED wire
  BY <1>0, <1>1, <1>2 DEF LinesOK, LineOK
<1>3. CASE wire' # wire
  <2> DEFINE s == jobs[j].cur
             f == Propagate(RecordOf(jobs[j]))
  <2>1. Frame(j)
    BY <1>3 DEF JobStep, AttachEndPoint, DetachEndPoint, ReadSession, ReadKey, Snapshot, ReadAttached, ReadDetached,
       Begin, SendFails, airVars
  <2>2. /\ jobs[j].sess = "here" /\ link[s] # "broken"
        /\ wire' = [wire EXCEPT ![s] = Append(wire[s], f)]
    BY <1>3, <2>1 DEF Frame
  <2>3. s \in Stations
    BY <1>0, <1>3, <2>2 DEF LinesOK
  <2>4. link[s] \in {"reissuing", "live"} /\ LineOK(hear[s], link[s], wire[s])
    BY <1>0, <2>2, <2>3, LinesOfTypeInv DEF SessionsThere, Registered, LinesOK
  <2>5. f \in FrameType /\ f.kind = "prp"
    BY <1>0, FrameParts
  <2> DEFINE w == Append(wire[s], f)
             h == hear[s]
             l == link[s]
  <2>6. hear' = [hear EXCEPT ![s] = h] /\ link' = [link EXCEPT ![s] = l] /\ wire' = [wire EXCEPT ![s] = w]
    BY <1>0, <1>1, <2>2, <2>3 DEF LinesOK
  <2> HIDE DEF f
  <2>7. LineOK(h, l, w)
    BY <2>4, <2>5, RspAppend DEF LineOK
  <2> HIDE DEF w, h, l, s
  <2> QED BY <1>0, <2>3, <2>6, <2>7, LineChanged
<1> QED BY <1>2, <1>3

\* All lines are cut.
LEMMA CrashLines ==
  ASSUME TypeInv, Crash
  PROVE  LinesOK' /\ holds' \in [Stations -> Contents]
<1>0. LinesOK /\ holds \in [Stations -> Contents]
  BY LinesOfTypeInv
<1>1. PICK n \in [Stations -> 0..Max({Len(wire[s]) : s \in Stations})] :
        /\ \A s \in Stations : n[s] <= Len(wire[s])
        /\ holds' = [s \in Stations |-> After(s, n[s])]
        /\ hear' = [s \in Stations |-> Interrupted(s, n[s], TRUE)]
  BY DEF Crash
<1>2. ASSUME NEW s \in Stations PROVE n[s] \in 0..Len(wire[s]) /\ n[s] \in Nat
  <2> DEFINE m == Max({Len(wire[t]) : t \in Stations})
  <2>1. n \in [Stations -> 0..m]
    OBVIOUS
  <2> HIDE DEF m
  <2>2. n[s] \in 0..m /\ Len(wire[s]) \in Nat
    BY <1>0, <2>1 DEF LinesOK
  <2>3. n[s] \in Int /\ n[s] >= 0
    BY <2>2
  <2> QED BY <1>1, <2>2, <2>3
<1>3. /\ link' = [s \in Stations |-> IF link[s] \notin {"down", "unresumable"} THEN "down" ELSE link[s]]
      /\ wire' = [s \in Stations |-> <<>>]
  BY DEF Crash
<1>4. ASSUME NEW s \in Stations
      PROVE  LineOK(hear'[s], link'[s], wire'[s]) /\ holds'[s] \in Contents
  <2>1. link'[s] \in LinkStates
    BY <1>0, <1>3 DEF LinesOK, LinkStates
  <2>2. LineOK(Interrupted(s, n[s], TRUE), link'[s], <<>>)
    BY <1>0, <1>2, <2>1, InterruptedOK
  <2>3. After(s, n[s]) \in Contents
    BY <1>0, <1>2, AfterType
  <2> QED BY <1>1, <1>3, <2>2, <2>3
<1>5. /\ hear' \in [Stations -> HearType] /\ link' \in [Stations -> LinkStates]
      /\ wire' \in [Stations -> Seq(FrameType)]
  BY <1>1, <1>3, <1>4 DEF LineOK
<1>6. \A s \in Stations : LineOK(hear[s], link[s], wire[s])'
  BY <1>4 DEF LineOK
<1> QED BY <1>1, <1>4, <1>5, <1>6 DEF LinesOK

\* The pending lists, what is offered of them, and what the stations hold.
LEMMA JournalTypes ==
  ASSUME TypeInv, Next
  PROVE  /\ journal' \in [Stations -> Seq(RecordType)] /\ offer' \in [Stations -> Seq(RecordType)] /\ lastOp' \in [Stations -> Nat]
         /\ holds' \in [Stations -> Contents]
<1>0. /\ LinesOK /\ jobs \in [Jobs -> JobType]
      /\ journal \in [Stations -> Seq(RecordType)] /\ offer \in [Stations -> Seq(RecordType)]
      /\ holds \in [Stations -> Contents] /\ wire \in [Stations -> Seq(FrameType)]
      /\ <<>> \in Seq(RecordType) /\ Detach \in Contents /\ lastOp \in [Stations -> Nat]
  BY LinesOfTypeInv, KeysApart DEF LinesOK
<1>1. ASSUME NEW s, NEW c PROVE Settled(s, c) \in [Stations -> Seq(RecordType)]
  <2>1. s \in Stations => RemoveFirst(journal[s], c) \in Seq(RecordType)
    BY <1>0, RemoveFirstType
  <2> QED BY <1>0, <2>1 DEF Settled
<1>2. ASSUME NEW s \in Stations, StationStep(s)
      PROVE  /\ journal' \in [Stations -> Seq(RecordType)] /\ offer' \in [Stations -> Seq(RecordType)] /\ lastOp' \in [Stations -> Nat]
             /\ holds' \in [Stations -> Contents]
  <2>1. CASE Deliver(s)
    <3>1. Head(wire[s]).what \in Contents
      <4>1. Head(wire[s]) \in FrameType
        BY <1>0, <2>1 DEF Deliver
      <4> QED BY <4>1 DEF FrameType
    <3> QED BY <1>0, <1>1, <2>1, <3>1 DEF Deliver
  <2>2. CASE Break(s)
    <3>1. PICK n \in 0..Len(wire[s]) : holds' = [holds EXCEPT ![s] = After(s, n)]
      BY <2>2 DEF Break
    <3>2. After(s, n) \in Contents
      BY <1>0, AfterType
    <3> QED BY <1>0, <2>2, <3>1, <3>2 DEF Break
  <2>3. CASE Connect(s)
    BY <1>0, <2>3 DEF Connect, airVars
  <2>4. CASE Activate(s)
    <3>1. CASE resumed[s]
      BY <1>0, <2>4, <3>1 DEF Activate
    <3>2. CASE ~resumed[s]
      <4>1. /\ lastOp' = [lastOp EXCEPT ![s] = 0] /\ journal' = [journal EXCEPT ![s] = <<>>]
            /\ holds' = [holds EXCEPT ![s] = Detach] /\ offer' = offer
        BY <2>4, <3>2 DEF Activate
      <4> QED BY <1>0, <4>1
    <3> QED BY <3>1, <3>2
  <2>5. ASSUME NEW j \in Jobs, Reissue(s, j)
        PROVE  /\ journal' \in [Stations -> Seq(RecordType)] /\ offer' \in [Stations -> Seq(RecordType)] /\ lastOp' \in [Stations -> Nat]
               /\ holds' \in [Stations -> Contents]
    BY <1>0, <2>5 DEF Reissue
  <2>6. CASE UNCHANGED <<lastOp, journal, offer, holds>>
    BY <1>0, <2>6
  <2> QED BY <1>2, <2>1, <2>2, <2>3, <2>4, <2>5, <2>6 DEF StationStep, Attach, Serve, ServeFails,
        DetachReported, AttachComplete, DetachComplete, Refuse, Unregister, MarkDisconnected, linkVars, airVars
<1>3. ASSUME NEW j \in Jobs, JobStep(j)
      PROVE  /\ journal' \in [Stations -> Seq(RecordType)] /\ offer' \in [Stations -> Seq(RecordType)] /\ lastOp' \in [Stations -> Nat]
             /\ holds' \in [Stations -> Contents]
  <2>1. jobs[j].what \in Contents
    BY <1>0, JobParts
  <2>2. CASE Begin(j)
    <3> DEFINE s == jobs[j].cur
               p == [op |-> lastOp[s] + 1, what |-> jobs[j].what]
    <3>1. UNCHANGED <<offer, holds>> /\ s \in Stations
      BY <2>2 DEF Begin, airVars, TypeInv, AllStaged, Staged
    <3>2. \/ journal' = journal /\ lastOp' = lastOp
          \/ journal' = [journal EXCEPT ![s] = Append(journal[s], p)] /\ lastOp' = [lastOp EXCEPT ![s] = lastOp[s] + 1]
      BY <2>2 DEF Begin
    <3>3. lastOp[s] + 1 \in Nat /\ p \in RecordType
      BY <1>0, <2>1, <3>1 DEF RecordType
    <3> HIDE DEF p
    <3>4. Append(journal[s], p) \in Seq(RecordType)
      BY <1>0, <3>1, <3>3
    <3> HIDE DEF s
    <3> QED BY <1>0, <3>1, <3>2, <3>3, <3>4
  <2>3. CASE Frame(j)
    <3>1. UNCHANGED <<lastOp, offer, holds>>
      BY <2>3 DEF Frame
    <3>2. journal' = journal \/ journal' = Settled(jobs[j].cur, RecordOf(jobs[j]))
      BY <2>3 DEF Frame
    <3> QED BY <1>0, <1>1, <3>1, <3>2
  <2>4. CASE UNCHANGED <<lastOp, journal, offer, holds>>
    BY <1>0, <2>4
  <2> QED BY <1>3, <2>2, <2>3, <2>4 DEF JobStep, AttachEndPoint, DetachEndPoint, ReadSession, ReadKey, Snapshot,
        ReadAttached, ReadDetached, SendFails, linkVars, airVars
<1>4. CASE Crash
  <2>1. journal' = journal /\ lastOp' = lastOp /\ offer' = [s \in Stations |-> <<>>]
    BY <1>4 DEF Crash
  <2> QED BY <1>0, <1>4, <2>1, CrashLines
<1> QED BY <1>2, <1>3, <1>4, NextCases

\* The initial state.
LEMMA TypesInit == Init => TypeInv
<1> SUFFICES ASSUME Init PROVE TypeInv
  OBVIOUS
<1>1. /\ ep \in [status : {"attached", "detached"}, sign : Keys] /\ ep.sign \in Keys
      /\ sessionKey \in Keys
      /\ served \in [Telegrams -> Nat]
      /\ holds \in [Stations -> Contents]
      /\ journal \in [Stations -> Seq(RecordType)] /\ offer \in [Stations -> Seq(RecordType)]
  <2>1. ep \in [status : {"attached", "detached"}, sign : Keys] /\ ep.sign \in Keys
    BY AttachmentAssumption DEF Init
  <2>2. <<>> \in Seq(RecordType)
    OBVIOUS
  <2> QED BY <2>1, <2>2, KeysApart DEF Init
<1>2. Quiet \in HearType /\ Quiet.pc = "idle" /\ <<>> \in Seq(FrameType) /\ ~HasRsp(<<>>) /\ OneRsp(<<>>)
  BY DEF Quiet, HearType, HasRsp, OneRsp
<1>3. LineOK(Quiet, "live", <<>>)
  BY <1>2 DEF LineOK, LinkStates
<1>4. LinesOK
  BY <1>2, <1>3 DEF Init, LinesOK, LinkStates
<1>5. jobs \in [Jobs -> JobType] /\ SessionsThere /\ AllStaged
  <2>1. jobs = [j \in Jobs |-> Idle]
    BY DEF Init
  <2> QED BY <2>1, IdleType, AttachmentAssumption DEF SessionsThere, AllStaged, Staged, Idle
<1>6. lastOp \in [Stations -> Nat]
  BY DEF Init
<1> QED BY <1>1, <1>4, <1>5, <1>6, LinesOfTypeInv

\* Every step keeps the types.
LEMMA TypesKept == TypeInv /\ [Next]_vars => TypeInv'
<1> SUFFICES ASSUME TypeInv, [Next]_vars PROVE TypeInv'
  OBVIOUS
<1>1. CASE UNCHANGED vars
  BY <1>1 DEF vars, epVars, linkVars, airVars, keyGhosts, TypeInv, TypeOK, OneAnswer, CheckedIsAttach, SessionsThere,
     AllStaged, Staged
<1>2. CASE Next
  <2>1. LinesOK'
    BY <1>2, NextCases, StationLines, JobLines, CrashLines
  <2>2. LinesOK' /\ SessionsThere' /\ AllStaged'
        /\ ep' \in [status : {"attached", "detached"}, sign : Keys]
        /\ sessionKey' \in Keys
        /\ journal' \in [Stations -> Seq(RecordType)] /\ offer' \in [Stations -> Seq(RecordType)] /\ lastOp' \in [Stations -> Nat]
        /\ holds' \in [Stations -> Contents]
        /\ jobs' \in [Jobs -> JobType]
        /\ served' \in [Telegrams -> Nat]
    BY <1>2, <2>1, RowTypes, JobTypes, JournalTypes DEF JobsOK
  <2> QED BY <2>2 DEF TypeInv, TypeOK, LinesOK, LineOK, OneAnswer, OneRsp, HasRsp, CheckedIsAttach, LinkStates
<1> QED BY <1>1, <1>2

\* Whatever the stations report, the calls ask for and the process goes through,
\* the end point, its session's key, the connections, the pending propagations
\* and the goroutines keep their types, and a station waits for an answer to its
\* own operation exactly while that answer is on its way.
THEOREM TypeCorrect == Spec => []TypeOK
<1>1. TypeInv => TypeOK
  BY DEF TypeInv
<1> QED BY <1>1, TypesInit, TypesKept, PTL DEF Spec

-----------------------------------------------------------------------------
(* The key of the end point's session.                                     *)

\* Where a propagation can be: a detach carries no key and reads none, an
\* attach has read its key before it reads the sessions, and of the two reads
\* of a key the first yields one.
Planned(r) ==
  /\ r.kind \in {"none", "detach", "otaDetach"} => r.what = Detach /\ r.pc \notin {"key", "sign"}
  /\ r.kind = "attach" => r.pc \in {"sign", "snapshot", "begin", "frame"} \/ (r.pc = "key" /\ r.what = Detach)
  /\ r.pc = "sign" => r.what # Detach

\* A propagation that will store a key stores k.
Carries(r, k) == HasKey(r) => r.what = k

\* Unless the last attach overtook a propagation, the stored key is the one of
\* the recorded telegram, and so is every key about to be stored, and the key
\* of the session that is still to be compared with nonce and signature.
KeyInv ==
  /\ \A j \in Jobs : Planned(jobs[j])
  /\ ~overtaken => sessionKey = ep.sign /\ \A j \in Jobs : Carries(jobs[j], ep.sign)

\* A propagation that goes on keeps its key or reads it again.
LEMMA OnwardKey ==
  ASSUME NEW r \in JobType, Planned(r), NEW o \in Onward(r)
  PROVE  Planned(o) /\ \A k : Carries(r, k) /\ r.pc # "missed" => Carries(o, k)
<1>1. CASE o = Idle
  BY <1>1 DEF Idle, Planned, Carries, HasKey
<1>2. CASE r.kind = "reconcile" /\ o # Idle
  BY <1>2, OnwardFacts DEF Planned, Carries, HasKey
<1>3. CASE r.kind # "reconcile" /\ o # Idle
  <2>1. /\ o.kind = r.kind
        /\ IF r.kind = "trigger" THEN o.pc = "key" /\ o.what = Detach
           ELSE o.pc = "begin" /\ o.what = r.what
    BY <1>3, OnwardFacts
  <2>2. r.kind \in Kinds
    BY JobParts
  <2> QED BY <1>3, <2>1, <2>2 DEF Planned, Carries, HasKey, Kinds
<1> QED BY <1>1, <1>2, <1>3

\* One goroutine goes on with the record r, the end point and the key as they are.
LEMMA KeyJobChanged ==
  ASSUME TypeInv, KeyInv, NEW j \in Jobs, NEW r, jobs' = [jobs EXCEPT ![j] = r],
         Planned(r), ~overtaken => Carries(r, ep.sign),
         ep'.sign = ep.sign, overtaken' = overtaken, ~overtaken => sessionKey' = ep.sign
  PROVE  KeyInv'
<1>1. jobs \in [Jobs -> JobType]
  BY DEF TypeInv, TypeOK
<1>2. \A k \in Jobs : jobs'[k] = IF k = j THEN r ELSE jobs[k]
  BY <1>1
<1>3. \A k \in Jobs : Planned(jobs'[k])
  BY <1>2 DEF KeyInv
<1>4. ~overtaken => \A k \in Jobs : Carries(jobs'[k], ep.sign)
  BY <1>2 DEF KeyInv
<1> QED BY <1>3, <1>4 DEF KeyInv, Planned, Carries, HasKey

\* The records of the goroutines that the handlers and calls start.
LEMMA FreshKey ==
  ASSUME NEW r, NEW p, NEW k, NEW c, IsFresh(r, p, k, c),
         k = "attach" => p = "key", k \in {"detach", "otaDetach"} => p = "snapshot", k # "none",
         p # "sign"
  PROVE  Planned(r) /\ \A x : Carries(r, x)
  BY DEF IsFresh, Planned, Carries, HasKey

\* The steps of a station keep the key.
LEMMA StationKey ==
  ASSUME TypeInv, KeyInv, NEW s \in Stations, StationStep(s)
  PROVE  KeyInv'
<1>0. jobs \in [Jobs -> JobType]
  BY DEF TypeInv, TypeOK
<1>1. ASSUME NEW j \in Jobs, AttachComplete(s, j) PROVE KeyInv'
  <2>1. PICK r : jobs' = [jobs EXCEPT ![j] = r] /\ IsFresh(r, "snapshot", "trigger", NoStation)
    BY <1>1, StartTypes DEF AttachComplete, Started, PCs, Kinds
  <2>2. ep'.sign = ep.sign /\ overtaken' = overtaken /\ sessionKey' = sessionKey
    BY <1>1 DEF AttachComplete, TypeInv, TypeOK
  <2>3. Planned(r) /\ \A x : Carries(r, x)
    BY <2>1, FreshKey
  <2> QED BY <2>1, <2>2, <2>3, KeyJobChanged DEF KeyInv
<1>2. ASSUME NEW j \in Jobs, DetachComplete(s, j) PROVE KeyInv'
  <2>1. ep'.sign = ep.sign /\ overtaken' = overtaken /\ sessionKey' = sessionKey
    BY <1>2 DEF DetachComplete, Detached, keyGhosts, TypeInv, TypeOK
  <2>2. jobs' = jobs \/ \E r : jobs' = [jobs EXCEPT ![j] = r] /\ IsFresh(r, "snapshot", "otaDetach", s)
    BY <1>2, StartTypes DEF DetachComplete, Started, PCs, Kinds
  <2>3. CASE jobs' = jobs
    BY <2>1, <2>3 DEF KeyInv, Planned, Carries, HasKey
  <2>4. ASSUME NEW r, jobs' = [jobs EXCEPT ![j] = r], IsFresh(r, "snapshot", "otaDetach", s) PROVE KeyInv'
    <3>1. Planned(r) /\ \A x : Carries(r, x)
      BY <2>4, FreshKey
    <3> QED BY <2>1, <2>4, <3>1, KeyJobChanged DEF KeyInv
  <2> QED BY <2>2, <2>3, <2>4
<1>3. ASSUME NEW j \in Jobs, Reissue(s, j) PROVE KeyInv'
  <2>1. PICK r : jobs' = [jobs EXCEPT ![j] = r] /\ IsFresh(r, "attached", "reconcile", s)
    BY <1>3, StartTypes DEF Reissue, Started, PCs, Kinds
  <2>2. ep'.sign = ep.sign /\ overtaken' = overtaken /\ sessionKey' = sessionKey
    BY <1>3 DEF Reissue, epVars, keyGhosts
  <2>3. Planned(r) /\ \A x : Carries(r, x)
    BY <2>1, FreshKey
  <2> QED BY <2>1, <2>2, <2>3, KeyJobChanged DEF KeyInv
<1>4. CASE Serve(s)
  <2>1. jobs' = jobs /\ (sessionKey' = ep'.sign \/ UNCHANGED <<ep, sessionKey, overtaken>>)
    BY <1>4 DEF Serve, epVars, keyGhosts, TypeInv, TypeOK
  <2>2. CASE UNCHANGED <<ep, sessionKey, overtaken>>
    BY <2>1, <2>2 DEF KeyInv, Planned, Carries, HasKey
  <2>3. CASE StillAdvances(ep, hear[s].what)
    <3>1. sessionKey' = ep'.sign /\ (~overtaken' => \A j \in Jobs : ~HasKey(jobs[j]))
      BY <1>4, <2>3 DEF Serve, TypeInv, TypeOK
    <3> QED BY <2>1, <3>1 DEF KeyInv, Planned, Carries, HasKey
  <2> QED BY <1>4, <2>2, <2>3 DEF Serve, epVars, keyGhosts
<1>5. CASE Unregister(s) \/ Activate(s)
  <2>1. UNCHANGED <<ep, sessionKey, overtaken>>
    BY <1>5 DEF Unregister, Activate, epVars, keyGhosts
  <2>2. ASSUME NEW j \in Jobs
        PROVE  jobs'[j].pc = jobs[j].pc /\ jobs'[j].kind = jobs[j].kind /\ jobs'[j].what = jobs[j].what
    <3>1. jobs[j] \in JobType
      BY <1>0
    <3>2. CASE Unregister(s)
      <4>1. jobs'[j] = [jobs[j] EXCEPT !.targets = @ \ {s},
                                    !.sess = IF jobs[j].cur = s /\ @ = "here" THEN "gone" ELSE @]
        BY <3>2 DEF Unregister
      <4> QED BY <3>1, <4>1 DEF JobType
    <3>3. CASE Activate(s) /\ ~resumed[s]
      <4>1. jobs'[j] = [jobs[j] EXCEPT !.sess = IF jobs[j].cur = s THEN "ended" ELSE @]
        BY <3>3 DEF Activate
      <4> QED BY <3>1, <4>1 DEF JobType
    <3>4. CASE Activate(s) /\ resumed[s]
      BY <3>4 DEF Activate
    <3> QED BY <1>5, <3>2, <3>3, <3>4
  <2> QED BY <2>1, <2>2 DEF KeyInv, Planned, Carries, HasKey
<1>6. CASE UNCHANGED <<jobs, ep, sessionKey, overtaken>>
  BY <1>6 DEF KeyInv, Planned, Carries, HasKey
<1> QED BY <1>1, <1>2, <1>3, <1>4, <1>5, <1>6 DEF StationStep, Attach, ServeFails, DetachReported,
      Deliver, Refuse, Break, MarkDisconnected, Connect, epVars, keyGhosts

\* The steps of a propagation keep the key.
LEMMA JobKey ==
  ASSUME TypeInv, KeyInv, NEW j \in Jobs, JobStep(j)
  PROVE  KeyInv'
<1>0. /\ jobs[j] \in JobType /\ Planned(jobs[j])
      /\ ~overtaken => sessionKey = ep.sign /\ Carries(jobs[j], ep.sign)
      /\ ep \in [status : {"attached", "detached"}, sign : Keys]
  BY DEF TypeInv, TypeOK, KeyInv
<1>1. ep'.sign = ep.sign /\ overtaken' = overtaken
  BY <1>0 DEF JobStep, AttachEndPoint, DetachEndPoint, Detached, ReadSession, ReadKey, Snapshot, ReadAttached,
     ReadDetached, Begin, Frame, SendFails, epVars, keyGhosts
<1>2. CASE AttachEndPoint(j)
  <2>1. PICK r : jobs' = [jobs EXCEPT ![j] = r] /\ IsFresh(r, "key", "attach", NoStation)
    BY <1>2, StartTypes DEF AttachEndPoint, Started, PCs, Kinds
  <2>2. Planned(r) /\ \A x : Carries(r, x)
    BY <2>1, FreshKey
  <2>3. sessionKey' = sessionKey
    BY <1>2 DEF AttachEndPoint
  <2> QED BY <1>0, <1>1, <2>1, <2>2, <2>3, KeyJobChanged
<1>3. CASE DetachEndPoint(j)
  <2>1. PICK r : jobs' = [jobs EXCEPT ![j] = r] /\ IsFresh(r, "snapshot", "detach", NoStation)
    BY <1>3, StartTypes DEF DetachEndPoint, Started, PCs, Kinds
  <2>2. Planned(r) /\ \A x : Carries(r, x)
    BY <2>1, FreshKey
  <2>3. sessionKey' = sessionKey
    BY <1>3 DEF DetachEndPoint
  <2> QED BY <1>0, <1>1, <2>1, <2>2, <2>3, KeyJobChanged
<1>4. CASE ReadSession(j) \/ ReadKey(j)
  <2>1. PICK r \in JobType :
          /\ jobs' = [jobs EXCEPT ![j] = r]
          /\ r.kind = jobs[j].kind
          /\ \/ jobs[j].pc = "key" /\ r.pc = "sign" /\ r.what = sessionKey
             \/ /\ jobs[j].pc = "sign" /\ r.what = CurrentNetworkSessionKey(jobs[j].what)
                /\ r.pc = IF jobs[j].kind = "attach" THEN "snapshot" ELSE "begin"
    BY <1>4, KeyReads
  <2>2. sessionKey' = sessionKey /\ sessionKey # Detach
    BY <1>4, KeysApart DEF ReadSession, ReadKey, epVars, TypeInv, TypeOK
  <2>3. Planned(r)
    BY <1>0, <2>1, <2>2 DEF Planned
  <2>4. ~overtaken => r.what = ep.sign
    BY <1>0, <2>1 DEF CurrentNetworkSessionKey, Carries, HasKey, Planned
  <2> QED BY <1>0, <1>1, <2>1, <2>2, <2>3, <2>4, KeyJobChanged DEF Carries
<1>5. CASE Snapshot(j)
  <2> DEFINE r == [jobs[j] EXCEPT !.targets = Reached(jobs[j])]
  <2>1. r \in JobType
    BY <1>0, JobFields DEF Reached, Sendable
  <2>2. r.pc = jobs[j].pc /\ r.kind = jobs[j].kind /\ r.what = jobs[j].what /\ r.pc = "snapshot"
    BY <1>0, <1>5 DEF JobType, Snapshot
  <2>3. PICK o \in Onward(r) : jobs' = [jobs EXCEPT ![j] = o]
    BY <1>5, Zenon DEF Snapshot, Job
  <2>4. sessionKey' = sessionKey
    BY <1>5 DEF Snapshot, epVars
  <2> HIDE DEF r
  <2>5. Planned(r) /\ (~overtaken => Carries(r, ep.sign))
    BY <1>0, <2>2 DEF Planned, Carries, HasKey
  <2>6. Planned(o) /\ (~overtaken => Carries(o, ep.sign))
    BY <2>1, <2>2, <2>5, OnwardKey
  <2> QED BY <1>0, <1>1, <2>3, <2>4, <2>6, KeyJobChanged
<1>6. CASE ReadAttached(j)
  <2> DEFINE r == [jobs[j] EXCEPT !.pc = "missed", !.todo = IF AttachmentToSend(jobs[j].cur) THEN <<"key">> ELSE <<>>]
  <2>1. jobs' = [jobs EXCEPT ![j] = r] /\ sessionKey' = sessionKey /\ jobs[j].pc = "attached"
    BY <1>6 DEF ReadAttached, Job, epVars
  <2>2. r.pc = "missed" /\ r.kind = jobs[j].kind /\ r.what = jobs[j].what
    BY <1>0 DEF JobType
  <2> HIDE DEF r
  <2>3. Planned(r) /\ \A x : Carries(r, x)
    BY <1>0, <2>1, <2>2 DEF Planned, Carries, HasKey
  <2> QED BY <1>0, <1>1, <2>1, <2>3, KeyJobChanged
<1>7. CASE ReadDetached(j)
  <2> DEFINE t == IF DetachedWhileAway(jobs[j].cur) THEN jobs[j].todo \o <<"begin">> ELSE jobs[j].todo
             r == [jobs[j] EXCEPT !.todo = t]
  <2>1. r \in JobType
    <3>1. jobs[j].todo \in Seq({"key", "begin"}) /\ <<"begin">> \in Seq({"key", "begin"})
      BY <1>0, JobParts
    <3>2. jobs[j].todo \o <<"begin">> \in Seq({"key", "begin"})
      BY <3>1
    <3>3. t \in Seq({"key", "begin"})
      BY <3>1, <3>2
    <3> HIDE DEF t
    <3> QED BY <1>0, <3>3, JobFields
  <2>2. r.pc = "missed" /\ r.kind = jobs[j].kind /\ r.what = jobs[j].what
    BY <1>0, <1>7 DEF JobType, ReadDetached
  <2>3. PICK o \in Onward(r) : jobs' = [jobs EXCEPT ![j] = o]
    BY <1>7, Zenon DEF ReadDetached, Job
  <2>4. sessionKey' = sessionKey
    BY <1>7 DEF ReadDetached, epVars
  <2> HIDE DEF r
  <2>5. Planned(r) /\ r.kind # "attach"
    BY <1>0, <1>7, <2>2 DEF Planned, ReadDetached
  <2>6. Planned(o) /\ \A x : Carries(o, x)
    <3>1. Planned(o)
      BY <2>1, <2>5, OnwardKey
    <3>2. CASE o = Idle
      BY <3>1, <3>2 DEF Idle, Carries, HasKey
    <3>3. CASE o # Idle
      BY <2>1, <2>5, <3>1, <3>3, JobParts, OnwardFacts DEF Kinds, Planned, Carries, HasKey
    <3> QED BY <3>1, <3>2, <3>3
  <2> QED BY <1>0, <1>1, <2>3, <2>4, <2>6, KeyJobChanged
<1>8. ASSUME \E o \in Onward(jobs[j]) : Job(j, o), jobs[j].pc # "missed", sessionKey' = sessionKey
      PROVE  KeyInv'
  <2>1. PICK o \in Onward(jobs[j]) : jobs' = [jobs EXCEPT ![j] = o]
    BY <1>8 DEF Job
  <2>2. Planned(o) /\ (~overtaken => Carries(o, ep.sign))
    BY <1>0, <1>8, OnwardKey
  <2> QED BY <1>0, <1>1, <1>8, <2>1, <2>2, KeyJobChanged
<1>9. CASE Begin(j)
  <2>1. CASE (\E o \in Onward(jobs[j]) : Job(j, o)) /\ sessionKey' = sessionKey
    BY <1>8, <1>9, <2>1 DEF Begin
  <2>2. CASE /\ Job(j, [jobs[j] EXCEPT !.pc = "frame", !.op = lastOp[jobs[j].cur] + 1])
             /\ sessionKey' = IF jobs[j].what = Detach THEN sessionKey ELSE jobs[j].what
    <3> DEFINE r == [jobs[j] EXCEPT !.pc = "frame", !.op = lastOp[jobs[j].cur] + 1]
    <3>1. r.pc = "frame" /\ r.kind = jobs[j].kind /\ r.what = jobs[j].what /\ jobs[j].pc = "begin"
      BY <1>0, <1>9 DEF JobType, Begin
    <3>2. jobs' = [jobs EXCEPT ![j] = r]
      BY <2>2 DEF Job
    <3> HIDE DEF r
    <3>3. Planned(r) /\ (~overtaken => Carries(r, ep.sign))
      BY <1>0, <3>1 DEF Planned, Carries, HasKey
    <3>4. ~overtaken => sessionKey' = ep.sign
      BY <1>0, <2>2, <3>1 DEF Carries, HasKey
    <3> QED BY <1>0, <1>1, <3>2, <3>3, <3>4, KeyJobChanged
  <2> QED BY <1>9, <2>1, <2>2 DEF Begin
<1>10. CASE Frame(j)
  BY <1>8, <1>10 DEF Frame, epVars
<1>11. CASE SendFails(j)
  <2>1. sessionKey' = sessionKey
    BY <1>11 DEF SendFails, epVars
  <2>2. CASE jobs' = [jobs EXCEPT ![j] = Idle]
    <3>1. Planned(Idle) /\ \A x : Carries(Idle, x)
      BY DEF Idle, Planned, Carries, HasKey
    <3> QED BY <1>0, <1>1, <2>1, <2>2, <3>1, KeyJobChanged
  <2>3. CASE jobs[j].pc # "missed" /\ \E o \in Onward(jobs[j]) : Job(j, o)
    BY <1>8, <2>1, <2>3
  <2> QED BY <1>11, <2>2, <2>3 DEF SendFails, Job
<1> QED BY <1>2, <1>3, <1>4, <1>5, <1>6, <1>7, <1>9, <1>10, <1>11 DEF JobStep

\* Every step keeps the key.
LEMMA KeyInvKept == TypeInv /\ KeyInv /\ [Next]_vars => KeyInv'
<1> SUFFICES ASSUME TypeInv, KeyInv, [Next]_vars PROVE KeyInv'
  OBVIOUS
<1>1. CASE UNCHANGED vars
  BY <1>1 DEF vars, epVars, keyGhosts, KeyInv, Planned, Carries, HasKey
<1>2. CASE Crash
  <2>1. jobs' = [j \in Jobs |-> Idle] /\ UNCHANGED <<ep, sessionKey, overtaken>>
    BY <1>2 DEF Crash, epVars, keyGhosts
  <2> QED BY <2>1 DEF KeyInv, Planned, Carries, HasKey, Idle
<1> QED BY <1>1, <1>2, StationKey, JobKey, NextCases

\* Whatever propagations and attaches interleave, the key of the end point's
\* session (PersistAttachPropagateSession, PersistAttachSession) is the one its
\* newest accepted attach derived, unless a propagation that had begun to read its
\* key (NetworkSessionKey, two statements) when that attach was accepted was still
\* at work.
THEOREM SessionKeyKept == Spec => []KeyKept
<1>1. Init => KeyInv
  BY DEF Init, KeyInv, Planned, Carries, HasKey, Idle
<1>2. KeyInv => KeyKept
  BY DEF KeyInv, KeyKept
<1> QED BY <1>1, <1>2, TypesInit, TypesKept, KeyInvKept, PTL DEF Spec

-----------------------------------------------------------------------------
(* Telegrams are served once.                                              *)

\* While no telegram older than the recorded one was served, each was served
\* once at most, and none newer than the recorded one.
ServedInv ==
  ~fellBack => \A a \in Telegrams : served[a] <= 1 /\ (served[a] >= 1 => a <= ep.sign)

\* The recorded telegram itself never advances the counter.
LEMMA SelfNeverAdvances ==
  ASSUME NEW e, NEW a \in Telegrams, AttachCounterAdvances(e, a)
  PROVE  a # e.sign
  BY AttachmentAssumption DEF AttachCounterAdvances, PreShared

\* Every step keeps the count.
LEMMA ServedKept == TypeInv /\ ServedInv /\ [Next]_vars => ServedInv'
<1> SUFFICES ASSUME TypeInv, ServedInv, [Next]_vars PROVE ServedInv'
  OBVIOUS
<1>0. ep \in [status : {"attached", "detached"}, sign : Keys] /\ served \in [Telegrams -> Nat]
  BY DEF TypeInv, TypeOK
<1>1. CASE served' = served /\ fellBack' = fellBack /\ ep'.sign = ep.sign
  BY <1>1 DEF ServedInv
<1>2. ASSUME NEW s \in Stations, Serve(s), StillAdvances(ep, hear[s].what) PROVE ServedInv'
  <2> DEFINE a == hear[s].what
  <2>1. a \in Telegrams
    BY <1>2 DEF TypeInv, TypeOK, CheckedIsAttach, HearType, Serve
  <2>2. /\ ep'.sign = a /\ served' = [served EXCEPT ![a] = @ + 1]
        /\ fellBack' = (fellBack \/ a < ep.sign)
    BY <1>0, <1>2 DEF Serve
  <2>3. a # ep.sign
    BY <1>2, <2>1, SelfNeverAdvances DEF StillAdvances
  <2> HIDE DEF a
  <2>4. a \in Nat /\ ep.sign \in Nat /\ Telegrams \subseteq Nat
    <3>1. Telegrams \subseteq Nat /\ Keys \subseteq Nat
      BY AttachmentAssumption DEF Keys, PreShared
    <3>2. ep.sign \in Keys
      BY <1>0
    <3> QED BY <2>1, <3>1, <3>2
  <2>5. ASSUME ~fellBack', NEW b \in Telegrams
        PROVE  served'[b] <= 1 /\ (served'[b] >= 1 => b <= a)
    <3>1. ~fellBack /\ a > ep.sign
      <4>1. ~fellBack /\ ~(a < ep.sign)
        BY <2>2, <2>5, Zenon
      <4> QED BY <2>3, <2>4, <4>1
    <3>2. served[b] <= 1 /\ (served[b] >= 1 => b <= ep.sign) /\ served[b] \in Nat /\ b \in Nat
      BY <1>0, <2>4, <3>1 DEF ServedInv
    <3>3. CASE b = a
      <4>1. served[b] = 0
        BY <2>4, <3>1, <3>2, <3>3
      <4>2. served'[b] = 1
        BY <1>0, <2>2, <3>3, <4>1
      <4> QED BY <2>4, <3>3, <4>2
    <3>4. CASE b # a
      <4>1. served'[b] = served[b]
        BY <1>0, <2>2, <3>4
      <4> QED BY <2>4, <3>1, <3>2, <4>1
    <3> QED BY <3>3, <3>4
  <2> QED BY <2>2, <2>5 DEF ServedInv
<1>3. CASE UNCHANGED vars
  BY <1>1, <1>3 DEF vars, epVars, keyGhosts
<1>4. ASSUME NEW s \in Stations, StationStep(s) PROVE ServedInv'
  BY <1>0, <1>1, <1>2, <1>4 DEF StationStep, Attach, Serve, ServeFails, DetachReported, AttachComplete,
     DetachComplete, Detached, Reissue, Deliver, Refuse, Break, Unregister, MarkDisconnected, Connect, Activate,
     epVars, keyGhosts
<1>5. ASSUME NEW j \in Jobs, JobStep(j) PROVE ServedInv'
  BY <1>0, <1>1, <1>5 DEF JobStep, AttachEndPoint, DetachEndPoint, Detached, ReadSession, ReadKey, Snapshot,
     ReadAttached, ReadDetached, Begin, Frame, SendFails, epVars, keyGhosts
<1>6. CASE Crash
  BY <1>1, <1>6 DEF Crash, epVars, keyGhosts
<1> QED BY <1>3, <1>4, <1>5, <1>6, NextCases

\* An att telegram that several stations heard, or that is reported again after
\* its answer was lost, is served once (attachEndpoint checks the counter again
\* under the lock of the row), unless one older than the recorded telegram passed
\* for an advance after a rollover of the counter.
THEOREM TelegramServedOnce == Spec => []ServedOnce
<1>1. Init => ServedInv
  <2> SUFFICES ASSUME Init PROVE ServedInv
    OBVIOUS
  <2>1. Telegrams \subseteq Nat
    BY AttachmentAssumption
  <2>2. \A a \in Telegrams : served[a] = IF a = ep.sign THEN 1 ELSE 0
    BY DEF Init
  <2> QED BY <2>1, <2>2 DEF ServedInv
<1>2. TypeInv /\ ServedInv => ServedOnce
  BY DEF ServedInv, ServedOnce, TypeInv, TypeOK
<1> QED BY <1>1, <1>2, TypesInit, TypesKept, ServedKept, PTL DEF Spec


-----------------------------------------------------------------------------
(* Sequences.                                                              *)

\* The positions of an appended sequence.
LEMMA AppendAt ==
  ASSUME NEW S, NEW q \in Seq(S), NEW e \in S
  PROVE  /\ Append(q, e) \in Seq(S)
         /\ Len(q) + 1 \in DOMAIN Append(q, e) /\ Append(q, e)[Len(q) + 1] = e
         /\ \A i \in DOMAIN q : i \in Nat /\ i <= Len(q) /\ i \in DOMAIN Append(q, e) /\ Append(q, e)[i] = q[i]
         /\ \A i \in DOMAIN Append(q, e) : (i \in DOMAIN q /\ Append(q, e)[i] = q[i])
                                          \/ (i = Len(q) + 1 /\ Append(q, e)[i] = e)
<1> DEFINE v == Append(q, e)
<1>1. /\ v \in Seq(S) /\ Len(v) = Len(q) + 1 /\ v[Len(q) + 1] = e
      /\ \A i \in 1..Len(q) : v[i] = q[i]
  OBVIOUS
<1>2. DOMAIN q = 1..Len(q) /\ DOMAIN v = 1..(Len(q) + 1) /\ Len(q) \in Nat
  BY <1>1
<1> HIDE DEF v
<1>3. \A i \in DOMAIN v : (i \in DOMAIN q /\ v[i] = q[i]) \/ (i = Len(q) + 1 /\ v[i] = e)
  <2> SUFFICES ASSUME NEW i \in 1..(Len(q) + 1)
               PROVE  (i \in DOMAIN q /\ v[i] = q[i]) \/ (i = Len(q) + 1 /\ v[i] = e)
    BY <1>2
  <2>1. CASE i = Len(q) + 1
    BY <1>1, <2>1
  <2>2. CASE i # Len(q) + 1
    <3>1. i \in 1..Len(q)
      BY <1>2, <2>2
    <3> QED BY <1>1, <1>2, <3>1
  <2> QED BY <2>1, <2>2
<1>4. \A i \in DOMAIN q : i \in Nat /\ i <= Len(q) /\ i \in DOMAIN v /\ v[i] = q[i]
  BY <1>1, <1>2
<1>5. Len(q) + 1 \in DOMAIN v
  BY <1>2
<1> QED BY <1>1, <1>3, <1>4, <1>5 DEF v

\* The positions of what is left behind the first.
LEMMA TailAt ==
  ASSUME NEW S, NEW q \in Seq(S), q # <<>>
  PROVE  /\ Tail(q) \in Seq(S) /\ 1 \in DOMAIN q /\ Head(q) = q[1]
         /\ \A i \in DOMAIN Tail(q) : i \in Nat /\ i + 1 \in DOMAIN q /\ i + 1 # 1 /\ Tail(q)[i] = q[i + 1]
         /\ \A i \in DOMAIN q \ {1} : i \in Nat /\ i - 1 \in DOMAIN Tail(q) /\ Tail(q)[i - 1] = q[i]
<1> DEFINE v == Tail(q)
<1>1. /\ v \in Seq(S) /\ Head(q) = q[1]
      /\ Len(q) >= 1 /\ Len(v) = Len(q) - 1 /\ \A i \in 1..Len(v) : v[i] = q[i + 1]
  OBVIOUS
<1>2. DOMAIN q = 1..Len(q) /\ DOMAIN v = 1..Len(v) /\ Len(q) \in Nat /\ Len(v) \in Nat
  BY <1>1
<1> HIDE DEF v
<1>3. \A i \in DOMAIN v : i \in Nat /\ i + 1 \in DOMAIN q /\ i + 1 # 1 /\ v[i] = q[i + 1]
  BY <1>1, <1>2
<1>4. ASSUME NEW i \in DOMAIN q \ {1} PROVE i \in Nat /\ i - 1 \in DOMAIN v /\ v[i - 1] = q[i]
  <2>1. i - 1 \in 1..Len(v) /\ (i - 1) + 1 = i /\ i \in Nat
    BY <1>1, <1>2
  <2>2. v[i - 1] = q[i]
    BY <1>1, <2>1
  <2> QED BY <1>2, <2>1, <2>2
<1>5. 1 \in DOMAIN q
  BY <1>1, <1>2
<1> QED BY <1>1, <1>3, <1>4, <1>5 DEF v

\* The positions of two sequences put together.
LEMMA ConcatAt ==
  ASSUME NEW S, NEW q \in Seq(S), NEW u \in Seq(S)
  PROVE  /\ q \o u \in Seq(S)
         /\ \A i \in DOMAIN q : i \in Nat /\ i <= Len(q) /\ i \in DOMAIN (q \o u) /\ (q \o u)[i] = q[i]
         /\ \A i \in DOMAIN u : i \in Nat /\ i >= 1 /\ Len(q) + i \in DOMAIN (q \o u) /\ (q \o u)[Len(q) + i] = u[i]
         /\ \A i \in DOMAIN (q \o u) :
              \/ i \in DOMAIN q /\ (q \o u)[i] = q[i]
              \/ i \in Nat /\ i > Len(q) /\ i - Len(q) \in DOMAIN u /\ (q \o u)[i] = u[i - Len(q)]
<1> DEFINE v == q \o u
<1>1. /\ v \in Seq(S) /\ Len(v) = Len(q) + Len(u)
      /\ \A i \in 1..Len(v) : v[i] = IF i <= Len(q) THEN q[i] ELSE u[i - Len(q)]
  OBVIOUS
<1>2. DOMAIN q = 1..Len(q) /\ DOMAIN v = 1..Len(v) /\ DOMAIN u = 1..Len(u) /\ Len(q) \in Nat /\ Len(u) \in Nat
  BY <1>1
<1> HIDE DEF v
<1>3. \A i \in DOMAIN q : i \in Nat /\ i <= Len(q) /\ i \in DOMAIN v /\ v[i] = q[i]
  BY <1>1, <1>2
<1>4. ASSUME NEW i \in DOMAIN u
      PROVE  i \in Nat /\ i >= 1 /\ Len(q) + i \in DOMAIN v /\ v[Len(q) + i] = u[i]
  <2>1. /\ i \in Nat /\ i >= 1 /\ Len(q) + i \in 1..Len(v)
        /\ ~(Len(q) + i <= Len(q)) /\ (Len(q) + i) - Len(q) = i
    BY <1>1, <1>2
  <2> QED BY <1>1, <1>2, <2>1
<1>5. ASSUME NEW i \in DOMAIN v
      PROVE  \/ i \in DOMAIN q /\ v[i] = q[i]
             \/ i \in Nat /\ i > Len(q) /\ i - Len(q) \in DOMAIN u /\ v[i] = u[i - Len(q)]
  <2>1. CASE i <= Len(q)
    BY <1>1, <1>2, <2>1
  <2>2. CASE ~(i <= Len(q))
    <3>1. i \in Nat /\ i > Len(q) /\ i - Len(q) \in 1..Len(u)
      BY <1>1, <1>2, <2>2
    <3> QED BY <1>1, <1>2, <2>2, <3>1
  <2> QED BY <2>1, <2>2
<1> QED BY <1>1, <1>3, <1>4, <1>5 DEF v

\* What is left of a pending list when a record is removed (Settled): the rest of
\* its records, in their order.
LEMMA RemoveFirstAt ==
  ASSUME NEW S, NEW q \in Seq(S), NEW e
  PROVE  /\ RemoveFirst(q, e) \in Seq(S)
         /\ \E f \in [DOMAIN RemoveFirst(q, e) -> DOMAIN q] :
              /\ \A i \in DOMAIN RemoveFirst(q, e) : RemoveFirst(q, e)[i] = q[f[i]]
              /\ \A i, k \in DOMAIN RemoveFirst(q, e) : f[i] = f[k] => i = k
         /\ \A x \in DOMAIN q : q[x] # e => \E i \in DOMAIN RemoveFirst(q, e) : RemoveFirst(q, e)[i] = q[x]
<1> DEFINE v == RemoveFirst(q, e)
<1>1. CASE \E i \in 1..Len(q) : q[i] = e
  <2> DEFINE I == {i \in 1..Len(q) : q[i] = e}
  <2>1. PICK d \in I : \A y \in I : d <= y
    <3>1. I \in SUBSET Nat /\ I # {}
      BY <1>1
    <3> QED BY <3>1, LeastExists
  <2>2. Min(I) \in I
    BY <2>1, Zenon DEF Min
  <2> DEFINE n == Min(I)
  <2>3. v = RemoveAt(q, n)
    BY <1>1, <2>1 DEF RemoveFirst, SelectInSeq
  <2>4. n \in 1..Len(q) /\ q[n] = e
    BY <2>2
  <2> HIDE DEF n, v
  <2> DEFINE a == SubSeq(q, 1, n - 1)
             b == SubSeq(q, n + 1, Len(q))
  <2>5. v = a \o b
    BY <2>3 DEF RemoveAt
  <2>6. /\ a \in Seq(S) /\ Len(a) = n - 1 /\ \A i \in 1..(n - 1) : a[i] = q[i]
        /\ b \in Seq(S) /\ Len(b) = Len(q) - n /\ \A i \in 1..(Len(q) - n) : b[i] = q[n + i]
    BY <2>4
  <2>7. /\ Len(q) \in Nat /\ n \in Nat /\ n >= 1 /\ n <= Len(q)
        /\ DOMAIN q = 1..Len(q)
    BY <2>4
  <2> HIDE DEF a, b
  <2>8. /\ v \in Seq(S) /\ Len(v) = Len(q) - 1
        /\ \A i \in 1..(Len(q) - 1) : v[i] = IF i <= n - 1 THEN a[i] ELSE b[i - (n - 1)]
    <3>0. a \in Seq(S) /\ b \in Seq(S)
      BY <2>6
    <3>1. v \in Seq(S) /\ Len(v) = Len(a) + Len(b)
      BY <2>5, <3>0
    <3>2. \A i \in 1..(Len(a) + Len(b)) : v[i] = IF i <= Len(a) THEN a[i] ELSE b[i - Len(a)]
      BY <2>5, <3>0
    <3>3. Len(a) + Len(b) = Len(q) - 1
      BY <2>6, <2>7
    <3> QED BY <2>6, <3>1, <3>2, <3>3
  <2>9. DOMAIN v = 1..(Len(q) - 1)
    BY <2>8
  <2> DEFINE f == [i \in DOMAIN v |-> IF i <= n - 1 THEN i ELSE i + 1]
  <2>10. \A i \in DOMAIN v : f[i] = IF i <= n - 1 THEN i ELSE i + 1
    OBVIOUS
  <2>11. f \in [DOMAIN v -> DOMAIN q]
    BY <2>7, <2>9
  <2> HIDE DEF f
  <2>12. ASSUME NEW i \in DOMAIN v PROVE v[i] = q[f[i]]
    <3>1. i \in 1..(Len(q) - 1) /\ i \in Nat
      BY <2>7, <2>9
    <3>2. CASE i <= n - 1
      <4>1. i \in 1..(n - 1)
        BY <2>7, <3>1, <3>2
      <4> QED BY <2>6, <2>8, <2>10, <3>1, <3>2, <4>1
    <3>3. CASE ~(i <= n - 1)
      <4>1. i - (n - 1) \in 1..(Len(q) - n) /\ n + (i - (n - 1)) = i + 1
        BY <2>7, <3>1, <3>3
      <4>2. b[i - (n - 1)] = q[i + 1]
        BY <2>6, <4>1
      <4> QED BY <2>8, <2>10, <3>1, <3>3, <4>2
    <3> QED BY <3>2, <3>3
  <2>13. \A i, k \in DOMAIN v : f[i] = f[k] => i = k
    BY <2>7, <2>9, <2>10
  <2>14. ASSUME NEW x \in DOMAIN q, q[x] # e PROVE \E i \in DOMAIN v : v[i] = q[x]
    <3>1. x \in 1..Len(q) /\ x # n
      BY <2>4, <2>7, <2>14
    <3>2. CASE x < n
      <4>1. x \in DOMAIN v /\ f[x] = x
        BY <2>7, <2>9, <2>10, <3>1, <3>2
      <4> QED BY <2>12, <4>1
    <3>3. CASE x > n
      <4>1. x - 1 \in DOMAIN v /\ f[x - 1] = x
        <5>1. x - 1 \in 1..(Len(q) - 1) /\ ~(x - 1 <= n - 1) /\ (x - 1) + 1 = x
          BY <2>7, <3>1, <3>3
        <5> QED BY <2>9, <2>10, <5>1
      <4> QED BY <2>12, <4>1
    <3> QED BY <2>7, <3>1, <3>2, <3>3
  <2> QED BY <2>8, <2>11, <2>12, <2>13, <2>14 DEF v
<1>2. CASE ~ \E i \in 1..Len(q) : q[i] = e
  <2>1. v = q
    BY <1>2 DEF RemoveFirst
  <2> DEFINE f == [i \in DOMAIN q |-> i]
  <2>2. f \in [DOMAIN q -> DOMAIN q] /\ \A i \in DOMAIN q : f[i] = i
    OBVIOUS
  <2> HIDE DEF f, v
  <2>3. /\ \A i \in DOMAIN v : v[i] = q[f[i]]
        /\ \A i, k \in DOMAIN v : f[i] = f[k] => i = k
        /\ f \in [DOMAIN v -> DOMAIN q] /\ v \in Seq(S)
        /\ \A x \in DOMAIN q : q[x] # e => \E i \in DOMAIN v : v[i] = q[x]
    BY <2>1, <2>2
  <2> QED BY <2>3 DEF v
<1> QED BY <1>1, <1>2

-----------------------------------------------------------------------------
(* The operation ids of a session.                                         *)

Below(q, n) == \A i \in DOMAIN q : q[i].op <= n
Apart(q)    == \A i, k \in DOMAIN q : q[i].op = q[k].op => i = k

\* The propagations among the frames w: their ids are apart, and away from those of q.
PrpApart(w) == \A i, k \in DOMAIN w : w[i].kind = "prp" /\ w[k].kind = "prp" /\ w[i].op = w[k].op => i = k
Away(w, q)  == \A i \in DOMAIN w, k \in DOMAIN q : w[i].kind = "prp" => w[i].op # q[k].op

\* An id is on record, offered and on the wire once, and not above the newest, n.
OpsOK(jn, of, w, n) ==
  /\ Below(jn, n) /\ Below(of, n) /\ Below(w, n)
  /\ Apart(jn) /\ Apart(of) /\ PrpApart(w) /\ Away(w, of)

\* A goroutine is about to write a frame to s; it began that with its present session.
AtFrame(r, s)   == r.pc = "frame" /\ r.cur = s /\ r.sess = "here"
OfSession(r, s) == r.pc = "frame" /\ r.cur = s /\ r.sess # "ended"

\* The operation of such a goroutine is on record, and neither offered nor on the wire.
FrameOps(jn, of, w, r) ==
  /\ RecordOf(r) \in ToSet(jn)
  /\ \A k \in DOMAIN of : of[k].op # r.op
  /\ \A k \in DOMAIN w : w[k].kind = "prp" => w[k].op # r.op

OpsInv ==
  \A s \in Stations :
    /\ OpsOK(journal[s], offer[s], wire[s], lastOp[s])
    /\ \A j \in Jobs :
         /\ OfSession(jobs[j], s) => jobs[j].op <= lastOp[s]
         /\ AtFrame(jobs[j], s) =>
              /\ FrameOps(journal[s], offer[s], wire[s], jobs[j])
              /\ \A i \in Jobs : OfSession(jobs[i], s) /\ jobs[i].op = jobs[j].op => i = j

\* An id that is new to a list.
LEMMA ApartAppend ==
  ASSUME NEW q \in Seq(RecordType), NEW n \in Nat, NEW c \in Contents, Below(q, n), Apart(q)
  PROVE  LET v == Append(q, [op |-> n + 1, what |-> c]) IN
         Below(v, n + 1) /\ Apart(v) /\ ToSet(v) = ToSet(q) \cup {[op |-> n + 1, what |-> c]}
<1> DEFINE e == [op |-> n + 1, what |-> c]
           v == Append(q, e)
<1>1. e \in RecordType /\ e.op = n + 1
  BY DEF RecordType
<1> HIDE DEF e
<1>2. /\ v \in Seq(RecordType)
      /\ Len(q) + 1 \in DOMAIN v /\ v[Len(q) + 1] = e
      /\ \A i \in DOMAIN q : i \in Nat /\ i <= Len(q) /\ i \in DOMAIN v /\ v[i] = q[i]
      /\ \A i \in DOMAIN v : (i \in DOMAIN q /\ v[i] = q[i]) \/ (i = Len(q) + 1 /\ v[i] = e)
  BY <1>1, AppendAt
<1> HIDE DEF v
<1>3. \A i \in DOMAIN q : q[i].op \in Nat
  <2>1. \A i \in DOMAIN q : q[i] \in RecordType
    OBVIOUS
  <2> QED BY <2>1 DEF RecordType
<1>4. \A i \in DOMAIN q : q[i].op <= n /\ q[i].op <= n + 1 /\ q[i].op # n + 1
  BY <1>3 DEF Below
<1>5. Below(v, n + 1)
  BY <1>1, <1>2, <1>4 DEF Below
<1>6. Apart(v)
  BY <1>1, <1>2, <1>4 DEF Apart
<1>7. ToSet(v) = ToSet(q) \cup {e}
  BY <1>2 DEF ToSet
<1> QED BY <1>5, <1>6, <1>7 DEF v, e

\* A record is taken out of a list.
LEMMA ApartRemove ==
  ASSUME NEW q \in Seq(RecordType), NEW e
  PROVE  LET v == RemoveFirst(q, e) IN
         /\ \A n : Below(q, n) => Below(v, n)
         /\ Apart(q) => Apart(v)
         /\ \A p \in ToSet(q) : p # e => p \in ToSet(v)
         /\ ToSet(v) \subseteq ToSet(q)
<1> DEFINE v == RemoveFirst(q, e)
<1>1. PICK f \in [DOMAIN v -> DOMAIN q] :
        /\ \A i \in DOMAIN v : v[i] = q[f[i]]
        /\ \A i, k \in DOMAIN v : f[i] = f[k] => i = k
  BY RemoveFirstAt
<1>2. \A x \in DOMAIN q : q[x] # e => \E i \in DOMAIN v : v[i] = q[x]
  BY RemoveFirstAt
<1> HIDE DEF v
<1>3. \A n : Below(q, n) => Below(v, n)
  BY <1>1 DEF Below
<1>4. Apart(q) => Apart(v)
  BY <1>1 DEF Apart
<1>5. \A p \in ToSet(q) : p # e => p \in ToSet(v)
  BY <1>2 DEF ToSet
<1>6. ToSet(v) \subseteq ToSet(q)
  BY <1>1 DEF ToSet
<1> QED BY <1>3, <1>4, <1>5, <1>6 DEF v

\* A frame more on the wire: an answer, or a propagation with an id of its own.
LEMMA WireAppend ==
  ASSUME NEW w \in Seq(FrameType), NEW f \in FrameType, NEW of, NEW n \in Nat,
         Below(w, n), PrpApart(w), Away(w, of), f.op <= n,
         f.kind = "prp" => /\ \A k \in DOMAIN of : of[k].op # f.op
                           /\ \A k \in DOMAIN w : w[k].kind = "prp" => w[k].op # f.op
  PROVE  Below(Append(w, f), n) /\ PrpApart(Append(w, f)) /\ Away(Append(w, f), of)
<1> DEFINE v == Append(w, f)
<1>1. /\ v \in Seq(FrameType)
      /\ \A i \in DOMAIN v : (i \in DOMAIN w /\ v[i] = w[i]) \/ (i = Len(w) + 1 /\ v[i] = f)
  BY AppendAt
<1> HIDE DEF v
<1>2. Below(v, n)
  BY <1>1 DEF Below
<1>3. PrpApart(v)
  BY <1>1 DEF PrpApart
<1>4. Away(v, of)
  BY <1>1 DEF Away
<1> QED BY <1>2, <1>3, <1>4 DEF v

\* A frame less.
LEMMA WireTail ==
  ASSUME NEW w \in Seq(FrameType), w # <<>>
  PROVE  /\ \A n : Below(w, n) => Below(Tail(w), n)
         /\ PrpApart(w) => PrpApart(Tail(w))
         /\ \A of : Away(w, of) => Away(Tail(w), of)
         /\ \A i \in DOMAIN Tail(w) : \E k \in DOMAIN w : Tail(w)[i] = w[k]
<1> DEFINE v == Tail(w)
<1>1. \A i \in DOMAIN v : i \in Nat /\ i + 1 \in DOMAIN w /\ v[i] = w[i + 1]
  BY TailAt
<1> HIDE DEF v
<1>2. \A i \in DOMAIN v : \E k \in DOMAIN w : v[i] = w[k]
  BY <1>1
<1>3. (\A n : Below(w, n) => Below(v, n)) /\ (\A of : Away(w, of) => Away(v, of))
  BY <1>2 DEF Below, Away
<1>4. ASSUME PrpApart(w) PROVE PrpApart(v)
  <2>1. ASSUME NEW i \in DOMAIN v, NEW k \in DOMAIN v, v[i].kind = "prp", v[k].kind = "prp", v[i].op = v[k].op
        PROVE  i = k
    <3>1. i + 1 = k + 1
      BY <1>1, <1>4, <2>1 DEF PrpApart
    <3> QED BY <1>1, <3>1
  <2> QED BY <2>1 DEF PrpApart
<1> QED BY <1>2, <1>3, <1>4 DEF v

\* The offered propagations are written behind what is on the wire.
LEMMA WireReissue ==
  ASSUME NEW w \in Seq(FrameType), NEW of \in Seq(RecordType), NEW n,
         Below(w, n), PrpApart(w), Away(w, of), Below(of, n), Apart(of)
  PROVE  LET v == w \o [i \in DOMAIN of |-> Propagate(of[i])] IN
         /\ Below(v, n) /\ PrpApart(v) /\ Away(v, <<>>)
         /\ \A i \in DOMAIN v : (\E k \in DOMAIN w : v[i] = w[k]) \/ (\E k \in DOMAIN of : v[i].op = of[k].op)
<1> DEFINE u == [i \in DOMAIN of |-> Propagate(of[i])]
           v == w \o u
<1>1. \A i \in DOMAIN of : of[i] \in RecordType /\ u[i] \in FrameType /\ u[i].op = of[i].op /\ u[i].kind = "prp"
  BY FrameParts
<1>2. u \in Seq(FrameType) /\ DOMAIN u = DOMAIN of
  BY <1>1
<1> HIDE DEF u
<1>3. \A i \in DOMAIN v : \/ i \in DOMAIN w /\ v[i] = w[i]
                          \/ i \in Nat /\ i > Len(w) /\ i - Len(w) \in DOMAIN u /\ v[i] = u[i - Len(w)]
  BY <1>2, ConcatAt
<1>4. Len(w) \in Nat /\ DOMAIN w = 1..Len(w)
  OBVIOUS
<1> HIDE DEF v
<1>5. \A i \in DOMAIN v : \/ i \in DOMAIN w /\ v[i] = w[i]
                          \/ /\ i \in Nat /\ i > Len(w) /\ i - Len(w) \in DOMAIN of
                             /\ v[i].op = of[i - Len(w)].op /\ v[i].kind = "prp"
  BY <1>1, <1>2, <1>3
<1>6. Below(v, n)
  BY <1>5 DEF Below
<1>7. Away(v, <<>>)
  BY DEF Away
<1>8. ASSUME NEW i \in DOMAIN v, NEW k \in DOMAIN v, v[i].kind = "prp", v[k].kind = "prp", v[i].op = v[k].op
      PROVE  i = k
  <2>1. CASE i \in DOMAIN w /\ v[i] = w[i] /\ k \in DOMAIN w /\ v[k] = w[k]
    BY <1>8, <2>1 DEF PrpApart
  <2>2. CASE i \in DOMAIN w /\ v[i] = w[i] /\ k - Len(w) \in DOMAIN of /\ v[k].op = of[k - Len(w)].op
    BY <1>8, <2>2 DEF Away
  <2>3. CASE k \in DOMAIN w /\ v[k] = w[k] /\ i - Len(w) \in DOMAIN of /\ v[i].op = of[i - Len(w)].op
    BY <1>8, <2>3 DEF Away
  <2>4. CASE /\ i \in Nat /\ i - Len(w) \in DOMAIN of /\ v[i].op = of[i - Len(w)].op
             /\ k \in Nat /\ k - Len(w) \in DOMAIN of /\ v[k].op = of[k - Len(w)].op
    <3>1. i - Len(w) = k - Len(w)
      BY <1>8, <2>4 DEF Apart
    <3> QED BY <1>4, <2>4, <3>1
  <2> QED BY <1>5, <2>1, <2>2, <2>3, <2>4
<1>9. PrpApart(v)
  BY <1>8 DEF PrpApart
<1>10. \A i \in DOMAIN v : (\E k \in DOMAIN w : v[i] = w[k]) \/ (\E k \in DOMAIN of : v[i].op = of[k].op)
  BY <1>5
<1> QED BY <1>6, <1>7, <1>9, <1>10 DEF v, u

-----------------------------------------------------------------------------
\* Goroutines leave their frames, and none comes to one.
FramesLeft ==
  \A j \in Jobs, t \in Stations :
    /\ OfSession(jobs'[j], t) => OfSession(jobs[j], t) /\ RecordOf(jobs'[j]) = RecordOf(jobs[j])
                                 /\ jobs'[j].op = jobs[j].op
    /\ AtFrame(jobs'[j], t) => AtFrame(jobs[j], t)

\* One goroutine's record is replaced by one that is not at a frame.
LEMMA FrameChanged ==
  ASSUME TypeInv, NEW j \in Jobs, NEW r, jobs' = [jobs EXCEPT ![j] = r], r.pc # "frame"
  PROVE  FramesLeft
<1>1. \A k \in Jobs : jobs'[k] = IF k = j THEN r ELSE jobs[k]
  BY DEF TypeInv, TypeOK
<1> QED BY <1>1 DEF FramesLeft, OfSession, AtFrame

\* A propagation that goes on is not at a frame.
LEMMA OnwardFrame ==
  ASSUME NEW r \in JobType, NEW o \in Onward(r)
  PROVE  o.pc # "frame"
  BY OnwardFacts DEF Idle

\* The begin of a frame (SendAttachPropagate with its record on the session).
Begun(j) == Begin(j) /\ Job(j, [jobs[j] EXCEPT !.pc = "frame", !.op = lastOp[jobs[j].cur] + 1])

\* Only a begin brings a goroutine to a frame: the steps of a station ...
LEMMA StationFrames ==
  ASSUME TypeInv, NEW s \in Stations, StationStep(s)
  PROVE  FramesLeft
<1>0. jobs \in [Jobs -> JobType]
  BY DEF TypeInv, TypeOK
<1>1. ASSUME NEW j \in Jobs, AttachComplete(s, j) PROVE FramesLeft
  <2>1. PICK r : jobs' = [jobs EXCEPT ![j] = r] /\ IsFresh(r, "snapshot", "trigger", NoStation)
    BY <1>1, StartTypes DEF AttachComplete, Started, PCs, Kinds
  <2> QED BY <2>1, FrameChanged DEF IsFresh
<1>2. ASSUME NEW j \in Jobs, DetachComplete(s, j) PROVE FramesLeft
  <2>1. jobs' = jobs \/ \E r : jobs' = [jobs EXCEPT ![j] = r] /\ IsFresh(r, "snapshot", "otaDetach", s)
    BY <1>2, StartTypes DEF DetachComplete, Started, PCs, Kinds
  <2>2. CASE jobs' = jobs
    BY <2>2 DEF FramesLeft
  <2> QED BY <2>1, <2>2, FrameChanged DEF IsFresh
<1>3. ASSUME NEW j \in Jobs, Reissue(s, j) PROVE FramesLeft
  <2>1. PICK r : jobs' = [jobs EXCEPT ![j] = r] /\ IsFresh(r, "attached", "reconcile", s)
    BY <1>3, StartTypes DEF Reissue, Started, PCs, Kinds
  <2> QED BY <2>1, FrameChanged DEF IsFresh
<1>4. CASE Unregister(s)
  <2>1. ASSUME NEW j \in Jobs
        PROVE  /\ jobs'[j].pc = jobs[j].pc /\ jobs'[j].cur = jobs[j].cur /\ jobs'[j].op = jobs[j].op
               /\ jobs'[j].what = jobs[j].what
               /\ jobs'[j].sess = "here" => jobs[j].sess = "here"
               /\ jobs[j].sess = "ended" => jobs'[j].sess = "ended"
    <3>1. jobs'[j] = [jobs[j] EXCEPT !.targets = @ \ {s}, !.sess = IF jobs[j].cur = s /\ @ = "here" THEN "gone" ELSE @]
      BY <1>4 DEF Unregister
    <3>2. jobs[j] \in JobType
      BY <1>0
    <3> QED BY <3>1, <3>2 DEF JobType
  <2> QED BY <2>1 DEF FramesLeft, OfSession, AtFrame, RecordOf
<1>5. CASE Activate(s) /\ ~resumed[s]
  <2>1. ASSUME NEW j \in Jobs
        PROVE  /\ jobs'[j].pc = jobs[j].pc /\ jobs'[j].cur = jobs[j].cur /\ jobs'[j].op = jobs[j].op
               /\ jobs'[j].what = jobs[j].what
               /\ jobs'[j].sess # "ended" => jobs'[j].sess = jobs[j].sess
    <3>1. jobs'[j] = [jobs[j] EXCEPT !.sess = IF jobs[j].cur = s THEN "ended" ELSE @]
      BY <1>5 DEF Activate
    <3>2. jobs[j] \in JobType
      BY <1>0
    <3> QED BY <3>1, <3>2 DEF JobType
  <2> QED BY <2>1 DEF FramesLeft, OfSession, AtFrame, RecordOf
<1>6. CASE UNCHANGED jobs
  BY <1>6 DEF FramesLeft
<1> QED BY <1>1, <1>2, <1>3, <1>4, <1>5, <1>6 DEF StationStep, Attach, Serve, ServeFails,
      DetachReported, Deliver, Refuse, Break, MarkDisconnected, Connect, Activate

\* ... and those of the propagations themselves.
LEMMA JobFrames ==
  ASSUME TypeInv, NEW j \in Jobs, JobStep(j), ~Begun(j)
  PROVE  FramesLeft
<1>0. jobs[j] \in JobType
  BY DEF TypeInv, TypeOK
<1>1. CASE AttachEndPoint(j)
  <2>1. PICK r : jobs' = [jobs EXCEPT ![j] = r] /\ IsFresh(r, "key", "attach", NoStation)
    BY <1>1, StartTypes DEF AttachEndPoint, Started, PCs, Kinds
  <2> QED BY <2>1, FrameChanged DEF IsFresh
<1>2. CASE DetachEndPoint(j)
  <2>1. PICK r : jobs' = [jobs EXCEPT ![j] = r] /\ IsFresh(r, "snapshot", "detach", NoStation)
    BY <1>2, StartTypes DEF DetachEndPoint, Started, PCs, Kinds
  <2> QED BY <2>1, FrameChanged DEF IsFresh
<1>3. CASE ReadSession(j) \/ ReadKey(j)
  <2>1. PICK r : jobs' = [jobs EXCEPT ![j] = r] /\ r.pc # "frame"
    BY <1>3, KeyReads
  <2> QED BY <2>1, FrameChanged
<1>4. CASE ReadAttached(j)
  <2> DEFINE r == [jobs[j] EXCEPT !.pc = "missed", !.todo = IF AttachmentToSend(jobs[j].cur) THEN <<"key">> ELSE <<>>]
  <2>1. jobs' = [jobs EXCEPT ![j] = r]
    BY <1>4 DEF ReadAttached, Job
  <2>2. r.pc # "frame"
    BY <1>0 DEF JobType
  <2> HIDE DEF r
  <2> QED BY <2>1, <2>2, FrameChanged
<1>5. ASSUME NEW r \in JobType, \E o \in Onward(r) : Job(j, o) PROVE FramesLeft
  BY <1>5, OnwardFrame, FrameChanged DEF Job
<1>6. CASE Snapshot(j)
  <2>1. [jobs[j] EXCEPT !.targets = Reached(jobs[j])] \in JobType
    BY <1>0, JobFields DEF Reached, Sendable
  <2> QED BY <1>5, <1>6, <2>1 DEF Snapshot
<1>7. CASE ReadDetached(j)
  <2> DEFINE t == IF DetachedWhileAway(jobs[j].cur) THEN jobs[j].todo \o <<"begin">> ELSE jobs[j].todo
             r == [jobs[j] EXCEPT !.todo = t]
  <2>1. t \in Seq({"key", "begin"})
    <3>1. jobs[j].todo \in Seq({"key", "begin"}) /\ <<"begin">> \in Seq({"key", "begin"})
      BY <1>0, JobParts
    <3>2. jobs[j].todo \o <<"begin">> \in Seq({"key", "begin"})
      BY <3>1
    <3> QED BY <3>1, <3>2
  <2>2. r \in JobType
    BY <1>0, <2>1, JobFields
  <2>3. \E o \in Onward(r) : Job(j, o)
    BY <1>7, Zenon DEF ReadDetached
  <2> HIDE DEF r
  <2> QED BY <1>5, <2>2, <2>3
<1>8. CASE Job(j, Idle)
  <2>1. Idle.pc # "frame"
    BY DEF Idle
  <2> QED BY <1>8, <2>1, FrameChanged DEF Job
<1>9. CASE \E o \in Onward(jobs[j]) : Job(j, o)
  BY <1>0, <1>5, <1>9
<1> QED BY <1>1, <1>2, <1>3, <1>4, <1>6, <1>7, <1>8, <1>9, Zenon DEF JobStep, Begin, Begun, Frame, SendFails

\* A session that is not resumed is offered nothing.
NoOffer == \A s \in Stations : link[s] = "offered" /\ ~resumed[s] => offer[s] = <<>>

\* What the steps below say of the line to t: it is as it was.
SameOps(t) ==
  journal'[t] = journal[t] /\ offer'[t] = offer[t] /\ wire'[t] = wire[t] /\ lastOp'[t] = lastOp[t]

\* The line to one station changes, and goroutines only leave their frames.
LEMMA OpsLine ==
  ASSUME OpsInv, FramesLeft, NEW s \in Stations,
         \A t \in Stations \ {s} : SameOps(t),
         OpsOK(journal'[s], offer'[s], wire'[s], lastOp'[s]),
         \A j \in Jobs : OfSession(jobs'[j], s) => jobs[j].op <= lastOp'[s],
         \A j \in Jobs : AtFrame(jobs'[j], s) => FrameOps(journal'[s], offer'[s], wire'[s], jobs[j])
  PROVE  OpsInv'
<1>1. \A t \in Stations : OpsOK(journal'[t], offer'[t], wire'[t], lastOp'[t])
  BY DEF OpsInv, SameOps
<1>2. \A j \in Jobs, t \in Stations : AtFrame(jobs'[j], t) => OfSession(jobs'[j], t)
  BY DEF AtFrame, OfSession
<1>3. \A j \in Jobs, t \in Stations : OfSession(jobs'[j], t) => jobs'[j].op <= lastOp'[t]
  BY DEF OpsInv, SameOps, FramesLeft
<1>4. ASSUME NEW j \in Jobs, NEW t \in Stations, AtFrame(jobs'[j], t)
      PROVE  FrameOps(journal'[t], offer'[t], wire'[t], jobs'[j])
  <2>1. RecordOf(jobs'[j]) = RecordOf(jobs[j]) /\ jobs'[j].op = jobs[j].op /\ AtFrame(jobs[j], t)
    BY <1>2, <1>4 DEF FramesLeft
  <2>2. FrameOps(journal'[t], offer'[t], wire'[t], jobs[j])
    BY <1>4, <2>1 DEF OpsInv, SameOps
  <2> QED BY <2>1, <2>2 DEF FrameOps
<1>5. ASSUME NEW j \in Jobs, NEW i \in Jobs, NEW t \in Stations, AtFrame(jobs'[j], t), OfSession(jobs'[i], t),
             jobs'[i].op = jobs'[j].op
      PROVE  i = j
  <2>1. /\ jobs'[j].op = jobs[j].op /\ AtFrame(jobs[j], t)
        /\ jobs'[i].op = jobs[i].op /\ OfSession(jobs[i], t)
    BY <1>2, <1>5 DEF FramesLeft
  <2> QED BY <1>5, <2>1 DEF OpsInv
<1>6. /\ \A t \in Stations : OpsOK(journal[t], offer[t], wire[t], lastOp[t])'
      /\ \A j \in Jobs, t \in Stations : (OfSession(jobs[j], t) => jobs[j].op <= lastOp[t])'
      /\ \A j \in Jobs, t \in Stations : (AtFrame(jobs[j], t) => FrameOps(journal[t], offer[t], wire[t], jobs[j]))'
      /\ \A i, j \in Jobs, t \in Stations :
           (AtFrame(jobs[j], t) /\ OfSession(jobs[i], t) /\ jobs[i].op = jobs[j].op => i = j)'
  BY <1>1, <1>3, <1>4, <1>5 DEF OpsOK, Below, Apart, PrpApart, Away, OfSession, AtFrame, FrameOps, RecordOf, ToSet
<1> QED BY <1>6 DEF OpsInv

\* What the invariants say of one station.
LEMMA OpsOf ==
  ASSUME TypeInv, OpsInv, NEW s \in Stations
  PROVE  /\ journal[s] \in Seq(RecordType) /\ offer[s] \in Seq(RecordType) /\ wire[s] \in Seq(FrameType)
         /\ lastOp[s] \in Nat
         /\ Below(journal[s], lastOp[s]) /\ Below(offer[s], lastOp[s]) /\ Below(wire[s], lastOp[s])
         /\ Apart(journal[s]) /\ Apart(offer[s]) /\ PrpApart(wire[s]) /\ Away(wire[s], offer[s])
         /\ \A j \in Jobs : OfSession(jobs[j], s) => jobs[j].op <= lastOp[s]
         /\ \A j \in Jobs : AtFrame(jobs[j], s) =>
              /\ FrameOps(journal[s], offer[s], wire[s], jobs[j])
              /\ \A i \in Jobs : OfSession(jobs[i], s) /\ jobs[i].op = jobs[j].op => i = j
         /\ link[s] \notin {"reissuing", "live"} => wire[s] = <<>>
         /\ link[s] \notin Registered => \A j \in Jobs : ~AtFrame(jobs[j], s)
<1>1. /\ journal[s] \in Seq(RecordType) /\ offer[s] \in Seq(RecordType) /\ wire[s] \in Seq(FrameType)
      /\ lastOp[s] \in Nat
      /\ link[s] \notin {"reissuing", "live"} => wire[s] = <<>>
  BY DEF TypeInv, TypeOK
<1>2. link[s] \notin Registered => \A j \in Jobs : ~AtFrame(jobs[j], s)
  BY DEF TypeInv, SessionsThere, AtFrame
<1> QED BY <1>1, <1>2 DEF OpsInv, OpsOK

\* Nothing is wrong with an empty list.
LEMMA NoneApart ==
  /\ \A n : Below(<<>>, n)
  /\ Apart(<<>>) /\ PrpApart(<<>>)
  /\ \A q : Away(<<>>, q) /\ Away(q, <<>>)
  BY DEF Below, Apart, PrpApart, Away

\* The steps of a station keep the ids apart.
LEMMA StationOps ==
  ASSUME TypeInv, OpsInv, NoOffer, NEW s \in Stations, StationStep(s)
  PROVE  OpsInv'
<1>0. /\ journal \in [Stations -> Seq(RecordType)] /\ offer \in [Stations -> Seq(RecordType)]
      /\ wire \in [Stations -> Seq(FrameType)] /\ lastOp \in [Stations -> Nat]
  BY DEF TypeInv, TypeOK
<1>f. FramesLeft
  BY StationFrames
<1> DEFINE jn == journal[s]
           of == offer[s]
           w  == wire[s]
           n  == lastOp[s]
<1>o. /\ jn \in Seq(RecordType) /\ of \in Seq(RecordType) /\ w \in Seq(FrameType) /\ n \in Nat
      /\ Below(jn, n) /\ Below(of, n) /\ Below(w, n)
      /\ Apart(jn) /\ Apart(of) /\ PrpApart(w) /\ Away(w, of)
      /\ \A j \in Jobs : OfSession(jobs[j], s) => jobs[j].op <= n
      /\ \A j \in Jobs : AtFrame(jobs[j], s) => FrameOps(jn, of, w, jobs[j])
      /\ link[s] \notin {"reissuing", "live"} => w = <<>>
      /\ link[s] \notin Registered => \A j \in Jobs : ~AtFrame(jobs[j], s)
  BY OpsOf
<1>j. \A j \in Jobs : /\ OfSession(jobs'[j], s) => jobs[j].op <= n
                      /\ AtFrame(jobs'[j], s) => AtFrame(jobs[j], s)
  BY <1>f, <1>o DEF FramesLeft
<1>1. CASE UNCHANGED <<journal, offer, wire, lastOp>>
  <2>1. \A t \in Stations : SameOps(t)
    BY <1>1 DEF SameOps
  <2>2. OpsOK(journal'[s], offer'[s], wire'[s], lastOp'[s])
    BY <1>1, <1>o DEF OpsOK
  <2>3. \A j \in Jobs : AtFrame(jobs'[j], s) => FrameOps(journal'[s], offer'[s], wire'[s], jobs[j])
    BY <1>1, <1>o, <1>j
  <2> QED BY <1>1, <1>f, <1>j, <2>1, <2>2, <2>3, OpsLine
<1>2. ASSUME NEW c \in Contents, wire' = [wire EXCEPT ![s] = Append(@, Response(c))],
             UNCHANGED <<journal, offer, lastOp>>
      PROVE  OpsInv'
  <2> DEFINE f == Response(c)
             v == Append(w, f)
  <2>1. f \in FrameType /\ f.kind = "rsp" /\ f.op = 0
    BY FrameParts
  <2> HIDE DEF f
  <2>2. Below(v, n) /\ PrpApart(v) /\ Away(v, of)
    <3>1. f.op <= n
      BY <1>o, <2>1
    <3> HIDE DEF w, of, n
    <3> QED BY <1>o, <2>1, <3>1, WireAppend
  <2>3. \A k \in DOMAIN v : v[k].kind = "prp" => k \in DOMAIN w /\ v[k] = w[k]
    <3> HIDE DEF w
    <3> QED BY <1>o, <2>1, AppendAt
  <2>4. wire'[s] = v /\ \A t \in Stations \ {s} : SameOps(t)
    BY <1>0, <1>2 DEF SameOps, f
  <2> HIDE DEF v
  <2>5. OpsOK(journal'[s], offer'[s], wire'[s], lastOp'[s])
    BY <1>2, <1>o, <2>2, <2>4 DEF OpsOK
  <2>6. \A j \in Jobs : AtFrame(jobs'[j], s) => FrameOps(journal'[s], offer'[s], wire'[s], jobs[j])
    BY <1>2, <1>o, <1>j, <2>3, <2>4 DEF FrameOps
  <2> QED BY <1>2, <1>f, <1>j, <2>4, <2>5, <2>6, OpsLine
<1>3. CASE Serve(s)
  <2>1. hear[s].what \in Contents
    BY KeysApart DEF TypeInv, TypeOK, HearType
  <2>2. UNCHANGED wire \/ wire' = [wire EXCEPT ![s] = Append(@, Response(hear[s].what))]
    BY <1>3 DEF Serve
  <2>3. UNCHANGED <<journal, offer, lastOp>>
    BY <1>3 DEF Serve, linkVars
  <2> QED BY <1>1, <1>2, <2>1, <2>2, <2>3
<1>4. CASE DetachReported(s)
  BY <1>2, <1>4, KeysApart DEF DetachReported, linkVars
<1>5. ASSUME wire' = [wire EXCEPT ![s] = Tail(@)], w # <<>>, UNCHANGED <<offer, lastOp>>,
             \/ journal' = journal
             \/ Head(w).kind = "prp" /\ journal' = Settled(s, RecordOf(Head(w)))
      PROVE  OpsInv'
  <2> DEFINE e == RecordOf(Head(w))
             v == Tail(w)
  <2>1. /\ Below(v, n) /\ PrpApart(v) /\ Away(v, of)
        /\ \A k \in DOMAIN v : \E i \in DOMAIN w : v[k] = w[i]
    <3> HIDE DEF w, of, n
    <3> QED BY <1>o, <1>5, WireTail
  <2>2. 1 \in DOMAIN w /\ Head(w) = w[1] /\ Head(w) \in FrameType
    <3> HIDE DEF w
    <3>1. w \in Seq(FrameType) /\ w # <<>>
      BY <1>o, <1>5
    <3> QED BY <3>1, TailAt
  <2>3. e.op = Head(w).op
    BY <2>2, FrameParts
  <2>4. wire'[s] = v /\ \A t \in Stations \ {s} : wire'[t] = wire[t]
    BY <1>0, <1>5
  <2> HIDE DEF v, e
  <2>5. CASE journal' = journal
    <3>1. \A t \in Stations \ {s} : SameOps(t)
      BY <1>5, <2>4, <2>5 DEF SameOps
    <3>2. OpsOK(journal'[s], offer'[s], wire'[s], lastOp'[s])
      BY <1>5, <1>o, <2>1, <2>4, <2>5 DEF OpsOK
    <3>3. \A j \in Jobs : AtFrame(jobs'[j], s) => FrameOps(journal'[s], offer'[s], wire'[s], jobs[j])
      BY <1>5, <1>o, <1>j, <2>1, <2>4, <2>5 DEF FrameOps
    <3> QED BY <1>5, <1>f, <1>j, <3>1, <3>2, <3>3, OpsLine
  <2>6. CASE Head(w).kind = "prp" /\ journal' = Settled(s, e)
    <3> DEFINE u == RemoveFirst(jn, e)
    <3>1. journal'[s] = u /\ \A t \in Stations \ {s} : journal'[t] = journal[t]
      BY <1>0, <2>6 DEF Settled
    <3>2. /\ Below(u, n) /\ Apart(u)
          /\ \A p \in ToSet(jn) : p # e => p \in ToSet(u)
      <4> HIDE DEF jn, n
      <4> QED BY <1>o, ApartRemove
    <3> HIDE DEF u
    <3>3. \A t \in Stations \ {s} : SameOps(t)
      BY <1>5, <2>4, <3>1 DEF SameOps
    <3>4. OpsOK(journal'[s], offer'[s], wire'[s], lastOp'[s])
      BY <1>5, <1>o, <2>1, <2>4, <3>1, <3>2 DEF OpsOK
    <3>5. ASSUME NEW j \in Jobs, AtFrame(jobs'[j], s) PROVE FrameOps(journal'[s], offer'[s], wire'[s], jobs[j])
      <4>1. FrameOps(jn, of, w, jobs[j])
        BY <1>o, <1>j, <3>5
      <4>2. e.op # jobs[j].op
        BY <2>2, <2>3, <2>6, <4>1 DEF FrameOps
      <4>3. RecordOf(jobs[j]) # e
        BY <4>2 DEF RecordOf
      <4> QED BY <1>5, <2>1, <2>4, <3>1, <3>2, <4>1, <4>3 DEF FrameOps
    <3> QED BY <1>5, <1>f, <1>j, <3>3, <3>4, <3>5, OpsLine
  <2> QED BY <1>5, <2>5, <2>6 DEF e
<1>6. CASE Deliver(s)
  <2>1. /\ wire' = [wire EXCEPT ![s] = Tail(@)] /\ w # <<>> /\ UNCHANGED <<offer, lastOp>>
        /\ \/ journal' = journal
           \/ Head(w).kind # "rsp" /\ journal' = Settled(s, RecordOf(Head(w)))
    BY <1>6 DEF Deliver
  <2>2. Head(w) \in FrameType
    <3>1. w \in Seq(FrameType) /\ w # <<>>
      BY <1>o, <2>1
    <3> HIDE DEF w
    <3> QED BY <3>1
  <2>3. Head(w).kind \in {"prp", "rsp"}
    BY <2>2 DEF FrameType
  <2> QED BY <1>5, <2>1, <2>3
<1>7. CASE Refuse(s)
  BY <1>5, <1>7 DEF Refuse, linkVars
<1>8. CASE Break(s)
  <2>1. wire' = [wire EXCEPT ![s] = <<>>] /\ UNCHANGED <<journal, offer, lastOp>>
    BY <1>8 DEF Break
  <2>2. wire'[s] = <<>> /\ \A t \in Stations \ {s} : SameOps(t)
    BY <1>0, <2>1 DEF SameOps
  <2>3. OpsOK(journal'[s], offer'[s], wire'[s], lastOp'[s])
    BY <1>o, <2>1, <2>2, NoneApart DEF OpsOK
  <2>4. \A j \in Jobs : AtFrame(jobs'[j], s) => FrameOps(journal'[s], offer'[s], wire'[s], jobs[j])
    BY <1>o, <1>j, <2>1, <2>2 DEF FrameOps
  <2> QED BY <1>f, <1>j, <2>1, <2>2, <2>3, <2>4, OpsLine
<1>9. CASE Connect(s)
  <2>1. /\ UNCHANGED <<journal, wire, lastOp>> /\ link[s] \in {"down", "unresumable"}
        /\ offer' = [offer EXCEPT ![s] = journal[s]] \/ offer' = [offer EXCEPT ![s] = <<>>]
    BY <1>9 DEF Connect, airVars
  <2>2. /\ w = <<>> /\ \A j \in Jobs : ~AtFrame(jobs[j], s)
    BY <1>o, <2>1 DEF Registered
  <2>3. (offer'[s] = jn \/ offer'[s] = <<>>) /\ \A t \in Stations \ {s} : SameOps(t)
    BY <1>0, <2>1 DEF SameOps
  <2>4. OpsOK(journal'[s], offer'[s], wire'[s], lastOp'[s])
    BY <1>o, <2>1, <2>2, <2>3, NoneApart DEF OpsOK
  <2> QED BY <1>f, <1>j, <2>1, <2>2, <2>3, <2>4, OpsLine
<1>10. CASE Activate(s) /\ ~resumed[s]
  <2>1. /\ UNCHANGED <<offer, wire>> /\ link[s] = "offered"
        /\ journal' = [journal EXCEPT ![s] = <<>>] /\ lastOp' = [lastOp EXCEPT ![s] = 0]
        /\ jobs' = [j \in Jobs |-> [jobs[j] EXCEPT !.sess = IF jobs[j].cur = s THEN "ended" ELSE @]]
    BY <1>10 DEF Activate
  <2>2. w = <<>> /\ of = <<>>
    BY <1>10, <1>o, <2>1 DEF NoOffer
  <2>3. journal'[s] = <<>> /\ lastOp'[s] = 0 /\ \A t \in Stations \ {s} : SameOps(t)
    BY <1>0, <2>1 DEF SameOps
  <2>4. ASSUME NEW j \in Jobs PROVE ~OfSession(jobs'[j], s) /\ ~AtFrame(jobs'[j], s)
    <3>1. jobs'[j] = [jobs[j] EXCEPT !.sess = IF jobs[j].cur = s THEN "ended" ELSE @] /\ jobs[j] \in JobType
      BY <2>1 DEF TypeInv, TypeOK
    <3> QED BY <3>1 DEF JobType, OfSession, AtFrame
  <2>5. OpsOK(journal'[s], offer'[s], wire'[s], lastOp'[s])
    BY <2>1, <2>2, <2>3, NoneApart DEF OpsOK
  <2> QED BY <1>f, <2>3, <2>4, <2>5, OpsLine
<1>11. ASSUME NEW j \in Jobs, Reissue(s, j) PROVE OpsInv'
  <2> DEFINE v == w \o [i \in DOMAIN of |-> Propagate(of[i])]
  <2>1. /\ UNCHANGED <<journal, lastOp>> /\ offer' = [offer EXCEPT ![s] = <<>>]
        /\ wire' = [wire EXCEPT ![s] = v]
    BY <1>0, <1>11 DEF Reissue
  <2>2. offer'[s] = <<>> /\ wire'[s] = v /\ \A t \in Stations \ {s} : SameOps(t)
    BY <1>0, <2>1 DEF SameOps
  <2>3. /\ Below(v, n) /\ PrpApart(v) /\ Away(v, <<>>)
        /\ \A i \in DOMAIN v : (\E k \in DOMAIN w : v[i] = w[k]) \/ (\E k \in DOMAIN of : v[i].op = of[k].op)
    <3> HIDE DEF w, of, n
    <3> QED BY <1>o, WireReissue
  <2> HIDE DEF v
  <2>4. OpsOK(journal'[s], offer'[s], wire'[s], lastOp'[s])
    BY <1>o, <2>1, <2>2, <2>3, NoneApart DEF OpsOK
  <2>5. ASSUME NEW i \in Jobs, AtFrame(jobs'[i], s) PROVE FrameOps(journal'[s], offer'[s], wire'[s], jobs[i])
    <3>1. FrameOps(jn, of, w, jobs[i])
      BY <1>o, <1>j, <2>5
    <3>2. \A k \in DOMAIN v : v[k].kind = "prp" => v[k].op # jobs[i].op
      BY <2>3, <3>1 DEF FrameOps
    <3> QED BY <2>1, <2>2, <3>1, <3>2 DEF FrameOps
  <2> QED BY <1>f, <1>j, <2>1, <2>2, <2>4, <2>5, OpsLine
<1> QED BY <1>1, <1>3, <1>4, <1>6, <1>7, <1>8, <1>9, <1>10, <1>11 DEF StationStep, Attach, ServeFails,
      AttachComplete, DetachComplete, Unregister, MarkDisconnected, Activate, linkVars, airVars

\* A begin gives its operation a new id.
LEMMA BegunOps ==
  ASSUME TypeInv, OpsInv, NEW j \in Jobs, Begun(j), jobs[j].sess = "here",
         journal' = [journal EXCEPT ![jobs[j].cur] =
                       Append(@, [op |-> lastOp[jobs[j].cur] + 1, what |-> jobs[j].what])],
         lastOp' = [lastOp EXCEPT ![jobs[j].cur] = @ + 1]
  PROVE  OpsInv'
<1> DEFINE s == jobs[j].cur
           c == jobs[j].what
           n == lastOp[s]
           e == [op |-> n + 1, what |-> c]
           v == Append(journal[s], e)
           r == [jobs[j] EXCEPT !.pc = "frame", !.op = n + 1]
<1>0. /\ jobs \in [Jobs -> JobType] /\ jobs[j] \in JobType /\ s \in Stations /\ c \in Contents
      /\ journal \in [Stations -> Seq(RecordType)] /\ lastOp \in [Stations -> Nat] /\ jobs[j].pc = "begin"
  BY JobParts DEF Begun, Begin, TypeInv, TypeOK, AllStaged, Staged
<1>1. jobs' = [jobs EXCEPT ![j] = r] /\ UNCHANGED <<offer, wire>>
  BY DEF Begun, Begin, Job, airVars
<1>2. /\ r.pc = "frame" /\ r.cur = s /\ r.sess = "here" /\ r.op = n + 1 /\ r.what = c /\ RecordOf(r) = e
  BY <1>0 DEF JobType, RecordOf
<1>3. /\ journal'[s] = v /\ lastOp'[s] = n + 1 /\ n \in Nat /\ journal[s] \in Seq(RecordType)
      /\ \A t \in Stations \ {s} : SameOps(t)
  BY <1>0, <1>1 DEF SameOps
<1>4. /\ Below(journal[s], n) /\ Below(offer[s], n) /\ Below(wire[s], n)
      /\ Apart(journal[s]) /\ Apart(offer[s]) /\ PrpApart(wire[s]) /\ Away(wire[s], offer[s])
      /\ offer[s] \in Seq(RecordType) /\ wire[s] \in Seq(FrameType)
      /\ \A i \in Jobs : OfSession(jobs[i], s) => jobs[i].op <= n
      /\ \A i \in Jobs : AtFrame(jobs[i], s) =>
           /\ FrameOps(journal[s], offer[s], wire[s], jobs[i])
           /\ \A k \in Jobs : OfSession(jobs[k], s) /\ jobs[k].op = jobs[i].op => k = i
  BY <1>0, OpsOf
<1>5. Below(v, n + 1) /\ Apart(v) /\ ToSet(v) = ToSet(journal[s]) \cup {e}
  <2> HIDE DEF s, c, n
  <2> QED BY <1>0, <1>3, <1>4, ApartAppend
<1> HIDE DEF v, r, e
<1>6. \A k \in Jobs : jobs'[k] = IF k = j THEN r ELSE jobs[k]
  BY <1>0, <1>1
<1>7. /\ \A i \in DOMAIN offer[s] : offer[s][i].op \in Nat /\ offer[s][i].op <= n
      /\ \A i \in DOMAIN wire[s] : wire[s][i].op \in Nat /\ wire[s][i].op <= n
  <2>1. \A i \in DOMAIN offer[s] : offer[s][i] \in RecordType
    BY <1>4
  <2>2. \A i \in DOMAIN wire[s] : wire[s][i] \in FrameType
    BY <1>4
  <2> QED BY <1>4, <2>1, <2>2 DEF RecordType, FrameType, Below
<1>8. \A k \in Jobs : jobs[k].op \in Nat
  BY <1>0, JobParts
<1>9. \A t \in Stations : OpsOK(journal'[t], offer'[t], wire'[t], lastOp'[t])
  <2>1. ASSUME NEW t \in Stations, t # s PROVE OpsOK(journal'[t], offer'[t], wire'[t], lastOp'[t])
    BY <1>3, <2>1 DEF OpsInv, SameOps
  <2>2. Below(offer[s], n + 1) /\ Below(wire[s], n + 1)
    BY <1>3, <1>7 DEF Below
  <2>3. OpsOK(journal'[s], offer'[s], wire'[s], lastOp'[s])
    BY <1>1, <1>3, <1>4, <1>5, <2>2 DEF OpsOK
  <2> QED BY <2>1, <2>3
<1>10. ASSUME NEW k \in Jobs, NEW t \in Stations, OfSession(jobs'[k], t) PROVE jobs'[k].op <= lastOp'[t]
  <2>1. CASE k = j
    <3>1. t = s
      BY <1>2, <1>6, <1>10, <2>1 DEF OfSession
    <3> QED BY <1>2, <1>3, <1>6, <2>1, <3>1
  <2>2. CASE k # j
    <3>1. OfSession(jobs[k], t) /\ jobs'[k].op = jobs[k].op
      BY <1>6, <1>10, <2>2
    <3>2. CASE t = s
      BY <1>3, <1>4, <1>8, <3>1, <3>2
    <3>3. CASE t # s
      BY <1>3, <3>1, <3>3 DEF OpsInv, SameOps
    <3> QED BY <3>2, <3>3
  <2> QED BY <2>1, <2>2
<1>11. ASSUME NEW k \in Jobs, NEW t \in Stations, AtFrame(jobs'[k], t)
       PROVE  FrameOps(journal'[t], offer'[t], wire'[t], jobs'[k])
  <2>1. CASE k = j
    <3>1. t = s /\ jobs'[k] = r
      BY <1>2, <1>6, <1>11, <2>1 DEF AtFrame
    <3>2. /\ \A i \in DOMAIN offer[s] : offer[s][i].op # n + 1
          /\ \A i \in DOMAIN wire[s] : wire[s][i].op # n + 1
      BY <1>3, <1>7
    <3> QED BY <1>1, <1>2, <1>3, <1>5, <3>1, <3>2 DEF FrameOps
  <2>2. CASE k # j
    <3>1. AtFrame(jobs[k], t) /\ jobs'[k] = jobs[k]
      BY <1>6, <1>11, <2>2
    <3>2. CASE t = s
      BY <1>1, <1>3, <1>4, <1>5, <3>1, <3>2 DEF FrameOps
    <3>3. CASE t # s
      BY <1>3, <3>1, <3>3 DEF OpsInv, SameOps
    <3> QED BY <3>2, <3>3
  <2> QED BY <2>1, <2>2
<1>12. ASSUME NEW k \in Jobs, NEW i \in Jobs, NEW t \in Stations, AtFrame(jobs'[k], t), OfSession(jobs'[i], t),
              jobs'[i].op = jobs'[k].op
       PROVE  i = k
  <2>1. CASE k # j /\ i # j
    <3>1. AtFrame(jobs[k], t) /\ OfSession(jobs[i], t) /\ jobs[i].op = jobs[k].op
      BY <1>6, <1>12, <2>1
    <3> QED BY <3>1 DEF OpsInv
  <2>2. CASE k = j /\ i # j
    <3>1. t = s /\ jobs'[k].op = n + 1
      BY <1>2, <1>6, <1>12, <2>2 DEF AtFrame
    <3>2. OfSession(jobs[i], s) /\ jobs[i].op = n + 1
      BY <1>6, <1>12, <2>2, <3>1
    <3> QED BY <1>3, <1>4, <3>2
  <2>3. CASE k # j /\ i = j
    <3>1. t = s /\ jobs'[i].op = n + 1
      BY <1>2, <1>6, <1>12, <2>3 DEF OfSession
    <3>2. AtFrame(jobs[k], s) /\ jobs[k].op = n + 1
      BY <1>6, <1>12, <2>3, <3>1
    <3>3. OfSession(jobs[k], s)
      BY <3>2 DEF AtFrame, OfSession
    <3> QED BY <1>3, <1>4, <3>2, <3>3
  <2> QED BY <2>1, <2>2, <2>3
<1>13. /\ \A t \in Stations : OpsOK(journal[t], offer[t], wire[t], lastOp[t])'
       /\ \A k \in Jobs, t \in Stations : (OfSession(jobs[k], t) => jobs[k].op <= lastOp[t])'
       /\ \A k \in Jobs, t \in Stations : (AtFrame(jobs[k], t) => FrameOps(journal[t], offer[t], wire[t], jobs[k]))'
       /\ \A i, k \in Jobs, t \in Stations :
            (AtFrame(jobs[k], t) /\ OfSession(jobs[i], t) /\ jobs[i].op = jobs[k].op => i = k)'
  BY <1>9, <1>10, <1>11, <1>12 DEF OpsOK, Below, Apart, PrpApart, Away, OfSession, AtFrame, FrameOps, RecordOf, ToSet
<1> QED BY <1>13 DEF OpsInv

\* The steps of a propagation keep the ids apart.
LEMMA JobOps ==
  ASSUME TypeInv, OpsInv, NEW j \in Jobs, JobStep(j)
  PROVE  OpsInv'
<1>0. /\ journal \in [Stations -> Seq(RecordType)] /\ offer \in [Stations -> Seq(RecordType)]
      /\ wire \in [Stations -> Seq(FrameType)] /\ lastOp \in [Stations -> Nat]
      /\ jobs \in [Jobs -> JobType] /\ jobs[j] \in JobType /\ Staged(jobs[j])
  BY DEF TypeInv, TypeOK, AllStaged
<1>1. CASE Begun(j) /\ jobs[j].sess = "here"
  BY <1>1, BegunOps DEF Begun, Begin
<1>2. CASE UNCHANGED <<journal, offer, wire, lastOp>> /\ ~Begun(j)
  <2>1. FramesLeft /\ \A t \in Stations : SameOps(t)
    BY <1>2, JobFrames DEF SameOps
  <2>2. CASE Stations = {}
    BY <2>2 DEF OpsInv
  <2>3. ASSUME NEW s \in Stations PROVE OpsInv'
    <3>1. OpsOK(journal'[s], offer'[s], wire'[s], lastOp'[s])
      BY <1>2 DEF OpsInv
    <3>2. \A i \in Jobs : OfSession(jobs'[i], s) => jobs[i].op <= lastOp'[s]
      BY <1>2, <2>1 DEF OpsInv, FramesLeft
    <3>3. \A i \in Jobs : AtFrame(jobs'[i], s) => FrameOps(journal'[s], offer'[s], wire'[s], jobs[i])
      BY <1>2, <2>1 DEF OpsInv, FramesLeft
    <3> QED BY <2>1, <3>1, <3>2, <3>3, OpsLine
  <2> QED BY <2>2, <2>3
<1> DEFINE s == jobs[j].cur
           jn == journal[s]
           of == offer[s]
           w == wire[s]
           n == lastOp[s]
<1>3. ASSUME jobs[j].pc \in {"begin", "frame"}
      PROVE  /\ s \in Stations
             /\ jn \in Seq(RecordType) /\ of \in Seq(RecordType) /\ w \in Seq(FrameType) /\ n \in Nat
             /\ Below(jn, n) /\ Below(of, n) /\ Below(w, n)
             /\ Apart(jn) /\ Apart(of) /\ PrpApart(w) /\ Away(w, of)
             /\ \A i \in Jobs : OfSession(jobs[i], s) => jobs[i].op <= n
             /\ \A i \in Jobs : AtFrame(jobs[i], s) =>
                  /\ FrameOps(jn, of, w, jobs[i])
                  /\ \A k \in Jobs : OfSession(jobs[k], s) /\ jobs[k].op = jobs[i].op => k = i
  <2>1. s \in Stations
    BY <1>0, <1>3 DEF Staged
  <2> QED BY <2>1, OpsOf
<1>4. CASE Begin(j) /\ ~Begun(j)
  <2>0. jobs[j].pc = "begin" /\ UNCHANGED <<offer, wire>>
    BY <1>4 DEF Begin, airVars
  <2>1. CASE jobs[j].sess # "here"
    BY <1>2, <1>4, <2>1 DEF Begin, airVars
  <2>2. CASE jobs[j].sess = "here"
    <3> DEFINE e == [op |-> n + 1, what |-> jobs[j].what]
               v == Append(jn, e)
    <3>1. /\ journal' = [journal EXCEPT ![s] = v]
          /\ lastOp' = [lastOp EXCEPT ![s] = n + 1]
      BY <1>4, <2>2 DEF Begin
    <3>2. FramesLeft
      BY <1>4, JobFrames
    <3>3. Below(v, n + 1) /\ Apart(v) /\ ToSet(v) = ToSet(jn) \cup {e}
      <4>1. jobs[j].what \in Contents
        BY <1>0, JobParts
      <4> HIDE DEF jn, n
      <4> QED BY <1>3, <2>0, <4>1, ApartAppend
    <3> HIDE DEF v, e
    <3>4. /\ s \in Stations /\ journal'[s] = v /\ lastOp'[s] = n + 1
          /\ \A t \in Stations \ {s} : SameOps(t)
      BY <1>0, <1>3, <2>0, <3>1 DEF SameOps
    <3>5. Below(of, n + 1) /\ Below(w, n + 1)
      <4>1. \A i \in DOMAIN of : of[i] \in RecordType
        BY <1>3, <2>0
      <4>2. \A i \in DOMAIN w : w[i] \in FrameType
        BY <1>3, <2>0
      <4>3. /\ \A i \in DOMAIN of : of[i].op \in Nat /\ of[i].op <= n
            /\ \A i \in DOMAIN w : w[i].op \in Nat /\ w[i].op <= n
        BY <1>3, <2>0, <4>1, <4>2 DEF RecordType, FrameType, Below
      <4> QED BY <1>3, <2>0, <4>3 DEF Below
    <3>6. OpsOK(journal'[s], offer'[s], wire'[s], lastOp'[s])
      BY <1>3, <2>0, <3>3, <3>4, <3>5 DEF OpsOK
    <3>7. \A i \in Jobs : OfSession(jobs'[i], s) => jobs[i].op <= lastOp'[s]
      <4>1. \A i \in Jobs : jobs[i].op \in Nat
        BY <1>0, JobParts
      <4> QED BY <1>3, <2>0, <3>2, <3>4, <4>1 DEF FramesLeft
    <3>8. \A i \in Jobs : AtFrame(jobs'[i], s) => FrameOps(journal'[s], offer'[s], wire'[s], jobs[i])
      BY <1>3, <2>0, <3>2, <3>3, <3>4 DEF FramesLeft, FrameOps
    <3> QED BY <3>2, <3>4, <3>6, <3>7, <3>8, OpsLine
  <2> QED BY <2>1, <2>2
<1>5. CASE Frame(j)
  <2>0. jobs[j].pc = "frame" /\ UNCHANGED <<offer, lastOp>>
    BY <1>5 DEF Frame
  <2>1. FramesLeft
    <3>1. ~Begun(j)
      BY <2>0 DEF Begun, Begin
    <3> QED BY <3>1, JobFrames
  <2>2. \A i \in Jobs : OfSession(jobs'[i], s) => jobs[i].op <= lastOp'[s]
    BY <1>3, <2>0, <2>1 DEF FramesLeft
  <2>3. CASE UNCHANGED <<journal, wire>>
    BY <1>2, <2>0, <2>3 DEF Begun, Begin
  <2>4. CASE jobs[j].sess = "gone" /\ UNCHANGED wire /\ journal' = Settled(s, RecordOf(jobs[j]))
    <3> DEFINE e == RecordOf(jobs[j])
               v == RemoveFirst(jn, e)
    <3>1. /\ journal'[s] = v /\ \A t \in Stations \ {s} : SameOps(t)
      BY <1>0, <1>3, <2>0, <2>4 DEF Settled, SameOps
    <3>2. /\ Below(v, n) /\ Apart(v) /\ \A p \in ToSet(jn) : p # e => p \in ToSet(v)
      <4> HIDE DEF jn, n, e
      <4> QED BY <1>3, <2>0, ApartRemove
    <3>3. OpsOK(journal'[s], offer'[s], wire'[s], lastOp'[s])
      BY <1>3, <2>0, <2>4, <3>1, <3>2 DEF OpsOK
    <3>4. ASSUME NEW i \in Jobs, AtFrame(jobs'[i], s)
          PROVE  FrameOps(journal'[s], offer'[s], wire'[s], jobs[i])
      <4>1. AtFrame(jobs[i], s) /\ i # j
        BY <1>3, <2>0, <2>1, <2>4, <3>4 DEF FramesLeft, AtFrame
      <4>2. OfSession(jobs[j], s)
        BY <2>0, <2>4 DEF OfSession
      <4>3. FrameOps(jn, of, w, jobs[i]) /\ jobs[i].op # jobs[j].op
        BY <1>3, <2>0, <4>1, <4>2
      <4>4. RecordOf(jobs[i]) # e
        BY <4>3 DEF RecordOf
      <4> QED BY <2>0, <2>4, <3>1, <3>2, <4>3, <4>4 DEF FrameOps
    <3> QED BY <1>3, <2>0, <2>1, <2>2, <3>1, <3>3, <3>4, OpsLine
  <2>5. CASE jobs[j].sess = "here" /\ UNCHANGED journal /\ wire' = [wire EXCEPT ![s] = Append(@, Propagate(RecordOf(jobs[j])))]
    <3> DEFINE f == Propagate(RecordOf(jobs[j]))
               v == Append(w, f)
    <3>1. f \in FrameType /\ f.kind = "prp" /\ f.op = jobs[j].op
      <4>1. RecordOf(jobs[j]) \in RecordType /\ RecordOf(jobs[j]).op = jobs[j].op
        BY <1>0, FrameParts
      <4> QED BY <4>1, FrameParts
    <3>2. wire'[s] = v /\ \A t \in Stations \ {s} : SameOps(t)
      BY <1>0, <1>3, <2>0, <2>5 DEF SameOps
    <3> HIDE DEF f
    <3>3. AtFrame(jobs[j], s)
      BY <2>0, <2>5 DEF AtFrame
    <3>4. FrameOps(jn, of, w, jobs[j]) /\ jobs[j].op <= n
      BY <1>3, <2>0, <3>3 DEF AtFrame, OfSession
    <3>5. Below(v, n) /\ PrpApart(v) /\ Away(v, of)
      <4>1. f.op <= n /\ \A k \in DOMAIN of : of[k].op # f.op
        BY <3>1, <3>4 DEF FrameOps
      <4>2. \A k \in DOMAIN w : w[k].kind = "prp" => w[k].op # f.op
        BY <3>1, <3>4 DEF FrameOps
      <4> HIDE DEF w, of, n
      <4> QED BY <1>3, <2>0, <3>1, <4>1, <4>2, WireAppend
    <3>6. \A k \in DOMAIN v : (k \in DOMAIN w /\ v[k] = w[k]) \/ v[k] = f
      <4> HIDE DEF w
      <4> QED BY <1>3, <2>0, <3>1, AppendAt
    <3> HIDE DEF v
    <3>7. OpsOK(journal'[s], offer'[s], wire'[s], lastOp'[s])
      BY <1>3, <2>0, <2>5, <3>2, <3>5 DEF OpsOK
    <3>8. ASSUME NEW i \in Jobs, AtFrame(jobs'[i], s)
          PROVE  FrameOps(journal'[s], offer'[s], wire'[s], jobs[i])
      <4>0. PICK o \in Onward(jobs[j]) : jobs' = [jobs EXCEPT ![j] = o]
        BY <1>5 DEF Frame, Job
      <4>1. i # j
        <5>1. o.pc # "frame"
          BY <1>0, OnwardFrame
        <5>2. jobs'[j] = o
          BY <1>0, <4>0
        <5> QED BY <3>8, <5>1, <5>2 DEF AtFrame
      <4>2. AtFrame(jobs[i], s)
        BY <1>3, <2>0, <2>1, <3>8 DEF FramesLeft
      <4>3. OfSession(jobs[j], s)
        BY <3>3 DEF AtFrame, OfSession
      <4>4. FrameOps(jn, of, w, jobs[i]) /\ jobs[i].op # f.op
        BY <1>3, <2>0, <3>1, <4>1, <4>2, <4>3
      <4> QED BY <2>0, <2>5, <3>2, <3>6, <4>4 DEF FrameOps
    <3> QED BY <1>3, <2>0, <2>1, <2>2, <3>2, <3>7, <3>8, OpsLine
  <2> QED BY <1>5, <2>3, <2>4, <2>5 DEF Frame
<1>6. CASE ~Begin(j) /\ ~Frame(j)
  <2>1. UNCHANGED <<journal, offer, wire, lastOp>>
    BY <1>6 DEF JobStep, AttachEndPoint, DetachEndPoint, ReadSession, ReadKey, Snapshot, ReadAttached, ReadDetached,
       SendFails, linkVars, airVars
  <2> QED BY <1>2, <1>6, <2>1 DEF Begun
<1>7. CASE Begun(j) /\ jobs[j].sess # "here"
  <2>1. UNCHANGED <<journal, offer, wire, lastOp>> /\ \E o \in Onward(jobs[j]) : jobs' = [jobs EXCEPT ![j] = o]
    BY <1>7 DEF Begun, Begin, Job, airVars
  <2>2. jobs'[j].pc = "frame"
    <3>1. jobs' = [jobs EXCEPT ![j] = [jobs[j] EXCEPT !.pc = "frame", !.op = lastOp[jobs[j].cur] + 1]]
      BY <1>7 DEF Begun, Job
    <3> QED BY <1>0, <3>1 DEF JobType
  <2>3. jobs'[j].pc # "frame"
    <3>1. PICK o \in Onward(jobs[j]) : jobs' = [jobs EXCEPT ![j] = o]
      BY <2>1
    <3> QED BY <1>0, <3>1, OnwardFrame
  <2> QED BY <2>2, <2>3
<1> QED BY <1>1, <1>4, <1>5, <1>6, <1>7 DEF Begun

\* The process dies.
LEMMA CrashOps ==
  ASSUME TypeInv, OpsInv, Crash
  PROVE  OpsInv'
<1>1. /\ jobs' = [j \in Jobs |-> Idle] /\ UNCHANGED <<journal, lastOp>>
      /\ wire' = [s \in Stations |-> <<>>] /\ offer' = [s \in Stations |-> <<>>]
  BY DEF Crash
<1>2. \A s \in Stations : OpsOK(journal'[s], offer'[s], wire'[s], lastOp'[s])
  BY <1>1, NoneApart DEF OpsInv, OpsOK
<1>3. \A s \in Stations, j \in Jobs : ~OfSession(jobs'[j], s) /\ ~AtFrame(jobs'[j], s)
  BY <1>1 DEF OfSession, AtFrame, Idle
<1>4. /\ \A s \in Stations : OpsOK(journal[s], offer[s], wire[s], lastOp[s])'
      /\ \A s \in Stations, j \in Jobs : (~OfSession(jobs[j], s) /\ ~AtFrame(jobs[j], s))'
  BY <1>2, <1>3 DEF OpsOK, Below, Apart, PrpApart, Away, OfSession, AtFrame
<1> QED BY <1>4 DEF OpsInv


-----------------------------------------------------------------------------
\* The moments of the sessions' rows and what is remembered of the stations are flags.
FlagsOK ==
  /\ resumed \in [Stations -> BOOLEAN] /\ newer \in [Stations -> BOOLEAN] /\ missed \in [Stations -> BOOLEAN]
  /\ owed \in [Stations -> BOOLEAN] /\ stale \in [Stations -> BOOLEAN] /\ lapsed \in [Stations -> BOOLEAN]

\* A decision keeps the flags (Stamped).
LEMMA StampedFlags ==
  ASSUME FlagsOK, NEW rec \in [Stations -> BOOLEAN], Stamped(rec)
  PROVE  newer' \in [Stations -> BOOLEAN] /\ missed' \in [Stations -> BOOLEAN] /\ owed' \in [Stations -> BOOLEAN]
  BY DEF FlagsOK, Stamped

\* The same of a detachment.
LEMMA DetachedFlags ==
  ASSUME FlagsOK, NEW s, Detached(s)
  PROVE  /\ newer' \in [Stations -> BOOLEAN] /\ missed' \in [Stations -> BOOLEAN] /\ owed' \in [Stations -> BOOLEAN]
         /\ stale' \in [Stations -> BOOLEAN]
<1>1. CASE ep.status = "attached"
  <2> DEFINE rec == [t \in Stations |-> t # s]
  <2>1. rec \in [Stations -> BOOLEAN] /\ Stamped(rec)
    BY <1>1 DEF Detached
  <2>2. stale' \in [Stations -> BOOLEAN]
    <3>1. stale' = [t \in Stations |-> IF t = s THEN ~LeftWithout(t) ELSE stale[t]]
      BY <1>1 DEF Detached
    <3>2. ASSUME NEW t \in Stations PROVE (~LeftWithout(t)) \in BOOLEAN
      <4>1. (~LeftWithout(t)) = TRUE \/ (~LeftWithout(t)) = FALSE
        BY Zenon
      <4> QED BY <4>1, Zenon
    <3> QED BY <3>1, <3>2 DEF FlagsOK
  <2> HIDE DEF rec
  <2> QED BY <2>1, <2>2, StampedFlags
<1>2. CASE ep.status # "attached"
  BY <1>2 DEF Detached, FlagsOK
<1> QED BY <1>1, <1>2

\* Every step keeps the flags.
LEMMA FlagsKept ==
  ASSUME FlagsOK, Next
  PROVE  FlagsOK'
<1>1. ASSUME NEW s \in Stations, StationStep(s) PROVE FlagsOK'
  <2>1. CASE Serve(s)
    <3>1. UNCHANGED <<resumed, newer, missed, owed, lapsed>> /\ (UNCHANGED stale \/ \E b \in BOOLEAN : stale' = [stale EXCEPT ![s] = b])
      BY <2>1 DEF Serve, linkVars
    <3> QED BY <3>1 DEF FlagsOK
  <2>2. CASE DetachReported(s)
    <3>1. UNCHANGED <<resumed, newer, missed, owed, lapsed>> /\ \E b \in BOOLEAN : stale' = [stale EXCEPT ![s] = b]
      BY <2>2 DEF DetachReported, linkVars
    <3> QED BY <3>1 DEF FlagsOK
  <2>3. ASSUME NEW j \in Jobs, AttachComplete(s, j) PROVE FlagsOK'
    <3>1. UNCHANGED <<resumed, stale, lapsed>> /\ (Restated \/ UNCHANGED <<newer, missed, owed>>)
      BY <2>3 DEF AttachComplete
    <3>2. [t \in Stations |-> TRUE] \in [Stations -> BOOLEAN]
      OBVIOUS
    <3> QED BY <3>1, <3>2, StampedFlags DEF FlagsOK, Restated
  <2>4. ASSUME NEW j \in Jobs, DetachComplete(s, j) PROVE FlagsOK'
    BY <2>4, DetachedFlags DEF DetachComplete, FlagsOK
  <2>5. ASSUME NEW j \in Jobs, Reissue(s, j) PROVE FlagsOK'
    <3>1. UNCHANGED <<resumed, newer, missed, owed, lapsed>> /\ (UNCHANGED stale \/ \E b \in BOOLEAN : stale' = [stale EXCEPT ![s] = b])
      BY <2>5 DEF Reissue
    <3> QED BY <3>1 DEF FlagsOK
  <2>6. CASE Refuse(s)
    BY <2>6 DEF Refuse, FlagsOK, linkVars
  <2>7. CASE MarkDisconnected(s)
    <3>1. /\ UNCHANGED <<resumed, missed, owed, stale>> /\ (UNCHANGED newer \/ newer' = [newer EXCEPT ![s] = FALSE])
          /\ UNCHANGED lapsed \/ \E b \in BOOLEAN : lapsed' = [lapsed EXCEPT ![s] = b]
      BY <2>7 DEF MarkDisconnected
    <3> QED BY <3>1 DEF FlagsOK
  <2>8. CASE Connect(s)
    BY <2>8 DEF Connect, FlagsOK, prpGhosts
  <2>9. CASE Activate(s)
    <3>1. /\ UNCHANGED <<resumed, missed>> /\ newer' = [newer EXCEPT ![s] = FALSE]
          /\ \/ UNCHANGED <<owed, stale, lapsed>>
             \/ /\ \E b \in BOOLEAN : owed' = [owed EXCEPT ![s] = b]
                /\ stale' = [stale EXCEPT ![s] = FALSE] /\ lapsed' = [lapsed EXCEPT ![s] = FALSE]
      BY <2>9 DEF Activate, prpGhosts
    <3> QED BY <3>1 DEF FlagsOK
  <2>10. CASE UNCHANGED <<resumed, newer, missed, owed, stale, lapsed>>
    BY <2>10 DEF FlagsOK
  <2> QED BY <1>1, <2>1, <2>2, <2>3, <2>4, <2>5, <2>6, <2>7, <2>8, <2>9, <2>10 DEF StationStep, Attach, ServeFails,
        Deliver, Break, Unregister, linkVars, prpGhosts
<1>2. ASSUME NEW j \in Jobs, JobStep(j) PROVE FlagsOK'
  <2>1. CASE AttachEndPoint(j)
    <3>1. UNCHANGED <<resumed, stale, lapsed>> /\ Restated
      BY <2>1 DEF AttachEndPoint
    <3>2. [t \in Stations |-> TRUE] \in [Stations -> BOOLEAN]
      OBVIOUS
    <3> QED BY <3>1, <3>2, StampedFlags DEF FlagsOK, Restated
  <2>2. CASE DetachEndPoint(j)
    BY <2>2, DetachedFlags DEF DetachEndPoint, FlagsOK
  <2>3. CASE ReadDetached(j)
    BY <2>3 DEF ReadDetached, FlagsOK, prpGhosts
  <2>4. CASE Begin(j)
    <3>1. /\ UNCHANGED <<resumed, missed, stale>> /\ (UNCHANGED newer \/ newer' = [newer EXCEPT ![jobs[j].cur] = FALSE])
          /\ UNCHANGED owed \/ \E b \in BOOLEAN : owed' = [owed EXCEPT ![jobs[j].cur] = b]
          /\ UNCHANGED lapsed \/ lapsed' = [lapsed EXCEPT ![jobs[j].cur] = TRUE]
      BY <2>4 DEF Begin
    <3> QED BY <3>1 DEF FlagsOK
  <2>5. CASE Frame(j)
    <3>1. /\ UNCHANGED <<resumed, newer, missed, owed>>
          /\ UNCHANGED stale \/ \E b \in BOOLEAN : stale' = [stale EXCEPT ![jobs[j].cur] = b]
          /\ \E b \in BOOLEAN : lapsed' = [lapsed EXCEPT ![jobs[j].cur] = b]
      BY <2>5 DEF Frame
    <3> QED BY <3>1 DEF FlagsOK
  <2>6. CASE SendFails(j)
    <3>1. UNCHANGED <<resumed, newer, missed, owed, stale>> /\ lapsed' = [s \in Stations |-> lapsed[s] \/ jobs[j].cur \in {s, NoStation}]
      BY <2>6 DEF SendFails, linkVars
    <3> QED BY <3>1 DEF FlagsOK
  <2>7. CASE UNCHANGED <<resumed, newer, missed, owed, stale, lapsed>>
    BY <2>7 DEF FlagsOK
  <2> QED BY <1>2, <2>1, <2>2, <2>3, <2>4, <2>5, <2>6, <2>7 DEF JobStep, ReadSession, ReadKey, Snapshot, ReadAttached,
        linkVars, prpGhosts
<1>3. CASE Crash
  BY <1>3 DEF Crash, FlagsOK
<1> QED BY <1>1, <1>2, <1>3, NextCases

\* What a session that is not resumed is offered stays nothing.
LEMMA NoOfferKept ==
  ASSUME TypeInv, FlagsOK, NoOffer, Next
  PROVE  NoOffer'
<1>0. /\ link \in [Stations -> LinkStates] /\ offer \in [Stations -> Seq(RecordType)]
      /\ resumed \in [Stations -> BOOLEAN]
  BY DEF TypeInv, TypeOK, LinkStates, FlagsOK
<1>1. ASSUME NEW s \in Stations, StationStep(s) PROVE NoOffer'
  <2>1. CASE Connect(s)
    BY <1>0, <2>1 DEF Connect, NoOffer
  <2>2. CASE Break(s) \/ Unregister(s) \/ MarkDisconnected(s) \/ Activate(s)
    <3>1. UNCHANGED <<offer, resumed>> /\ \E l \in LinkStates \ {"offered"} : link' = [link EXCEPT ![s] = l]
      BY <2>2 DEF Break, Unregister, MarkDisconnected, Activate, LinkStates
    <3> QED BY <1>0, <3>1 DEF NoOffer
  <2>3. ASSUME NEW j \in Jobs, Reissue(s, j) PROVE NoOffer'
    BY <1>0, <2>3 DEF Reissue, NoOffer
  <2>4. CASE UNCHANGED <<link, offer, resumed>>
    BY <2>4 DEF NoOffer
  <2> QED BY <1>1, <2>1, <2>2, <2>3, <2>4 DEF StationStep, Attach, Serve, ServeFails, DetachReported,
        AttachComplete, DetachComplete, Deliver, Refuse, linkVars
<1>2. ASSUME NEW j \in Jobs, JobStep(j) PROVE NoOffer'
  <2>1. CASE ReadDetached(j) /\ jobs[j].sess = "here"
    <3>1. jobs[j].cur \in Stations
      BY <2>1 DEF ReadDetached, TypeInv, AllStaged, Staged
    <3>2. link[jobs[j].cur] \in Registered
      BY <2>1, <3>1 DEF TypeInv, SessionsThere
    <3>3. resumed' = [resumed EXCEPT ![jobs[j].cur] = FALSE] /\ UNCHANGED <<link, offer>>
      BY <2>1 DEF ReadDetached
    <3> QED BY <1>0, <3>1, <3>2, <3>3 DEF NoOffer, Registered
  <2>2. CASE UNCHANGED <<link, offer, resumed>>
    BY <2>2 DEF NoOffer
  <2> QED BY <1>2, <2>1, <2>2 DEF JobStep, AttachEndPoint, DetachEndPoint, ReadSession, ReadKey, Snapshot, ReadAttached,
        ReadDetached, Begin, Frame, SendFails, linkVars
<1>3. CASE Crash
  BY <1>3 DEF Crash, NoOffer
<1> QED BY <1>1, <1>2, <1>3, NextCases

\* Every step keeps the ids apart.
LEMMA OpsKept ==
  ASSUME TypeInv, OpsInv, NoOffer, Next
  PROVE  OpsInv'
  BY StationOps, JobOps, CrashOps, NextCases

-----------------------------------------------------------------------------
(* Answers and reconciliations.                                            *)

\* The answer on its way to a station is that to the operation it has open.
RspOf(h, w) == \A i \in DOMAIN w : w[i].kind = "rsp" => w[i].what = h.what

AnswersMatch == \A s \in Stations : RspOf(hear[s], wire[s])

\* What one station has open, and the frames on their way to it, change.
LEMMA AnswersLine ==
  ASSUME AnswersMatch, NEW s \in Stations, RspOf(hear'[s], wire'[s]),
         \A t \in Stations \ {s} : hear'[t] = hear[t] /\ wire'[t] = wire[t]
  PROVE  AnswersMatch'
<1>1. \A t \in Stations : RspOf(hear'[t], wire'[t])
  BY DEF AnswersMatch
<1>2. \A t \in Stations : RspOf(hear[t], wire[t])'
  BY <1>1 DEF RspOf
<1> QED BY <1>2 DEF AnswersMatch

\* Every step of a station keeps the answers.
LEMMA StationAnswers ==
  ASSUME TypeInv, AnswersMatch, NEW s \in Stations, StationStep(s)
  PROVE  AnswersMatch'
<1> DEFINE w == wire[s]
<1>0. /\ hear \in [Stations -> HearType] /\ wire \in [Stations -> Seq(FrameType)] /\ w \in Seq(FrameType)
      /\ hear[s] \in HearType
      /\ hear[s].pc # "open" => \A i \in DOMAIN w : w[i].kind # "rsp"
      /\ link[s] \notin {"reissuing", "live"} => w = <<>>
      /\ RspOf(hear[s], w)
      /\ offer[s] \in Seq(RecordType)
  BY DEF TypeInv, TypeOK, AnswersMatch
<1>1. ASSUME hear[s].pc # "open", NEW h, hear' = [hear EXCEPT ![s] = h], UNCHANGED wire PROVE AnswersMatch'
  BY <1>0, <1>1, AnswersLine DEF RspOf
<1>2. ASSUME hear[s].pc # "open", NEW c \in Contents, NEW h, h.what = c, hear' = [hear EXCEPT ![s] = h],
             wire' = [wire EXCEPT ![s] = Append(@, Response(c))]
      PROVE  AnswersMatch'
  <2> DEFINE f == Response(c)
             v == Append(w, f)
  <2>1. f \in FrameType /\ f.what = c
    BY FrameParts
  <2> HIDE DEF f
  <2>2. \A i \in DOMAIN v : (i \in DOMAIN w /\ v[i] = w[i]) \/ v[i] = f
    <3> HIDE DEF w
    <3> QED BY <1>0, <2>1, AppendAt
  <2>3. wire'[s] = v /\ hear'[s] = h /\ \A t \in Stations \ {s} : hear'[t] = hear[t] /\ wire'[t] = wire[t]
    BY <1>0, <1>2 DEF f
  <2> HIDE DEF v
  <2>4. RspOf(hear'[s], wire'[s])
    BY <1>0, <1>2, <2>1, <2>2, <2>3 DEF RspOf
  <2> QED BY <2>3, <2>4, AnswersLine
<1>3. ASSUME NEW h \in HearType, h.what = hear[s].what, hear' = [hear EXCEPT ![s] = h],
             wire' = [wire EXCEPT ![s] = Tail(@)], w # <<>>
      PROVE  AnswersMatch'
  <2> DEFINE v == Tail(w)
  <2>1. \A i \in DOMAIN v : \E k \in DOMAIN w : v[i] = w[k]
    <3> HIDE DEF w
    <3> QED BY <1>0, <1>3, WireTail
  <2>2. wire'[s] = v /\ hear'[s] = h /\ \A t \in Stations \ {s} : hear'[t] = hear[t] /\ wire'[t] = wire[t]
    BY <1>0, <1>3
  <2> HIDE DEF v
  <2>3. RspOf(hear'[s], wire'[s])
    BY <1>0, <1>3, <2>1, <2>2 DEF RspOf
  <2> QED BY <2>2, <2>3, AnswersLine
<1>4. ASSUME NEW a \in Telegrams, Attach(s, a) PROVE AnswersMatch'
  <2> DEFINE h == IF AttachCounterAdvances(ep, a) THEN [pc |-> "checked", what |-> a] ELSE Quiet
  <2>1. hear[s].pc # "open"
    <3>1. CASE hear[s].pc = "idle"
      BY <3>1
    <3>2. CASE hear[s].pc = "lost" /\ hear[s].what = a
      BY <3>2
    <3> QED BY <1>4, <3>1, <3>2 DEF Attach
  <2>2. UNCHANGED wire /\ hear' = [hear EXCEPT ![s] = h]
    BY <1>4 DEF Attach, airVars
  <2> HIDE DEF h
  <2> QED BY <1>1, <2>1, <2>2
<1>5. CASE Serve(s)
  <2>0. hear[s].pc = "checked" /\ hear[s].what \in Contents
    BY <1>0, <1>5, KeysApart DEF Serve, HearType
  <2>1. CASE UNCHANGED wire
    <3>1. \E h : hear' = [hear EXCEPT ![s] = h]
      BY <1>0, <1>5 DEF Serve
    <3> QED BY <1>1, <2>0, <2>1, <3>1
  <2>2. CASE wire' # wire
    <3> DEFINE h == [hear[s] EXCEPT !.pc = "open"]
    <3>1. wire' = [wire EXCEPT ![s] = Append(@, Response(hear[s].what))] /\ hear' = [hear EXCEPT ![s] = h]
      BY <1>0, <1>5, <2>2 DEF Serve
    <3>2. h.what = hear[s].what
      BY <1>0 DEF HearType
    <3> HIDE DEF h
    <3> QED BY <1>2, <2>0, <3>1, <3>2
  <2> QED BY <2>1, <2>2
<1>6. CASE ServeFails(s)
  BY <1>1, <1>6 DEF ServeFails, airVars
<1>7. CASE DetachReported(s)
  <2> DEFINE h == [pc |-> "open", what |-> Detach]
  <2>1. /\ hear[s].pc # "open" /\ h.what = Detach /\ Detach \in Contents
        /\ hear' = [hear EXCEPT ![s] = h] /\ wire' = [wire EXCEPT ![s] = Append(@, Response(Detach))]
    BY <1>7, KeysApart DEF DetachReported
  <2> HIDE DEF h
  <2> QED BY <1>2, <2>1
<1>8. ASSUME NEW j \in Jobs, AttachComplete(s, j) \/ DetachComplete(s, j) PROVE AnswersMatch'
  BY <1>1, <1>8 DEF AttachComplete, DetachComplete, airVars
<1>9. ASSUME NEW j \in Jobs, Reissue(s, j) PROVE AnswersMatch'
  <2> DEFINE u == [i \in DOMAIN offer[s] |-> Propagate(offer[s][i])]
             v == w \o u
  <2>1. \A i \in DOMAIN offer[s] : offer[s][i] \in RecordType /\ u[i] \in FrameType /\ u[i].kind = "prp"
    BY <1>0, FrameParts
  <2>6. DOMAIN offer[s] = 1..Len(offer[s]) /\ Len(offer[s]) \in Nat /\ DOMAIN u = DOMAIN offer[s]
    BY <1>0
  <2>7. u \in [1..Len(offer[s]) -> FrameType]
    BY <2>1, <2>6
  <2>2. u \in Seq(FrameType) /\ \A i \in DOMAIN u : u[i].kind = "prp"
    BY <2>1, <2>6, <2>7
  <2>3. wire'[s] = v /\ hear' = hear /\ \A t \in Stations \ {s} : hear'[t] = hear[t] /\ wire'[t] = wire[t]
    BY <1>0, <1>9 DEF Reissue
  <2> HIDE DEF u
  <2>4. \A i \in DOMAIN v : (i \in DOMAIN w /\ v[i] = w[i]) \/ \E k \in DOMAIN u : v[i] = u[k]
    <3> HIDE DEF w
    <3> QED BY <1>0, <2>2, ConcatAt
  <2> HIDE DEF v
  <2>5. RspOf(hear'[s], wire'[s])
    BY <1>0, <2>2, <2>3, <2>4 DEF RspOf
  <2> QED BY <2>3, <2>5, AnswersLine
<1>10. CASE Deliver(s)
  <2>1. CASE hear' = hear
    <3>1. hear' = [hear EXCEPT ![s] = hear[s]]
      BY <1>0, <2>1
    <3> QED BY <1>0, <1>3, <1>10, <3>1 DEF Deliver
  <2>2. CASE hear' # hear
    <3> DEFINE h == [hear[s] EXCEPT !.pc = "answered"]
    <3>1. h \in HearType /\ h.what = hear[s].what /\ hear' = [hear EXCEPT ![s] = h]
      BY <1>0, <1>10, <2>2 DEF HearType, Deliver
    <3> HIDE DEF h
    <3> QED BY <1>0, <1>3, <1>10, <3>1 DEF Deliver
  <2> QED BY <2>1, <2>2
<1>11. CASE Refuse(s)
  <2>1. hear' = [hear EXCEPT ![s] = hear[s]]
    BY <1>0, <1>11 DEF Refuse
  <2> QED BY <1>0, <1>3, <1>11, <2>1 DEF Refuse
<1>12. CASE Break(s)
  <2>1. /\ wire'[s] = <<>>
        /\ \A t \in Stations \ {s} : hear'[t] = hear[t] /\ wire'[t] = wire[t]
    BY <1>0, <1>12 DEF Break
  <2>2. RspOf(hear'[s], wire'[s])
    BY <2>1 DEF RspOf
  <2> QED BY <2>1, <2>2, AnswersLine
<1>13. CASE Activate(s)
  <2>1. wire' = wire /\ w = <<>> /\ \A t \in Stations \ {s} : hear'[t] = hear[t]
    BY <1>0, <1>13 DEF Activate
  <2>2. RspOf(hear'[s], wire'[s])
    BY <2>1 DEF RspOf
  <2> QED BY <2>1, <2>2, AnswersLine
<1>14. CASE UNCHANGED <<hear, wire>>
  BY <1>14 DEF AnswersMatch, RspOf
<1> QED BY <1>4, <1>5, <1>6, <1>7, <1>8, <1>9, <1>10, <1>11, <1>12, <1>13, <1>14 DEF StationStep, Unregister,
      MarkDisconnected, Connect, airVars

\* Every step keeps the answers.
LEMMA AnswersKept ==
  ASSUME TypeInv, AnswersMatch, Next
  PROVE  AnswersMatch'
<1>1. ASSUME NEW j \in Jobs, JobStep(j) PROVE AnswersMatch'
  <2>1. CASE UNCHANGED <<hear, wire>>
    BY <2>1 DEF AnswersMatch, RspOf
  <2>2. CASE Frame(j)
    <3> DEFINE s == jobs[j].cur
               w == wire[s]
               f == Propagate(RecordOf(jobs[j]))
               v == Append(w, f)
    <3>0. s \in Stations /\ jobs[j] \in JobType /\ wire \in [Stations -> Seq(FrameType)] /\ w \in Seq(FrameType)
      BY <2>2 DEF Frame, TypeInv, TypeOK, AllStaged, Staged
    <3>1. CASE UNCHANGED wire
      BY <2>1, <2>2, <3>1 DEF Frame
    <3>2. CASE wire' # wire
      <4>1. f \in FrameType /\ f.kind = "prp"
        BY <3>0, FrameParts
      <4>2. wire' = [wire EXCEPT ![s] = v] /\ hear' = hear
        BY <2>2, <3>2 DEF Frame
      <4> HIDE DEF f
      <4>3. \A i \in DOMAIN v : (i \in DOMAIN w /\ v[i] = w[i]) \/ v[i] = f
        <5> HIDE DEF w
        <5> QED BY <3>0, <4>1, AppendAt
      <4> HIDE DEF v
      <4>4. wire'[s] = v /\ \A t \in Stations \ {s} : hear'[t] = hear[t] /\ wire'[t] = wire[t]
        BY <3>0, <4>2
      <4>5. RspOf(hear'[s], wire'[s])
        BY <3>0, <4>1, <4>2, <4>3, <4>4 DEF RspOf, AnswersMatch
      <4> QED BY <3>0, <4>4, <4>5, AnswersLine
    <3> QED BY <3>1, <3>2
  <2> QED BY <1>1, <2>1, <2>2 DEF JobStep, AttachEndPoint, DetachEndPoint, ReadSession, ReadKey, Snapshot, ReadAttached,
        ReadDetached, Begin, SendFails, airVars
<1>2. CASE Crash
  <2>1. \A s \in Stations : wire'[s] = <<>>
    BY <1>2 DEF Crash
  <2> QED BY <2>1 DEF AnswersMatch, RspOf
<1> QED BY <1>1, <1>2, StationAnswers, NextCases

\* A reconciliation works on its present connection.
ReconHere(r, s) == r.kind = "reconcile" /\ r.cur = s /\ r.sess = "here"

\* A connection is reconciled once, when its session takes operations.
OneRecon ==
  \A s \in Stations : \A j \in Jobs :
    ReconHere(jobs[j], s) => /\ link[s] \in {"live", "broken"}
                             /\ \A i \in Jobs : ReconHere(jobs[i], s) => i = j

\* No reconciliation starts, and no connection that has one is taken down.
LEMMA ReconLeft ==
  ASSUME OneRecon,
         \A j \in Jobs, t \in Stations : ReconHere(jobs'[j], t) =>
           ReconHere(jobs[j], t) /\ (link[t] \in {"live", "broken"} => link'[t] \in {"live", "broken"})
  PROVE  OneRecon'
<1>1. \A j \in Jobs, t \in Stations : ReconHere(jobs'[j], t) =>
        /\ link'[t] \in {"live", "broken"}
        /\ \A i \in Jobs : ReconHere(jobs'[i], t) => i = j
  BY DEF OneRecon
<1> QED BY <1>1 DEF OneRecon, ReconHere

\* One goroutine's record is replaced, and not by that of another reconciliation.
LEMMA ReconChanged ==
  ASSUME TypeInv, OneRecon, NEW j \in Jobs, NEW r, jobs' = [jobs EXCEPT ![j] = r],
         r.kind = "reconcile" => r.kind = jobs[j].kind /\ r.cur = jobs[j].cur /\ r.sess = jobs[j].sess,
         UNCHANGED link
  PROVE  OneRecon'
<1>1. \A k \in Jobs : jobs'[k] = IF k = j THEN r ELSE jobs[k]
  BY DEF TypeInv, TypeOK
<1> QED BY <1>1, ReconLeft DEF ReconHere

\* Every step of a station keeps the reconciliations apart.
LEMMA StationRecon ==
  ASSUME TypeInv, OneRecon, NEW s \in Stations, StationStep(s)
  PROVE  OneRecon'
<1>0. jobs \in [Jobs -> JobType] /\ SessionsThere /\ link \in [Stations -> LinkStates]
  BY DEF TypeInv, TypeOK, LinkStates
<1>1. ASSUME NEW j \in Jobs, AttachComplete(s, j) PROVE OneRecon'
  <2>1. PICK r : jobs' = [jobs EXCEPT ![j] = r] /\ IsFresh(r, "snapshot", "trigger", NoStation)
    BY <1>1, StartTypes DEF AttachComplete, Started, PCs, Kinds
  <2>2. UNCHANGED link
    BY <1>1 DEF AttachComplete
  <2> QED BY <2>1, <2>2, ReconChanged DEF IsFresh
<1>2. ASSUME NEW j \in Jobs, DetachComplete(s, j) PROVE OneRecon'
  <2>1. jobs' = jobs \/ \E r : jobs' = [jobs EXCEPT ![j] = r] /\ IsFresh(r, "snapshot", "otaDetach", s)
    BY <1>2, StartTypes DEF DetachComplete, Started, PCs, Kinds
  <2>2. UNCHANGED link
    BY <1>2 DEF DetachComplete
  <2>3. CASE jobs' = jobs
    BY <2>2, <2>3 DEF OneRecon
  <2> QED BY <2>1, <2>2, <2>3, ReconChanged DEF IsFresh
<1>3. ASSUME NEW j \in Jobs, Reissue(s, j) PROVE OneRecon'
  <2>1. PICK r : jobs' = [jobs EXCEPT ![j] = r] /\ IsFresh(r, "attached", "reconcile", s)
    BY <1>3, StartTypes DEF Reissue, Started, PCs, Kinds
  <2>2. link' = [link EXCEPT ![s] = "live"] /\ link[s] = "reissuing"
    BY <1>3 DEF Reissue
  <2>3. \A k \in Jobs : jobs'[k] = IF k = j THEN r ELSE jobs[k]
    BY <1>0, <2>1
  <2>4. \A k \in Jobs : ~ReconHere(jobs[k], s)
    BY <2>2 DEF OneRecon
  <2>5. \A t \in Stations : link'[t] = IF t = s THEN "live" ELSE link[t]
    BY <1>0, <2>2
  <2>6. \A k \in Jobs, t \in Stations : ReconHere(jobs'[k], t) =>
          /\ link'[t] \in {"live", "broken"}
          /\ \A i \in Jobs : ReconHere(jobs'[i], t) => i = k
    <3>1. \A t \in Stations : ReconHere(r, t) => t = s
      BY <2>1 DEF IsFresh, ReconHere
    <3>2. ASSUME NEW k \in Jobs, NEW t \in Stations, ReconHere(jobs'[k], t)
          PROVE  (k = j /\ t = s) \/ (k # j /\ t # s /\ ReconHere(jobs[k], t))
      BY <2>3, <2>4, <3>1, <3>2
    <3> QED BY <2>5, <3>2 DEF OneRecon
  <2> QED BY <2>6 DEF OneRecon, ReconHere
<1>4. CASE Unregister(s)
  <2>1. /\ link' = [link EXCEPT ![s] = "removed"]
        /\ jobs' = [j \in Jobs |-> [jobs[j] EXCEPT !.targets = @ \ {s},
                                                  !.sess = IF jobs[j].cur = s /\ @ = "here" THEN "gone" ELSE @]]
    BY <1>4 DEF Unregister
  <2>2. ASSUME NEW j \in Jobs
        PROVE  /\ jobs'[j].cur = jobs[j].cur /\ jobs'[j].kind = jobs[j].kind
               /\ jobs'[j].sess = "here" => jobs[j].cur # s /\ jobs[j].sess = "here"
    BY <1>0, <2>1 DEF JobType
  <2> QED BY <1>0, <2>1, <2>2, ReconLeft DEF ReconHere
<1>5. CASE Activate(s)
  <2>1. link' = [link EXCEPT ![s] = "reissuing"] /\ link[s] = "offered"
    BY <1>5 DEF Activate
  <2>2. ASSUME NEW j \in Jobs
        PROVE  /\ jobs'[j].cur = jobs[j].cur /\ jobs'[j].kind = jobs[j].kind
               /\ jobs'[j].sess = "here" => jobs[j].sess = "here"
    <3>1. CASE resumed[s]
      BY <1>5, <3>1 DEF Activate
    <3>2. CASE ~resumed[s]
      <4>1. jobs'[j] = [jobs[j] EXCEPT !.sess = IF jobs[j].cur = s THEN "ended" ELSE @] /\ jobs[j] \in JobType
        BY <1>0, <1>5, <3>2 DEF Activate
      <4> QED BY <4>1 DEF JobType
    <3> QED BY <3>1, <3>2
  <2> QED BY <1>0, <2>1, <2>2, ReconLeft DEF ReconHere
<1>6. CASE jobs' = jobs /\ \A t \in Stations : link[t] \in {"live", "broken"} => link'[t] \in {"live", "broken"}
  BY <1>6, ReconLeft
<1>7. CASE Break(s) \/ MarkDisconnected(s) \/ Connect(s)
  BY <1>0, <1>6, <1>7 DEF Break, MarkDisconnected, Connect
<1> QED BY <1>1, <1>2, <1>3, <1>4, <1>5, <1>6, <1>7 DEF StationStep, Attach, Serve, ServeFails, DetachReported,
      Deliver, Refuse, linkVars

\* The steps of a propagation keep the reconciliations apart.
LEMMA JobRecon ==
  ASSUME TypeInv, OneRecon, NEW j \in Jobs, JobStep(j)
  PROVE  OneRecon'
<1>0. jobs[j] \in JobType
  BY DEF TypeInv, TypeOK
<1>00. link' = link
  BY DEF JobStep, AttachEndPoint, DetachEndPoint, ReadSession, ReadKey, Snapshot, ReadAttached, ReadDetached,
     Begin, Frame, SendFails, linkVars
<1>1. CASE AttachEndPoint(j)
  <2>1. PICK r : jobs' = [jobs EXCEPT ![j] = r] /\ IsFresh(r, "key", "attach", NoStation)
    BY <1>1, StartTypes DEF AttachEndPoint, Started, PCs, Kinds
  <2> QED BY <1>00, <2>1, ReconChanged DEF IsFresh
<1>2. CASE DetachEndPoint(j)
  <2>1. PICK r : jobs' = [jobs EXCEPT ![j] = r] /\ IsFresh(r, "snapshot", "detach", NoStation)
    BY <1>2, StartTypes DEF DetachEndPoint, Started, PCs, Kinds
  <2> QED BY <1>00, <2>1, ReconChanged DEF IsFresh
<1>3. CASE ReadSession(j) \/ ReadKey(j)
  <2>1. PICK r : jobs' = [jobs EXCEPT ![j] = r] /\ r.kind = jobs[j].kind /\ r.cur = jobs[j].cur /\ r.sess = jobs[j].sess
    BY <1>3, KeyReads
  <2> QED BY <1>00, <2>1, ReconChanged
<1>4. CASE ReadAttached(j)
  <2> DEFINE r == [jobs[j] EXCEPT !.pc = "missed", !.todo = IF AttachmentToSend(jobs[j].cur) THEN <<"key">> ELSE <<>>]
  <2>1. jobs' = [jobs EXCEPT ![j] = r]
    BY <1>4 DEF ReadAttached, Job
  <2>2. r.kind = jobs[j].kind /\ r.cur = jobs[j].cur /\ r.sess = jobs[j].sess
    BY <1>0 DEF JobType
  <2> HIDE DEF r
  <2> QED BY <1>00, <2>1, <2>2, ReconChanged
<1>5. ASSUME NEW r \in JobType, r.kind = jobs[j].kind, r.cur = jobs[j].cur, r.sess = jobs[j].sess,
             \E o \in Onward(r) : Job(j, o)
      PROVE  OneRecon'
  <2>1. PICK o \in Onward(r) : jobs' = [jobs EXCEPT ![j] = o]
    BY <1>5 DEF Job
  <2>2. o.kind = "reconcile" => o.kind = jobs[j].kind /\ o.cur = jobs[j].cur /\ o.sess = jobs[j].sess
    BY <1>5, OnwardFacts DEF Idle
  <2> QED BY <1>00, <2>1, <2>2, ReconChanged
<1>6. CASE Snapshot(j)
  <2> DEFINE r == [jobs[j] EXCEPT !.targets = Reached(jobs[j])]
  <2>1. r \in JobType
    BY <1>0, JobFields DEF Reached, Sendable
  <2>2. r.kind = jobs[j].kind /\ r.cur = jobs[j].cur /\ r.sess = jobs[j].sess
    BY <1>0 DEF JobType
  <2>3. \E o \in Onward(r) : Job(j, o)
    BY <1>6, Zenon DEF Snapshot
  <2> HIDE DEF r
  <2> QED BY <1>5, <2>1, <2>2, <2>3
<1>7. CASE ReadDetached(j)
  <2> DEFINE t == IF DetachedWhileAway(jobs[j].cur) THEN jobs[j].todo \o <<"begin">> ELSE jobs[j].todo
             r == [jobs[j] EXCEPT !.todo = t]
  <2>1. t \in Seq({"key", "begin"})
    <3>1. jobs[j].todo \in Seq({"key", "begin"}) /\ <<"begin">> \in Seq({"key", "begin"})
      BY <1>0, JobParts
    <3>2. jobs[j].todo \o <<"begin">> \in Seq({"key", "begin"})
      BY <3>1
    <3> QED BY <3>1, <3>2
  <2>2. r \in JobType
    BY <1>0, <2>1, JobFields
  <2>3. r.kind = jobs[j].kind /\ r.cur = jobs[j].cur /\ r.sess = jobs[j].sess
    BY <1>0 DEF JobType
  <2>4. \E o \in Onward(r) : Job(j, o)
    BY <1>7, Zenon DEF ReadDetached
  <2> HIDE DEF r
  <2> QED BY <1>5, <2>2, <2>3, <2>4
<1>8. CASE Job(j, Idle)
  <2>1. Idle.kind # "reconcile"
    BY DEF Idle
  <2> QED BY <1>00, <1>8, <2>1, ReconChanged DEF Job
<1>9. CASE \E o \in Onward(jobs[j]) : Job(j, o)
  BY <1>0, <1>5, <1>9
<1>10. CASE Job(j, [jobs[j] EXCEPT !.pc = "frame", !.op = lastOp[jobs[j].cur] + 1])
  <2> DEFINE r == [jobs[j] EXCEPT !.pc = "frame", !.op = lastOp[jobs[j].cur] + 1]
  <2>1. r.kind = jobs[j].kind /\ r.cur = jobs[j].cur /\ r.sess = jobs[j].sess
    BY <1>0 DEF JobType
  <2>2. jobs' = [jobs EXCEPT ![j] = r]
    BY <1>10 DEF Job
  <2> HIDE DEF r
  <2> QED BY <1>00, <2>1, <2>2, ReconChanged
<1> QED BY <1>1, <1>2, <1>3, <1>4, <1>6, <1>7, <1>8, <1>9, <1>10, Zenon DEF JobStep, Begin, Frame, SendFails

\* Every step keeps the reconciliations apart.
LEMMA ReconKept ==
  ASSUME TypeInv, OneRecon, Next
  PROVE  OneRecon'
<1>1. CASE Crash
  <2>1. jobs' = [j \in Jobs |-> Idle]
    BY <1>1 DEF Crash
  <2> QED BY <2>1, ReconLeft DEF ReconHere, Idle
<1> QED BY <1>1, StationRecon, JobRecon, NextCases

-----------------------------------------------------------------------------
(* No station is forgotten.                                                *)

\* The frames from the k-th on carry the decision in force.
InForceFrom(s, k) == \A i \in DOMAIN wire[s] : i >= k => wire[s][i].what = InForce(ep)

\* Whatever s has read when its connection is lost, it holds the decision in force.
Settles(s) == holds[s] = InForce(ep) /\ InForceFrom(s, 1)

\* What is pending is kept for the next resume, or about to be reissued.
Held(s) ==
  \/ link[s] \notin {"offered", "reissuing", "live"}
  \/ link[s] = "offered" /\ ~resumed[s]
  \/ link[s] \in {"offered", "reissuing"} /\ offer[s] # <<>>

\* The frame of the pending p is written, with nothing older behind it, or about to be.
Written(s, p) ==
  \/ \E k \in DOMAIN wire[s] : wire[s][k] = Propagate(p) /\ InForceFrom(s, k)
  \/ \E j \in Jobs : AtFrame(jobs[j], s) /\ RecordOf(jobs[j]) = p

Recorded(s) == \E p \in ToSet(journal[s]) : p.what = InForce(ep) /\ (Held(s) \/ Written(s, p))

\* The station's own det is answered, or will be reported again.
DetLost == [pc |-> "lost", what |-> Detach]
Answering(s) ==
  /\ InForce(ep) = Detach
  /\ \/ hear[s] = DetLost
     \/ \E k \in DOMAIN wire[s] : wire[s][k].kind = "rsp" /\ InForceFrom(s, k)

Assured(s) == Settles(s) \/ Recorded(s) \/ Answering(s)

\* What a reconciliation of s would send.
ToReconcile(s) == AttachmentToSend(s) \/ DetachedWhileAway(s)

\* A goroutine at p, for the present connection of s.
AtStage(r, s, p) == r.pc = p /\ r.cur = s /\ r.sess = "here"

\* A goroutine that will write a frame to s, or give it up.
Sends(r, s) ==
  \/ r.pc = "snapshot" /\ (r.cur # s \/ r.sess # "here")
  \/ r.pc \in {"key", "sign"} /\ r.kind = "attach"
  \/ s \in r.targets
  \/ \E p \in {"key", "sign", "begin", "frame"} : AtStage(r, s, p)
  \/ AtStage(r, s, "missed") /\ r.todo # <<>>

\* The same of a reconciliation, from what it has still to read.
Sending(s) ==
  \E j \in Jobs :
    \/ Sends(jobs[j], s)
    \/ AtStage(jobs[j], s, "attached") /\ ToReconcile(s)
    \/ AtStage(jobs[j], s, "missed") /\ DetachedWhileAway(s)

\* s will be told: by a goroutine, or when it connects again.
ToBeTold(s) ==
  \/ link[s] \in {"broken", "removed", "unresumable"}
  \/ link[s] = "down" /\ newer[s]
  \/ link[s] = "offered" /\ (resumed[s] => ToReconcile(s))
  \/ link[s] = "reissuing" /\ ToReconcile(s)
  \/ link[s] \in {"reissuing", "live"} /\ Sending(s)

Told(s) == lapsed[s] \/ stale[s] \/ Assured(s) \/ (owed[s] /\ ToBeTold(s))

\* While no telegram awaits its decision.
NoneForgotten == ~undecided => \A s \in Stations : Told(s)

LineInv == TypeInv /\ FlagsOK /\ NoOffer /\ OpsInv /\ AnswersMatch /\ OneRecon

\* The line to t, and what is said of it, stays.
SameLine(t) ==
  /\ ep' = ep
  /\ link'[t] = link[t] /\ wire'[t] = wire[t] /\ holds'[t] = holds[t]
  /\ journal'[t] = journal[t] /\ offer'[t] = offer[t]
  /\ resumed'[t] = resumed[t]
  /\ hear[t] = DetLost => hear'[t] = DetLost
FramesStay(t) ==
  \A j \in Jobs : AtFrame(jobs[j], t) => AtFrame(jobs'[j], t) /\ RecordOf(jobs'[j]) = RecordOf(jobs[j])
SameFlags(t) == newer'[t] = newer[t] /\ missed'[t] = missed[t]
SameGhosts(t) == owed'[t] = owed[t] /\ stale'[t] = stale[t] /\ (lapsed[t] => lapsed'[t])

\* What is assured stays so.
LEMMA AssuredStays ==
  ASSUME NEW t, SameLine(t), FramesStay(t), Assured(t)
  PROVE  Assured(t)'
<1>1. \A k : InForceFrom(t, k) => InForceFrom(t, k)'
  BY DEF SameLine, InForceFrom
<1>2. Settles(t) => Settles(t)'
  BY <1>1 DEF SameLine, Settles
<1>3. Held(t) => Held(t)'
  BY DEF SameLine, Held
<1>4. ASSUME NEW p, Written(t, p) PROVE Written(t, p)'
  <2>1. CASE \E k \in DOMAIN wire[t] : wire[t][k] = Propagate(p) /\ InForceFrom(t, k)
    BY <1>1, <2>1 DEF SameLine, Written, Propagate
  <2>2. ASSUME NEW j \in Jobs, AtFrame(jobs[j], t), RecordOf(jobs[j]) = p PROVE Written(t, p)'
    BY <2>2 DEF FramesStay, Written, AtFrame, RecordOf
  <2> QED BY <1>4, <2>1, <2>2 DEF Written
<1>5. Recorded(t) => Recorded(t)'
  BY <1>3, <1>4 DEF SameLine, Recorded, ToSet
<1>6. Answering(t) => Answering(t)'
  BY <1>1 DEF SameLine, Answering, DetLost
<1> QED BY <1>2, <1>5, <1>6 DEF Assured

\* What a reconciliation would send stays so.
LEMMA ReconcileStays ==
  ASSUME NEW t, ep' = ep, resumed'[t] = resumed[t], missed'[t] = missed[t]
  PROVE  (ToReconcile(t)' <=> ToReconcile(t)) /\ (DetachedWhileAway(t)' <=> DetachedWhileAway(t))
  BY DEF ToReconcile, AttachmentToSend, DetachedWhileAway

\* Whoever is told stays told.
LEMMA ToldStays ==
  ASSUME NEW t, SameLine(t), FramesStay(t), SameFlags(t), SameGhosts(t), Told(t),
         link[t] \in {"reissuing", "live"} /\ Sending(t) => Sending(t)'
  PROVE  Told(t)'
<1>1. Assured(t) => Assured(t)'
  BY AssuredStays
<1>2. (ToReconcile(t)' <=> ToReconcile(t))
  BY ReconcileStays DEF SameLine, SameFlags
<1>3. ToBeTold(t) => ToBeTold(t)'
  BY <1>2 DEF ToBeTold, SameLine, SameFlags
<1> QED BY <1>1, <1>3 DEF Told, SameGhosts

\* One goroutine's record is replaced, which was not at a frame for t ...
LEMMA FramesStayBut ==
  ASSUME TypeInv, NEW j \in Jobs, NEW r, jobs' = [jobs EXCEPT ![j] = r], NEW t, ~AtFrame(jobs[j], t)
  PROVE  FramesStay(t)
<1>1. \A i \in Jobs : jobs'[i] = IF i = j THEN r ELSE jobs[i]
  BY DEF TypeInv, TypeOK
<1> QED BY <1>1 DEF FramesStay

\* ... and which, if it was sending to t, still does.
LEMMA SendingStays ==
  ASSUME TypeInv, NEW j \in Jobs, NEW r, jobs' = [jobs EXCEPT ![j] = r], NEW t,
         ep' = ep, resumed'[t] = resumed[t], missed'[t] = missed[t],
         Sends(jobs[j], t) => Sends(r, t),
         AtStage(jobs[j], t, "attached") /\ ToReconcile(t) =>
           Sends(r, t) \/ AtStage(r, t, "attached") \/ (AtStage(r, t, "missed") /\ DetachedWhileAway(t)),
         AtStage(jobs[j], t, "missed") /\ DetachedWhileAway(t) =>
           Sends(r, t) \/ AtStage(r, t, "missed"),
         Sending(t)
  PROVE  Sending(t)'
<1>1. \A i \in Jobs : jobs'[i] = IF i = j THEN r ELSE jobs[i]
  BY DEF TypeInv, TypeOK
<1>2. (ToReconcile(t)' <=> ToReconcile(t)) /\ (DetachedWhileAway(t)' <=> DetachedWhileAway(t))
  BY ReconcileStays
<1>3. \E i \in Jobs :
        \/ Sends(jobs'[i], t)
        \/ AtStage(jobs'[i], t, "attached") /\ ToReconcile(t)
        \/ AtStage(jobs'[i], t, "missed") /\ DetachedWhileAway(t)
  BY <1>1 DEF Sending
<1>4. \E i \in Jobs :
        \/ Sends(jobs'[i], t)
        \/ AtStage(jobs'[i], t, "attached") /\ ToReconcile(t)'
        \/ AtStage(jobs'[i], t, "missed") /\ DetachedWhileAway(t)'
  BY <1>2, <1>3
<1>5. (\E i \in Jobs :
        \/ Sends(jobs[i], t)
        \/ AtStage(jobs[i], t, "attached") /\ ToReconcile(t)
        \/ AtStage(jobs[i], t, "missed") /\ DetachedWhileAway(t))'
  BY <1>4 DEF Sends, AtStage
<1> QED BY <1>5 DEF Sending

\* A goroutine that does nothing sends nothing.
LEMMA IdleSends ==
  ASSUME TypeInv, NEW j \in Jobs, jobs[j].pc = "idle", NEW t \in Stations
  PROVE  ~Sends(jobs[j], t) /\ \A p \in PCs \ {"idle"} : ~AtStage(jobs[j], t, p)
  BY DEF TypeInv, AllStaged, Staged, Sends, AtStage

\* A goroutine starts.
LEMMA StartStays ==
  ASSUME TypeInv, NEW j \in Jobs, NEW r, Started(j, r), NEW t \in Stations
  PROVE  /\ FramesStay(t)
         /\ ep' = ep /\ resumed'[t] = resumed[t] /\ missed'[t] = missed[t] /\ Sending(t) => Sending(t)'
<1>1. jobs[j].pc = "idle" /\ jobs' = [jobs EXCEPT ![j] = r]
  BY DEF Started, Free
<1>2. FramesStay(t)
  BY <1>1, FramesStayBut DEF AtFrame
<1>3. ~Sends(jobs[j], t) /\ ~AtStage(jobs[j], t, "attached") /\ ~AtStage(jobs[j], t, "missed")
  BY <1>1, IdleSends DEF PCs
<1> QED BY <1>1, <1>2, <1>3, SendingStays

\* No goroutine changes.
LEMMA SameJobs ==
  ASSUME jobs' = jobs, NEW t
  PROVE  /\ FramesStay(t)
         /\ ep' = ep /\ resumed'[t] = resumed[t] /\ missed'[t] = missed[t] /\ Sending(t) => Sending(t)'
<1>1. FramesStay(t)
  BY DEF FramesStay
<1>2. ASSUME ep' = ep, resumed'[t] = resumed[t], missed'[t] = missed[t], Sending(t)
      PROVE  Sending(t)'
  <2>1. (ToReconcile(t)' <=> ToReconcile(t)) /\ (DetachedWhileAway(t)' <=> DetachedWhileAway(t))
    BY <1>2, ReconcileStays
  <2> QED BY <1>2, <2>1 DEF Sending, Sends, AtStage
<1> QED BY <1>1, <1>2

\* A fan-out goes on with the sessions it has left, a reconciliation with its sends.
LEMMA OnwardSends ==
  ASSUME NEW r \in JobType, NEW o \in Onward(r), NEW t \in Stations,
         \/ r.kind # "reconcile" /\ t \in r.targets
         \/ r.kind = "reconcile" /\ r.cur = t /\ r.sess = "here" /\ r.todo # <<>>
  PROVE  Sends(o, t)
<1>1. CASE r.kind # "reconcile" /\ t \in r.targets
  <2>1. o # Idle /\ (o.cur = t \/ t \in o.targets)
    BY <1>1, OnwardFacts
  <2>2. o.sess = "here" /\ o.pc \in {"key", "begin"}
    BY <1>1, <2>1, OnwardFacts
  <2> QED BY <2>1, <2>2 DEF Sends, AtStage
<1>2. CASE r.kind = "reconcile" /\ r.cur = t /\ r.sess = "here" /\ r.todo # <<>>
  <2>1. o # Idle
    BY <1>2, OnwardFacts
  <2>2. o.cur = t /\ o.sess = "here" /\ o.pc \in {"key", "begin"}
    BY <1>2, <2>1, OnwardFacts
  <2> QED BY <2>2 DEF Sends, AtStage
<1> QED BY <1>1, <1>2

\* Beyond the sends of its present session and its snapshot, a goroutine only
\* sends to the sessions it has left.
LEMMA OnwardStays ==
  ASSUME TypeInv, NEW j \in Jobs, NEW o \in Onward(jobs[j]), Job(j, o), NEW t \in Stations,
         jobs[j].pc \in {"key", "sign", "begin", "frame"}, jobs[j].pc \in {"key", "sign"} => jobs[j].kind # "attach",
         ~(jobs[j].cur = t /\ jobs[j].sess = "here"),
         ep' = ep, resumed'[t] = resumed[t], missed'[t] = missed[t]
  PROVE  FramesStay(t) /\ (Sending(t) => Sending(t)')
<1>0. jobs[j] \in JobType /\ Staged(jobs[j]) /\ jobs' = [jobs EXCEPT ![j] = o]
  BY DEF TypeInv, TypeOK, AllStaged, Job
<1>1. FramesStay(t)
  BY <1>0, FramesStayBut DEF AtFrame
<1>2. Sends(jobs[j], t) => jobs[j].kind # "reconcile" /\ t \in jobs[j].targets
  BY <1>0 DEF Sends, AtStage, Staged
<1>3. Sends(jobs[j], t) => Sends(o, t)
  BY <1>0, <1>2, OnwardSends
<1>4. ~AtStage(jobs[j], t, "attached") /\ ~AtStage(jobs[j], t, "missed")
  BY DEF AtStage
<1> QED BY <1>0, <1>1, <1>3, <1>4, SendingStays

\* What the types say of one line.
LEMMA LineOf ==
  ASSUME TypeInv, FlagsOK, NEW s \in Stations
  PROVE  /\ hear[s] \in HearType /\ link[s] \in LinkStates
         /\ journal[s] \in Seq(RecordType) /\ offer[s] \in Seq(RecordType) /\ wire[s] \in Seq(FrameType)
         /\ holds[s] \in Contents
         /\ {resumed[s], newer[s], missed[s], owed[s], stale[s], lapsed[s]} \subseteq BOOLEAN
         /\ hear[s].pc = "open" <=> \E i \in DOMAIN wire[s] : wire[s][i].kind = "rsp"
         /\ \A i, k \in DOMAIN wire[s] : wire[s][i].kind = "rsp" /\ wire[s][k].kind = "rsp" => i = k
         /\ link[s] \notin {"reissuing", "live"} => wire[s] = <<>>
         /\ ep.status \in {"attached", "detached"} /\ ep.sign \in Keys
         /\ InForce(ep) \in Contents
<1>1. /\ hear[s] \in HearType /\ link[s] \in LinkStates
      /\ journal[s] \in Seq(RecordType) /\ offer[s] \in Seq(RecordType) /\ wire[s] \in Seq(FrameType)
      /\ holds[s] \in Contents
      /\ hear[s].pc = "open" <=> \E i \in DOMAIN wire[s] : wire[s][i].kind = "rsp"
      /\ link[s] \notin {"reissuing", "live"} => wire[s] = <<>>
  BY DEF TypeInv, TypeOK, LinkStates
<1>2. {resumed[s], newer[s], missed[s], owed[s], stale[s], lapsed[s]} \subseteq BOOLEAN
  BY DEF FlagsOK
<1>3. ep.status \in {"attached", "detached"} /\ ep.sign \in Keys
  BY DEF TypeInv, TypeOK
<1>4. InForce(ep) \in Contents
  BY <1>3, KeysApart DEF InForce
<1>5. \A i, k \in DOMAIN wire[s] : wire[s][i].kind = "rsp" /\ wire[s][k].kind = "rsp" => i = k
  BY DEF TypeInv, OneAnswer
<1> QED BY <1>1, <1>2, <1>3, <1>4, <1>5

\* The steps that only change what a station has open, or start a goroutine.
LEMMA QuietTold ==
  ASSUME LineInv, NEW s \in Stations, NEW t \in Stations, Told(t),
         \/ \E a \in Telegrams : Attach(s, a)
         \/ ServeFails(s)
         \/ Serve(s) /\ ~undecided'
         \/ \E j \in Jobs : AttachComplete(s, j) /\ UNCHANGED <<ep, newer, missed, owed>>
         \/ \E j \in Jobs : DetachComplete(s, j) /\ UNCHANGED <<ep, newer, missed, owed, stale, jobs>>
  PROVE  Told(t)'
<1>0. /\ TypeInv /\ FlagsOK /\ hear \in [Stations -> HearType]
      /\ ep.status \in {"attached", "detached"}
      /\ \A u \in Stations : owed[u] \in BOOLEAN
  BY DEF LineInv, TypeInv, TypeOK, FlagsOK
<1> DEFINE Quietly(h) == /\ ep' = ep /\ UNCHANGED <<link, wire, holds, journal, offer, resumed>>
                         /\ hear' = [hear EXCEPT ![s] = h]
                         /\ hear[s] # DetLost
                         /\ UNCHANGED <<newer, missed, owed, stale, lapsed>>
<1>1. ASSUME NEW h, Quietly(h),
             \/ jobs' = jobs
             \/ \E j \in Jobs : \E r : Started(j, r)
      PROVE  Told(t)'
  <2>1. SameLine(t)
    BY <1>0, <1>1 DEF SameLine
  <2>2. SameFlags(t) /\ SameGhosts(t)
    BY <1>1 DEF SameFlags, SameGhosts
  <2>3. FramesStay(t) /\ (Sending(t) => Sending(t)')
    BY <1>0, <1>1, StartStays, SameJobs
  <2> QED BY <2>1, <2>2, <2>3, ToldStays
<1>2. ASSUME NEW a \in Telegrams, Attach(s, a) PROVE Told(t)'
  <2> DEFINE h == IF AttachCounterAdvances(ep, a) THEN [pc |-> "checked", what |-> a] ELSE Quiet
  <2>1. UNCHANGED <<ep, link, wire, holds, journal, offer, resumed, newer, missed, owed, stale, lapsed, jobs>>
        /\ hear' = [hear EXCEPT ![s] = h]
    BY <1>2 DEF Attach, airVars, epVars, linkVars, prpGhosts
  <2>2. hear[s] # DetLost
    <3>1. CASE hear[s].pc = "idle"
      BY <3>1 DEF DetLost
    <3>2. CASE hear[s].pc = "lost" /\ hear[s].what = a
      BY <3>2, KeysApart DEF DetLost
    <3> QED BY <1>2, <3>1, <3>2 DEF Attach
  <2> HIDE DEF h
  <2> QED BY <1>1, <2>1, <2>2
<1>3. CASE ServeFails(s)
  <2>1. UNCHANGED <<ep, link, wire, holds, journal, offer, resumed, newer, missed, owed, stale, lapsed, jobs>>
        /\ hear' = [hear EXCEPT ![s] = Quiet] /\ hear[s] # DetLost
    BY <1>3 DEF ServeFails, DetLost, airVars, epVars, linkVars, prpGhosts
  <2> QED BY <1>1, <2>1
<1>4. CASE Serve(s) /\ ~undecided'
  <2>1. UNCHANGED <<ep, link, wire, holds, journal, offer, resumed, newer, missed, owed, stale, lapsed, jobs>>
        /\ hear' = [hear EXCEPT ![s] = Quiet] /\ hear[s] # DetLost
    <3>1. ~StillAdvances(ep, hear[s].what)
      BY <1>4, Zenon DEF Serve
    <3>2. /\ hear' = [hear EXCEPT ![s] = Quiet] /\ hear[s].pc = "checked"
          /\ UNCHANGED <<epVars, linkVars, wire, holds, stale, lapsed, owed, jobs>>
      BY <1>4, <3>1, Zenon DEF Serve
    <3> QED BY <3>2 DEF DetLost, epVars, linkVars
  <2> QED BY <1>1, <2>1
<1>5. ASSUME NEW j \in Jobs, AttachComplete(s, j), UNCHANGED <<ep, newer, missed, owed>> PROVE Told(t)'
  <2>1. UNCHANGED <<link, wire, holds, journal, offer, resumed, stale, lapsed>>
        /\ hear' = [hear EXCEPT ![s] = Quiet] /\ hear[s] # DetLost
    BY <1>5 DEF AttachComplete, DetLost, airVars
  <2>2. \E r : Started(j, r)
    BY <1>5 DEF AttachComplete
  <2> QED BY <1>1, <1>5, <2>1, <2>2
<1>6. ASSUME NEW j \in Jobs, DetachComplete(s, j), UNCHANGED <<ep, newer, missed, owed, stale, jobs>>
      PROVE  Told(t)'
  <2>1. UNCHANGED <<link, wire, holds, journal, offer, resumed, lapsed>>
        /\ hear' = [hear EXCEPT ![s] = Quiet] /\ hear[s] # DetLost
    BY <1>6 DEF DetachComplete, DetLost, airVars
  <2> QED BY <1>1, <1>6, <2>1
<1> QED BY <1>2, <1>3, <1>4, <1>5, <1>6

\* A decision owes it to every station, and a goroutine or the next connect of
\* each will tell it.
LEMMA DecidedTold ==
  ASSUME LineInv, NEW t \in Stations, NEW j \in Jobs, NEW r, Started(j, r), Sends(r, t),
         newer'[t], missed'[t] = resumed[t], resumed'[t] = resumed[t], owed'[t], link'[t] = link[t],
         ep'.status \in {"attached", "detached"}
  PROVE  Told(t)'
<1>1. link[t] \in LinkStates /\ resumed[t] \in BOOLEAN
  BY LineOf DEF LineInv
<1>2. ToReconcile(t)' \/ (~resumed[t] /\ ep'.status = "detached")
  BY <1>1 DEF ToReconcile, AttachmentToSend, DetachedWhileAway
<1>3. Sending(t)'
  <2>1. jobs'[j] = r
    BY DEF Started, LineInv, TypeInv, TypeOK
  <2>2. Sends(jobs'[j], t)
    BY <2>1
  <2>3. (Sends(jobs[j], t))'
    BY <2>2 DEF Sends, AtStage
  <2> QED BY <2>3 DEF Sending
<1>4. ToBeTold(t)'
  BY <1>1, <1>2, <1>3 DEF ToBeTold, LinkStates
<1> QED BY <1>4 DEF Told

\* An attach is decided: for the station that completed it, or by a call.
LEMMA AttachedTold ==
  ASSUME LineInv, NEW t \in Stations, NEW j \in Jobs,
         \/ \E s \in Stations : AttachComplete(s, j) /\ ep' = [ep EXCEPT !.status = "attached"] /\ Restated
         \/ AttachEndPoint(j)
  PROVE  Told(t)'
<1>0. ep \in [status : {"attached", "detached"}, sign : Keys]
  BY DEF LineInv, TypeInv, TypeOK
<1>1. /\ UNCHANGED <<resumed, link>> /\ Restated /\ ep' = [ep EXCEPT !.status = "attached"]
      /\ \E p \in {"key", "snapshot"}, k \in {"attach", "trigger"} :
           /\ p = "key" => k = "attach"
           /\ Started(j, [Idle EXCEPT !.pc = p, !.kind = k])
  BY DEF AttachComplete, AttachEndPoint
<1>2. PICK p \in {"key", "snapshot"}, k \in {"attach", "trigger"} :
        /\ p = "key" => k = "attach"
        /\ Started(j, [Idle EXCEPT !.pc = p, !.kind = k])
  BY <1>1
<1> DEFINE r == [Idle EXCEPT !.pc = p, !.kind = k]
<1>3. IsFresh(r, p, k, NoStation)
  BY StartTypes DEF PCs, Kinds
<1>4. Started(j, r)
  BY <1>2
<1> HIDE DEF r
<1>5. Sends(r, t)
  BY <1>2, <1>3, AttachmentAssumption DEF IsFresh, Sends
<1>6. newer'[t] /\ missed'[t] = resumed[t] /\ owed'[t]
  BY <1>1 DEF Restated, Stamped
<1>7. ep'.status = "attached"
  BY <1>0, <1>1
<1> QED BY <1>1, <1>4, <1>5, <1>6, <1>7, DecidedTold

\* A detach is decided: the stations that did not report it are to be told.
LEMMA DetachedTold ==
  ASSUME LineInv, NEW t \in Stations, NEW j \in Jobs, ep.status = "attached",
         \/ \E s \in Stations \ {t} : DetachComplete(s, j) /\ Detached(s)
                                      /\ Started(j, [Idle EXCEPT !.pc = "snapshot", !.kind = "otaDetach", !.cur = s])
         \/ DetachEndPoint(j)
  PROVE  Told(t)'
<1>0. ep \in [status : {"attached", "detached"}, sign : Keys]
  BY DEF LineInv, TypeInv, TypeOK
<1>1. ASSUME NEW s \in Stations \cup {NoStation}, t # s, Detached(s), UNCHANGED <<resumed, link>>, NEW k \in Kinds, NEW r,
             Started(j, r), IsFresh(r, "snapshot", k, s)
      PROVE  Told(t)'
  <2>1. Sends(r, t)
    BY <1>1 DEF IsFresh, Sends
  <2>2. newer'[t] /\ missed'[t] = resumed[t] /\ owed'[t] /\ ep' = [ep EXCEPT !.status = "detached"]
    BY <1>1 DEF Detached, Stamped
  <2>3. ep'.status = "detached"
    BY <1>0, <2>2
  <2> QED BY <1>1, <2>1, <2>2, <2>3, DecidedTold
<1>2. ASSUME NEW s \in Stations \ {t}, DetachComplete(s, j), Detached(s),
             Started(j, [Idle EXCEPT !.pc = "snapshot", !.kind = "otaDetach", !.cur = s])
      PROVE  Told(t)'
  <2> DEFINE r == [Idle EXCEPT !.pc = "snapshot", !.kind = "otaDetach", !.cur = s]
  <2>1. IsFresh(r, "snapshot", "otaDetach", s)
    BY StartTypes DEF PCs, Kinds
  <2>2. UNCHANGED <<resumed, link>>
    BY <1>2 DEF DetachComplete
  <2>3. Started(j, r)
    BY <1>2
  <2> HIDE DEF r
  <2> QED BY <1>1, <1>2, <2>1, <2>2, <2>3 DEF Kinds
<1>3. CASE DetachEndPoint(j)
  <2> DEFINE r == [Idle EXCEPT !.pc = "snapshot", !.kind = "detach"]
  <2>1. IsFresh(r, "snapshot", "detach", NoStation)
    BY StartTypes DEF PCs, Kinds
  <2>2. UNCHANGED <<resumed, link>> /\ Started(j, r) /\ Detached(NoStation)
    BY <1>3 DEF DetachEndPoint
  <2> HIDE DEF r
  <2> QED BY <1>1, <2>1, <2>2, AttachmentAssumption DEF Kinds
<1> QED BY <1>2, <1>3

\* The station that reported it holds nothing, or what it was last told leaves it nothing.
LEMMA ReporterTold ==
  ASSUME LineInv, NEW s \in Stations, NEW j \in Jobs, DetachComplete(s, j), Detached(s), ep.status = "attached"
  PROVE  Told(s)'
<1> DEFINE w == wire[s]
<1>0. /\ w \in Seq(FrameType) /\ \A i \in DOMAIN w : w[i].kind # "rsp"
      /\ stale \in [Stations -> BOOLEAN]
  <2>1. hear[s].pc = "answered"
    BY DEF DetachComplete
  <2> QED BY <2>1, LineOf DEF LineInv, FlagsOK
<1>1. /\ UNCHANGED <<wire, holds, link, journal, resumed, offer>>
      /\ ep' = [ep EXCEPT !.status = "detached"]
      /\ stale'[s] = ~LeftWithout(s)
  BY DEF DetachComplete, airVars, Detached
<1>2. InForce(ep)' = Detach
  BY <1>1 DEF InForce, LineInv, TypeInv, TypeOK
<1>3. CASE w = <<>> /\ holds[s] = Detach
  <2>1. Settles(s)'
    BY <1>1, <1>2, <1>3 DEF Settles, InForceFrom
  <2> QED BY <2>1 DEF Told, Assured
<1>4. CASE w # <<>> /\ Last(w).what = Detach /\ Pending(s, RecordOf(Last(w)))
  <2> DEFINE n == Len(w)
             f == w[n]
             p == RecordOf(f)
  <2>1. n \in DOMAIN w /\ Last(w) = f /\ f \in FrameType /\ n \in Nat /\ \A i \in DOMAIN w : i <= n
    <3> HIDE DEF w
    <3> QED BY <1>0, <1>4 DEF Last
  <2>2. f.kind = "prp" /\ f = Propagate(p)
    BY <1>0, <2>1 DEF FrameType, Propagate, RecordOf
  <2>3. InForceFrom(s, n)'
    <3>1. \A i \in DOMAIN w : i >= n => i = n
      <4>1. DOMAIN w = 1..Len(w)
        BY <1>0
      <4> QED BY <2>1, <4>1
    <3> QED BY <1>1, <1>2, <1>4, <2>1, <3>1 DEF InForceFrom
  <2>4. Written(s, p)'
    BY <1>1, <2>1, <2>2, <2>3 DEF Written, Propagate, RecordOf
  <2>5. p \in ToSet(journal[s]) /\ p.what = Detach
    BY <1>4, <2>1 DEF Pending, RecordOf
  <2>6. Recorded(s)'
    BY <1>1, <1>2, <2>4, <2>5 DEF Recorded, ToSet
  <2> QED BY <2>6 DEF Told, Assured
<1>5. CASE ~LeftWithout(s)
  BY <1>0, <1>1, <1>5 DEF Told
<1> QED BY <1>3, <1>4, <1>5 DEF LeftWithout

\* A reported det is answered with what leaves the station nothing.
LEMMA ReportedTold ==
  ASSUME LineInv, NEW s \in Stations, DetachReported(s), NEW t \in Stations, Told(t)
  PROVE  Told(t)'
<1>0. /\ TypeInv /\ hear \in [Stations -> HearType] /\ wire \in [Stations -> Seq(FrameType)]
      /\ stale \in [Stations -> BOOLEAN] /\ wire[s] \in Seq(FrameType)
  BY DEF LineInv, TypeInv, TypeOK, FlagsOK
<1>1. /\ UNCHANGED <<ep, link, holds, journal, offer, resumed, newer, missed, jobs, owed, lapsed>>
      /\ wire' = [wire EXCEPT ![s] = Append(@, Response(Detach))]
      /\ stale' = [stale EXCEPT ![s] = InForce(ep) # Detach]
      /\ hear' = [hear EXCEPT ![s] = [pc |-> "open", what |-> Detach]]
  BY DEF DetachReported, epVars, linkVars
<1>2. CASE t # s
  <2>1. SameLine(t) /\ SameFlags(t) /\ SameGhosts(t)
    BY <1>0, <1>1, <1>2 DEF SameLine, SameFlags, SameGhosts
  <2>2. FramesStay(t) /\ (Sending(t) => Sending(t)')
    BY <1>1, SameJobs
  <2> QED BY <2>1, <2>2, ToldStays
<1>3. CASE t = s /\ InForce(ep) # Detach
  BY <1>0, <1>1, <1>3 DEF Told
<1>4. CASE t = s /\ InForce(ep) = Detach
  <2> DEFINE w == wire[s]
             f == Response(Detach)
             v == Append(w, f)
             n == Len(w) + 1
  <2>1. f \in FrameType /\ f.what = Detach /\ f.kind = "rsp"
    BY FrameParts, KeysApart
  <2> HIDE DEF f
  <2>6. w \in Seq(FrameType) /\ DOMAIN w = 1..Len(w) /\ Len(w) \in Nat
    BY <1>0
  <2>7. n \in DOMAIN v /\ v[n] = f /\ \A i \in DOMAIN v : i \in DOMAIN w \/ i = n
    <3> HIDE DEF w
    <3> QED BY <2>1, <2>6, AppendAt
  <2>3. wire'[s] = v
    BY <1>0, <1>1 DEF f
  <2>4. InForce(ep)' = Detach
    BY <1>1, <1>4 DEF InForce
  <2> HIDE DEF v
  <2>2. \A i \in DOMAIN v : i >= n => i = n
    BY <2>6, <2>7
  <2> HIDE DEF n, w
  <2>9. PICK k \in DOMAIN v : k = n
    BY <2>7
  <2>5. InForceFrom(s, k)'
    BY <2>1, <2>2, <2>3, <2>4, <2>7, <2>9 DEF InForceFrom
  <2>8. Answering(s)'
    BY <2>1, <2>3, <2>4, <2>5, <2>7, <2>9 DEF Answering
  <2> QED BY <1>4, <2>8 DEF Told, Assured
<1> QED BY <1>2, <1>3, <1>4

\* What is on record for a live session is written, or about to be.
LEMMA LiveRecorded ==
  ASSUME NEW s, link[s] = "live" \/ (link[s] = "reissuing" /\ offer[s] = <<>>), Recorded(s)
  PROVE  \E p \in ToSet(journal[s]) : p.what = InForce(ep) /\ Written(s, p)
  BY DEF Recorded, Held

\* What a resumed session is offered is written, the newest last.
LEMMA ReissueTold ==
  ASSUME LineInv, NEW s \in Stations, NEW j \in Jobs, Reissue(s, j), NEW t \in Stations, Told(t)
  PROVE  Told(t)'
<1> DEFINE w  == wire[s]
           of == offer[s]
           u  == [i \in DOMAIN of |-> Propagate(of[i])]
           v  == w \o u
           r  == [Idle EXCEPT !.pc = "attached", !.kind = "reconcile", !.cur = s]
<1>0. /\ TypeInv /\ wire \in [Stations -> Seq(FrameType)] /\ offer \in [Stations -> Seq(RecordType)]
      /\ link \in [Stations -> LinkStates] /\ stale \in [Stations -> BOOLEAN]
      /\ w \in Seq(FrameType) /\ of \in Seq(RecordType)
  BY DEF LineInv, TypeInv, TypeOK, FlagsOK, LinkStates
<1>1. /\ UNCHANGED <<ep, hear, holds, journal, resumed, newer, missed, owed, lapsed>>
      /\ link[s] = "reissuing" /\ link' = [link EXCEPT ![s] = "live"]
      /\ wire' = [wire EXCEPT ![s] = v] /\ offer' = [offer EXCEPT ![s] = <<>>]
      /\ stale' = IF of = <<>> THEN stale
                  ELSE [stale EXCEPT ![s] = ~(Last(of).what = InForce(ep) /\ Pending(s, Last(of)))]
      /\ Started(j, r)
  BY <1>0 DEF Reissue, epVars
<1>2. FramesStay(t) /\ (Sending(t) => Sending(t)')
  BY <1>0, <1>1, StartStays
<1>3. CASE t # s
  <2>1. SameLine(t) /\ SameFlags(t) /\ SameGhosts(t)
    BY <1>0, <1>1, <1>3 DEF SameLine, SameFlags, SameGhosts
  <2> QED BY <1>2, <2>1, ToldStays
<1>4. CASE t = s /\ of = <<>>
  <2>1. v = w
    <3>1. u = <<>>
      BY <1>4
    <3> HIDE DEF u, w
    <3> QED BY <1>0, <3>1
  <2> HIDE DEF v
  <2>2. wire'[s] = wire[s] /\ link'[s] = "live" /\ stale' = stale /\ InForce(ep)' = InForce(ep)
    BY <1>0, <1>1, <1>4, <2>1 DEF InForce
  <2>3. \A k : InForceFrom(s, k) => InForceFrom(s, k)'
    BY <2>2 DEF InForceFrom
  <2>4. Settles(s) => Settles(s)'
    BY <1>1, <2>2, <2>3 DEF Settles
  <2>5. Answering(s) => Answering(s)'
    BY <1>1, <2>2, <2>3 DEF Answering, DetLost
  <2>6. \A p : Written(s, p) => Written(s, p)'
    <3>1. ASSUME NEW p, NEW i \in Jobs, AtFrame(jobs[i], s), RecordOf(jobs[i]) = p PROVE Written(s, p)'
      BY <1>2, <1>4, <3>1 DEF FramesStay, Written, AtFrame, RecordOf
    <3>2. ASSUME NEW p, \E k \in DOMAIN wire[s] : wire[s][k] = Propagate(p) /\ InForceFrom(s, k) PROVE Written(s, p)'
      BY <2>2, <2>3, <3>2 DEF Written, Propagate
    <3> QED BY <3>1, <3>2 DEF Written
  <2>7. Recorded(s) => Recorded(s)'
    <3>1. ASSUME Recorded(s) PROVE \E p \in ToSet(journal[s]) : p.what = InForce(ep) /\ Written(s, p)
      BY <1>1, <1>4, <3>1, LiveRecorded
    <3> QED BY <1>1, <2>2, <2>6, <3>1 DEF Recorded, ToSet
  <2>8. ToBeTold(s) => ToBeTold(s)'
    <3>1. ASSUME ToReconcile(s) PROVE Sending(s)'
      <4>1. IsFresh(r, "attached", "reconcile", s)
        BY StartTypes DEF PCs, Kinds
      <4>2. jobs'[j] = r
        BY <1>0, <1>1 DEF Started, TypeInv, TypeOK
      <4>3. AtStage(jobs'[j], s, "attached")
        BY <4>1, <4>2 DEF IsFresh, AtStage
      <4>4. ToReconcile(s)'
        BY <1>1, <3>1, ReconcileStays
      <4> QED BY <4>3, <4>4 DEF Sending, AtStage
    <3> QED BY <1>1, <1>2, <1>4, <2>2, <3>1 DEF ToBeTold
  <2> QED BY <1>1, <1>4, <2>2, <2>4, <2>5, <2>7, <2>8 DEF Told, Assured
<1>5. CASE t = s /\ of # <<>>
  <2> DEFINE p == Last(of)
             n == Len(w) + Len(of)
  <2>1. Len(of) \in DOMAIN of /\ p = of[Len(of)] /\ p \in RecordType
    <3> HIDE DEF of
    <3> QED BY <1>0, <1>5 DEF Last
  <2>2. u \in Seq(FrameType) /\ DOMAIN u = DOMAIN of
    <3>1. \A i \in DOMAIN of : u[i] \in FrameType
      BY <1>0, FrameParts
    <3>2. DOMAIN of = 1..Len(of) /\ Len(of) \in Nat /\ DOMAIN u = DOMAIN of
      BY <1>0
    <3>3. u \in [1..Len(of) -> FrameType]
      BY <3>1, <3>2
    <3> QED BY <3>2, <3>3
  <2>3. u[Len(of)] = Propagate(p)
    BY <2>1
  <2> HIDE DEF u
  <2>4. n \in DOMAIN v /\ v[n] = Propagate(p)
    <3>1. w \in Seq(FrameType) /\ u \in Seq(FrameType) /\ Len(of) \in DOMAIN u
      BY <1>0, <2>1, <2>2
    <3> HIDE DEF w, of, p
    <3> QED BY <2>3, <3>1, ConcatAt
  <2>5. \A i \in DOMAIN v : i >= n => i = n
    <3>1. Len(u) = Len(of) /\ Len(w) \in Nat /\ Len(of) \in Nat
      BY <1>0, <2>2
    <3>2. DOMAIN v = 1..(Len(w) + Len(u))
      <4>1. w \in Seq(FrameType) /\ u \in Seq(FrameType)
        BY <1>0, <2>2
      <4> HIDE DEF w
      <4> QED BY <4>1
    <3> HIDE DEF v, w, of, p
    <3> QED BY <3>1, <3>2
  <2> HIDE DEF v, n
  <2>6. wire'[s] = v /\ stale'[s] = ~(p.what = InForce(ep) /\ Pending(s, p)) /\ InForce(ep)' = InForce(ep)
    BY <1>0, <1>1, <1>5 DEF InForce
  <2>7. PICK q \in RecordType : q = p
    BY <2>1
  <2>8. PICK k \in DOMAIN v : k = n
    BY <2>4
  <2>9. ASSUME q.what = InForce(ep), q \in ToSet(journal[s]) PROVE Recorded(s)'
    <3>1. InForceFrom(s, k)'
      BY <2>4, <2>5, <2>6, <2>7, <2>8, <2>9 DEF InForceFrom, Propagate
    <3>2. Written(s, q)'
      BY <2>4, <2>6, <2>7, <2>8, <3>1 DEF Written, Propagate
    <3> QED BY <1>1, <2>6, <2>9, <3>2 DEF Recorded, ToSet
  <2>10. stale'[s] \/ Recorded(s)'
    <3>1. CASE p.what = InForce(ep) /\ Pending(s, p)
      BY <2>7, <2>9, <3>1 DEF Pending
    <3> QED BY <2>6, <3>1
  <2> QED BY <1>5, <2>10 DEF Told, Assured
<1> QED BY <1>3, <1>4, <1>5

\* A record taken out is another frame's.
LEMMA OthersStay ==
  ASSUME TypeInv, NEW s \in Stations, NEW e, journal' = Settled(s, e),
         NEW p \in ToSet(journal[s]), p # e
  PROVE  p \in ToSet(journal[s])'
<1>1. journal[s] \in Seq(RecordType) /\ journal' = [journal EXCEPT ![s] = RemoveFirst(@, e)]
      /\ journal \in [Stations -> Seq(RecordType)]
  BY DEF TypeInv, TypeOK, Settled
<1>2. journal'[s] = RemoveFirst(journal[s], e)
  BY <1>1
<1>3. p \in ToSet(RemoveFirst(journal[s], e))
  BY <1>1, ApartRemove
<1> QED BY <1>2, <1>3 DEF ToSet

\* The station takes a frame: the record that is removed is that frame's, not
\* that of a newer one still to come.
LEMMA DeliverTold ==
  ASSUME LineInv, NEW s \in Stations, Deliver(s), NEW t \in Stations, Told(t)
  PROVE  Told(t)'
<1> DEFINE w == wire[s]
           v == Tail(w)
           f == Head(w)
           F == InForce(ep)
<1>0. /\ TypeInv /\ wire \in [Stations -> Seq(FrameType)] /\ hear \in [Stations -> HearType]
      /\ journal \in [Stations -> Seq(RecordType)] /\ holds \in [Stations -> Contents]
      /\ w \in Seq(FrameType) /\ hear[s] \in HearType
  BY DEF LineInv, TypeInv, TypeOK
<1>1. /\ UNCHANGED <<ep, link, offer, resumed, newer, missed, jobs, owed, stale, lapsed>>
      /\ link[s] = "live" /\ w # <<>>
      /\ wire' = [wire EXCEPT ![s] = v] /\ holds' = [holds EXCEPT ![s] = f.what]
      /\ IF f.kind = "rsp" THEN journal' = journal /\ hear' = [hear EXCEPT ![s].pc = "answered"]
                           ELSE journal' = Settled(s, RecordOf(f)) /\ hear' = hear
  BY DEF Deliver, epVars, prpGhosts
<1>2. FramesStay(t) /\ (Sending(t) => Sending(t)')
  BY <1>1, SameJobs
<1>3. CASE t # s
  <2>1. hear'[t] = hear[t] /\ journal'[t] = journal[t]
    BY <1>0, <1>1, <1>3 DEF Settled
  <2>2. SameLine(t) /\ SameFlags(t) /\ SameGhosts(t)
    BY <1>0, <1>1, <1>3, <2>1 DEF SameLine, SameFlags, SameGhosts
  <2> QED BY <1>2, <2>2, ToldStays
<1>4. CASE t = s
  <2>1. /\ f \in FrameType /\ 1 \in DOMAIN w /\ f = w[1]
        /\ \A i \in DOMAIN v : i \in Nat /\ i + 1 \in DOMAIN w /\ i + 1 # 1 /\ v[i] = w[i + 1]
        /\ \A i \in DOMAIN w \ {1} : i \in Nat /\ i - 1 \in DOMAIN v /\ v[i - 1] = w[i]
    <3>1. w \in Seq(FrameType) /\ w # <<>>
      BY <1>0, <1>1
    <3> HIDE DEF w
    <3> QED BY <3>1, TailAt
  <2>2. wire'[s] = v /\ holds'[s] = f.what /\ F' = F
    BY <1>0, <1>1 DEF InForce
  <2>3. DOMAIN w = 1..Len(w) /\ Len(w) \in Nat
    BY <1>0
  <2> HIDE DEF v, f
  <2>4. ASSUME InForceFrom(s, 1) PROVE Settles(s)'
    <3>1. f.what = F /\ \A i \in DOMAIN v : v[i].what = F
      BY <2>1, <2>3, <2>4 DEF InForceFrom
    <3> QED BY <2>2, <3>1 DEF Settles, InForceFrom
  <2>5. ASSUME NEW k \in DOMAIN w \ {1}, InForceFrom(s, k)
        PROVE  k - 1 \in DOMAIN v /\ v[k - 1] = w[k] /\ InForceFrom(s, k - 1)'
    <3>0. k \in Nat
      BY <2>1
    <3>1. ASSUME NEW i \in DOMAIN v, i >= k - 1 PROVE v[i].what = F
      <4>1. i \in Nat /\ i + 1 \in DOMAIN w /\ v[i] = w[i + 1]
        BY <2>1
      <4>2. i + 1 >= k
        BY <3>0, <3>1, <4>1
      <4> QED BY <2>5, <4>1, <4>2 DEF InForceFrom
    <3>2. k - 1 \in DOMAIN v /\ v[k - 1] = w[k]
      BY <2>1
    <3> QED BY <2>2, <3>1, <3>2 DEF InForceFrom
  <2>6. ASSUME Answering(s) PROVE Assured(s)'
    <3>1. CASE hear[s] = DetLost
      <4>1. hear[s].pc = "lost"
        BY <3>1 DEF DetLost
      <4>2. f.kind # "rsp"
        BY <1>0, <2>1, <4>1 DEF TypeInv, TypeOK
      <4> QED BY <1>1, <2>2, <2>6, <3>1, <4>2 DEF Answering, Assured, DetLost
    <3>2. ASSUME NEW k \in DOMAIN w, w[k].kind = "rsp", InForceFrom(s, k) PROVE Assured(s)'
      <4>1. CASE k = 1
        BY <2>4, <3>2, <4>1 DEF Assured
      <4>2. CASE k # 1
        <5>1. k - 1 \in DOMAIN v /\ v[k - 1].kind = "rsp" /\ InForceFrom(s, k - 1)'
          BY <2>5, <3>2, <4>2
        <5> QED BY <2>2, <2>6, <5>1 DEF Answering, Assured
      <4> QED BY <4>1, <4>2
    <3> QED BY <2>6, <3>1, <3>2 DEF Answering
  <2>7. ASSUME NEW p \in ToSet(journal[s]), p.what = F, Written(s, p) PROVE Assured(s)'
    <3>0. p \in RecordType
      BY <1>0, <2>7 DEF ToSet
    <3>p. Propagate(p).kind = "prp" /\ Propagate(p).op = p.op /\ RecordOf(f).op = f.op
      BY <2>1, <3>0, FrameParts
    <3>1. ASSUME f.kind = "prp" => f.op # p.op PROVE p \in ToSet(journal[s])'
      <4>1. CASE f.kind = "rsp"
        BY <1>1, <4>1, <2>7 DEF ToSet
      <4>2. CASE f.kind # "rsp"
        <5>1. f.kind = "prp"
          BY <2>1, <4>2 DEF FrameType
        <5>2. p # RecordOf(f)
          BY <3>p, <3>1, <5>1
        <5> QED BY <1>0, <1>1, <2>7, <4>2, <5>2, OthersStay
      <4> QED BY <4>1, <4>2
    <3>2. ASSUME NEW k \in DOMAIN w, w[k] = Propagate(p), InForceFrom(s, k) PROVE Assured(s)'
      <4>1. CASE k = 1
        BY <2>4, <3>2, <4>1 DEF Assured
      <4>2. CASE k # 1
        <5>1. k - 1 \in DOMAIN v /\ v[k - 1] = Propagate(p) /\ InForceFrom(s, k - 1)'
          BY <2>5, <3>2, <4>2
        <5>2. f.kind = "prp" => f.op # p.op
          BY <2>1, <3>p, <3>2, <4>2, OpsOf DEF PrpApart, LineInv
        <5>3. p \in ToSet(journal[s])'
          BY <3>1, <5>2
        <5>4. Written(s, p)'
          BY <2>2, <5>1 DEF Written, Propagate
        <5> QED BY <2>2, <2>7, <5>3, <5>4 DEF Recorded, Assured
      <4> QED BY <4>1, <4>2
    <3>3. ASSUME NEW j \in Jobs, AtFrame(jobs[j], s), RecordOf(jobs[j]) = p PROVE Assured(s)'
      <4>1. jobs[j].op = p.op
        BY <3>3 DEF RecordOf
      <4>2. f.kind = "prp" => f.op # p.op
        BY <2>1, <3>3, <4>1, OpsOf DEF FrameOps, LineInv
      <4>3. p \in ToSet(journal[s])'
        BY <3>1, <4>2
      <4>4. Written(s, p)'
        BY <1>1, <3>3 DEF Written, AtFrame, RecordOf
      <4> QED BY <2>2, <2>7, <4>3, <4>4 DEF Recorded, Assured
    <3> QED BY <2>7, <3>2, <3>3 DEF Written
  <2>8. Recorded(s) => Assured(s)'
    BY <1>1, <2>7, LiveRecorded
  <2>9. Settles(s) => Assured(s)'
    BY <2>4 DEF Settles, Assured
  <2>10. ToBeTold(s) => ToBeTold(s)'
    BY <1>1, <1>2, <1>4 DEF ToBeTold
  <2> QED BY <1>1, <1>4, <2>6, <2>8, <2>9, <2>10 DEF Told, Assured
<1> QED BY <1>3, <1>4

\* What a connection that is lost leaves the station: the frames it has read.
\* Its own det is then answered, or will be reported again.
LEMMA LostAssured ==
  ASSUME LineInv, NEW s \in Stations, NEW n \in 0..Len(wire[s]), NEW d \in BOOLEAN,
         holds'[s] = After(s, n), hear'[s] = Interrupted(s, n, d), wire'[s] = <<>>, ep' = ep,
         Settles(s) \/ Answering(s)
  PROVE  Assured(s)'
<1> DEFINE w == wire[s]
           F == InForce(ep)
<1>0. /\ w \in Seq(FrameType) /\ DOMAIN w = 1..Len(w) /\ Len(w) \in Nat
      /\ hear[s] \in HearType
      /\ hear[s].pc = "open" <=> \E i \in DOMAIN w : w[i].kind = "rsp"
      /\ \A i, k \in DOMAIN w : w[i].kind = "rsp" /\ w[k].kind = "rsp" => i = k
      /\ RspOf(hear[s], w)
  BY LineOf DEF LineInv, AnswersMatch
<1>1. F' = F
  BY DEF InForce
<1>2. ASSUME holds'[s] = F PROVE Assured(s)'
  BY <1>1, <1>2 DEF Assured, Settles, InForceFrom
<1>3. CASE Settles(s)
  <2>1. CASE n = 0
    BY <1>2, <1>3, <2>1 DEF Settles, After
  <2>2. CASE n # 0
    <3>1. n \in DOMAIN w /\ n >= 1
      BY <1>0, <2>2
    <3> QED BY <1>2, <1>3, <2>2, <3>1 DEF Settles, InForceFrom, After
  <2> QED BY <2>1, <2>2
<1>4. CASE Answering(s)
  <2>0. F = Detach
    BY <1>4 DEF Answering
  <2>1. CASE hear[s] = DetLost
    <3>1. hear'[s] = DetLost
      BY <2>1 DEF Interrupted, DetLost
    <3> QED BY <1>1, <2>0, <3>1 DEF Assured, Answering, DetLost
  <2>2. ASSUME NEW k \in DOMAIN w, w[k].kind = "rsp", InForceFrom(s, k) PROVE Assured(s)'
    <3>1. hear[s].pc = "open" /\ w[k].what = hear[s].what /\ k \in Nat /\ k >= 1 /\ w[k].what = F
      BY <1>0, <2>2 DEF RspOf, InForceFrom
    <3>2. CASE k <= n
      <4>1. n \in DOMAIN w /\ n >= k /\ n # 0
        BY <1>0, <3>1, <3>2
      <4> QED BY <1>2, <2>2, <4>1 DEF InForceFrom, After
    <3>3. CASE ~(k <= n)
      <4>1. ~Answered(s, n)
        <5>1. ASSUME NEW i \in 1..n, w[i].kind = "rsp" PROVE FALSE
          <6>1. i \in DOMAIN w /\ i <= n
            BY <1>0, <5>1
          <6> QED BY <1>0, <2>2, <3>3, <5>1, <6>1
        <5> QED BY <5>1 DEF Answered
      <4>2. hear'[s] = DetLost
        BY <1>0, <2>0, <3>1, <4>1 DEF Interrupted, DetLost, HearType
      <4> QED BY <1>1, <2>0, <4>2 DEF Assured, Answering, DetLost
    <3> QED BY <3>2, <3>3
  <2> QED BY <1>4, <2>1, <2>2 DEF Answering
<1> QED BY <1>3, <1>4

\* What is on record is kept while the station is away.
LEMMA AwayRecorded ==
  ASSUME NEW s, Recorded(s), ep' = ep, journal'[s] = journal[s],
         link'[s] \in {"broken", "removed", "down", "unresumable"}
  PROVE  Assured(s)'
<1>1. InForce(ep)' = InForce(ep)
  BY DEF InForce
<1>2. Held(s)'
  BY DEF Held
<1> QED BY <1>1, <1>2 DEF Recorded, Assured, ToSet

\* A connection breaks.
LEMMA BreakTold ==
  ASSUME LineInv, NEW s \in Stations, Break(s), NEW t \in Stations, Told(t)
  PROVE  Told(t)'
<1>0. /\ TypeInv /\ wire \in [Stations -> Seq(FrameType)] /\ hear \in [Stations -> HearType]
      /\ holds \in [Stations -> Contents] /\ link \in [Stations -> LinkStates]
  BY DEF LineInv, TypeInv, TypeOK, LinkStates
<1>1. PICK n \in 0..Len(wire[s]) :
        holds' = [holds EXCEPT ![s] = After(s, n)] /\ hear' = [hear EXCEPT ![s] = Interrupted(s, n, FALSE)]
  BY DEF Break
<1>2. /\ UNCHANGED <<ep, journal, offer, resumed, newer, missed, jobs, owed, stale, lapsed>>
      /\ link' = [link EXCEPT ![s] = "broken"] /\ wire' = [wire EXCEPT ![s] = <<>>]
  BY DEF Break, epVars, prpGhosts
<1>3. CASE t # s
  <2>1. SameLine(t) /\ SameFlags(t) /\ SameGhosts(t)
    BY <1>0, <1>1, <1>2, <1>3 DEF SameLine, SameFlags, SameGhosts
  <2>2. FramesStay(t) /\ (Sending(t) => Sending(t)')
    BY <1>2, SameJobs
  <2> QED BY <2>1, <2>2, ToldStays
<1>4. CASE t = s
  <2>1. link'[s] = "broken" /\ wire'[s] = <<>> /\ holds'[s] = After(s, n) /\ hear'[s] = Interrupted(s, n, FALSE)
    BY <1>0, <1>1, <1>2
  <2>2. Recorded(s) => Assured(s)'
    BY <1>2, <2>1, AwayRecorded
  <2>3. Settles(s) \/ Answering(s) => Assured(s)'
    BY <1>2, <2>1, LostAssured
  <2>4. ToBeTold(s)'
    BY <2>1 DEF ToBeTold
  <2> QED BY <1>2, <1>4, <2>2, <2>3, <2>4 DEF Told, Assured
<1> QED BY <1>3, <1>4

\* The process dies.
LEMMA CrashTold ==
  ASSUME LineInv, Crash, NEW t \in Stations, Told(t)
  PROVE  Told(t)'
<1>0. /\ TypeInv /\ FlagsOK /\ wire[t] \in Seq(FrameType) /\ Len(wire[t]) \in Nat
      /\ link \in [Stations -> LinkStates] /\ link[t] \in LinkStates
  BY DEF LineInv, TypeInv, TypeOK, LinkStates
<1> DEFINE up == {s \in Stations : link[s] \notin {"down", "unresumable"}}
<1>1. /\ UNCHANGED <<ep, journal, owed, stale>>
      /\ link'[t] = IF t \in up THEN "down" ELSE link[t]
      /\ wire'[t] = <<>>
  BY DEF Crash, epVars
<1>2. \E n \in 0..Len(wire[t]) : holds'[t] = After(t, n) /\ hear'[t] = Interrupted(t, n, TRUE)
  <2>1. PICK n \in [Stations -> 0..Max({Len(wire[s]) : s \in Stations})] :
          /\ \A s \in Stations : n[s] <= Len(wire[s])
          /\ holds' = [s \in Stations |-> After(s, n[s])]
          /\ hear' = [s \in Stations |-> Interrupted(s, n[s], TRUE)]
    BY DEF Crash
  <2>2. holds'[t] = After(t, n[t]) /\ hear'[t] = Interrupted(t, n[t], TRUE)
    BY <2>1
  <2>3. n[t] \in 0..Len(wire[t])
    <3>1. \A m : \A i \in 0..m : i \in Int /\ i >= 0
      OBVIOUS
    <3>2. n[t] \in Int /\ n[t] >= 0 /\ n[t] <= Len(wire[t])
      BY <2>1, <3>1
    <3> QED BY <1>0, <3>2
  <2> QED BY <2>2, <2>3
<1>3. PICK n \in 0..Len(wire[t]) : holds'[t] = After(t, n) /\ hear'[t] = Interrupted(t, n, TRUE)
  BY <1>2
<1>5. PICK touched \in SUBSET up :
        /\ newer' = [s \in Stations |-> newer[s] /\ s \notin touched]
        /\ lapsed' = [s \in Stations |-> lapsed[s] \/ (s \in up /\ owed[s] /\ ~newer'[s])]
  BY DEF Crash
<1>6. /\ newer'[t] = (newer[t] /\ t \notin touched)
      /\ lapsed'[t] = (lapsed[t] \/ (t \in up /\ owed[t] /\ ~newer'[t]))
  BY <1>5
<1>7. Recorded(t) => Assured(t)'
  BY <1>0, <1>1, AwayRecorded DEF LinkStates
<1>8. Settles(t) \/ Answering(t) => Assured(t)'
  BY <1>1, <1>3, LostAssured
<1>9. owed[t] /\ ToBeTold(t) => lapsed'[t] \/ (owed'[t] /\ ToBeTold(t)')
  <2>1. CASE t \in up
    BY <1>1, <1>6, <2>1 DEF ToBeTold
  <2>2. CASE t \notin up
    <3>1. t \notin touched /\ link[t] \in {"down", "unresumable"} /\ link'[t] = link[t]
      BY <1>1, <1>5, <2>2
    <3> QED BY <1>1, <1>6, <3>1 DEF ToBeTold
  <2> QED BY <2>1, <2>2
<1> QED BY <1>1, <1>6, <1>7, <1>8, <1>9 DEF Told, Assured

\* A refused propagation is given up.
LEMMA RefuseTold ==
  ASSUME LineInv, NEW s \in Stations, Refuse(s), NEW t \in Stations, Told(t)
  PROVE  Told(t)'
<1>0. /\ TypeInv /\ wire \in [Stations -> Seq(FrameType)] /\ lapsed \in [Stations -> BOOLEAN]
  BY DEF LineInv, TypeInv, TypeOK, FlagsOK
<1>1. /\ UNCHANGED <<ep, hear, link, holds, journal, offer, resumed, newer, missed, jobs, owed, stale>>
      /\ wire' = [wire EXCEPT ![s] = Tail(@)] /\ lapsed' = [lapsed EXCEPT ![s] = TRUE]
  BY DEF Refuse, epVars, linkVars
<1>2. CASE t # s
  <2>1. SameLine(t) /\ SameFlags(t) /\ SameGhosts(t)
    BY <1>0, <1>1, <1>2 DEF SameLine, SameFlags, SameGhosts
  <2>2. FramesStay(t) /\ (Sending(t) => Sending(t)')
    BY <1>1, SameJobs
  <2> QED BY <2>1, <2>2, ToldStays
<1>3. CASE t = s
  BY <1>0, <1>1, <1>3 DEF Told
<1> QED BY <1>2, <1>3

\* A goroutine's record, for the sessions other than the one it loses.
Keeps(r, o, t) ==
  /\ o.pc = r.pc /\ o.cur = r.cur /\ o.kind = r.kind
  /\ o.op = r.op /\ o.what = r.what /\ o.todo = r.todo
  /\ t \in r.targets => t \in o.targets
  /\ r.cur = t => o.sess = r.sess

\* Goroutines lose s, and nothing else of what they send changes.
LEMMA OthersSend ==
  ASSUME NEW t, \A j \in Jobs : Keeps(jobs[j], jobs'[j], t)
  PROVE  /\ FramesStay(t)
         /\ ep' = ep /\ resumed'[t] = resumed[t] /\ missed'[t] = missed[t] /\ Sending(t) => Sending(t)'
<1>1. \A j \in Jobs :
        /\ jobs'[j].pc = jobs[j].pc /\ jobs'[j].cur = jobs[j].cur /\ jobs'[j].kind = jobs[j].kind
        /\ jobs'[j].op = jobs[j].op /\ jobs'[j].what = jobs[j].what /\ jobs'[j].todo = jobs[j].todo
        /\ t \in jobs[j].targets => t \in jobs'[j].targets
        /\ jobs[j].cur = t => jobs'[j].sess = jobs[j].sess
  BY DEF Keeps
<1>2. FramesStay(t)
  BY <1>1 DEF FramesStay, AtFrame, RecordOf
<1>3. \A j \in Jobs : /\ Sends(jobs[j], t) => Sends(jobs'[j], t)
                      /\ \A p \in {"attached", "missed"} : AtStage(jobs[j], t, p) => AtStage(jobs'[j], t, p)
  BY <1>1 DEF Sends, AtStage
<1>4. ASSUME ep' = ep, resumed'[t] = resumed[t], missed'[t] = missed[t], Sending(t)
      PROVE  Sending(t)'
  <2>1. (ToReconcile(t)' <=> ToReconcile(t)) /\ (DetachedWhileAway(t)' <=> DetachedWhileAway(t))
    BY <1>4, ReconcileStays
  <2>2. \E j \in Jobs :
          \/ Sends(jobs'[j], t)
          \/ AtStage(jobs'[j], t, "attached") /\ ToReconcile(t)'
          \/ AtStage(jobs'[j], t, "missed") /\ DetachedWhileAway(t)'
    BY <1>3, <1>4, <2>1 DEF Sending
  <2>3. (\E j \in Jobs :
          \/ Sends(jobs[j], t)
          \/ AtStage(jobs[j], t, "attached") /\ ToReconcile(t)
          \/ AtStage(jobs[j], t, "missed") /\ DetachedWhileAway(t))'
    BY <2>2 DEF Sends, AtStage
  <2> QED BY <2>3 DEF Sending
<1> QED BY <1>2, <1>4

\* The session leaves the registry: its station will connect again.
LEMMA UnregisterTold ==
  ASSUME LineInv, NEW s \in Stations, Unregister(s), NEW t \in Stations, Told(t)
  PROVE  Told(t)'
<1>0. TypeInv /\ link \in [Stations -> LinkStates] /\ jobs \in [Jobs -> JobType]
  BY DEF LineInv, TypeInv, TypeOK, LinkStates
<1>1. /\ UNCHANGED <<ep, hear, wire, holds, journal, offer, resumed, newer, missed, owed, stale, lapsed>>
      /\ link' = [link EXCEPT ![s] = "removed"]
      /\ \A j \in Jobs : jobs'[j] = [jobs[j] EXCEPT !.targets = @ \ {s},
                                                   !.sess = IF jobs[j].cur = s /\ @ = "here" THEN "gone" ELSE @]
  BY DEF Unregister, airVars, epVars, prpGhosts
<1>2. CASE t # s
  <2>1. SameLine(t) /\ SameFlags(t) /\ SameGhosts(t)
    BY <1>0, <1>1, <1>2 DEF SameLine, SameFlags, SameGhosts
  <2>2. FramesStay(t) /\ (Sending(t) => Sending(t)')
    <3>1. ASSUME NEW j \in Jobs PROVE Keeps(jobs[j], jobs'[j], t)
      <4>1. /\ jobs[j] \in JobType
            /\ jobs'[j] = [jobs[j] EXCEPT !.targets = @ \ {s},
                                         !.sess = IF jobs[j].cur = s /\ @ = "here" THEN "gone" ELSE @]
        BY <1>0, <1>1
      <4> QED BY <1>2, <4>1 DEF JobType, Keeps
    <3> QED BY <1>1, <3>1, OthersSend
  <2> QED BY <2>1, <2>2, ToldStays
<1>3. CASE t = s
  <2>1. link'[s] = "removed" /\ InForce(ep)' = InForce(ep)
    BY <1>0, <1>1 DEF InForce
  <2>2. Recorded(s) => Assured(s)'
    BY <1>1, <2>1, AwayRecorded
  <2>3. Settles(s) \/ Answering(s) => Assured(s)'
    BY <1>1, <2>1 DEF Settles, Answering, InForceFrom, Assured, DetLost
  <2>4. ToBeTold(s)'
    BY <2>1 DEF ToBeTold
  <2> QED BY <1>1, <1>3, <2>2, <2>3, <2>4 DEF Told, Assured
<1> QED BY <1>2, <1>3

\* Its end is recorded, at a time the decisions made meanwhile do not pass.
LEMMA MarkTold ==
  ASSUME LineInv, NEW s \in Stations, MarkDisconnected(s), NEW t \in Stations, Told(t)
  PROVE  Told(t)'
<1>0. TypeInv /\ FlagsOK /\ link \in [Stations -> LinkStates]
  BY DEF LineInv, TypeInv, TypeOK, LinkStates
<1>1. /\ UNCHANGED <<ep, hear, wire, holds, journal, offer, resumed, missed, jobs, owed, stale>>
      /\ \/ link' = [link EXCEPT ![s] = "down"] /\ newer' = [newer EXCEPT ![s] = FALSE]
            /\ lapsed' = [lapsed EXCEPT ![s] = @ \/ owed[s]]
         \/ link' = [link EXCEPT ![s] = "unresumable"] /\ UNCHANGED <<newer, lapsed>>
  BY DEF MarkDisconnected, airVars, epVars
<1>2. CASE t # s
  <2>1. link'[t] = link[t] /\ newer'[t] = newer[t] /\ lapsed'[t] = lapsed[t]
    BY <1>0, <1>1, <1>2 DEF FlagsOK
  <2>2. SameLine(t) /\ SameFlags(t) /\ SameGhosts(t)
    BY <1>1, <2>1 DEF SameLine, SameFlags, SameGhosts
  <2>3. FramesStay(t) /\ (Sending(t) => Sending(t)')
    BY <1>1, SameJobs
  <2> QED BY <2>2, <2>3, ToldStays
<1>3. CASE t = s
  <2>1. /\ InForce(ep)' = InForce(ep)
        /\ \/ link'[s] = "down" /\ lapsed'[s] = (lapsed[s] \/ owed[s])
           \/ link'[s] = "unresumable" /\ lapsed'[s] = lapsed[s]
    BY <1>0, <1>1 DEF InForce, FlagsOK
  <2>2. Recorded(s) => Assured(s)'
    BY <1>1, <2>1, AwayRecorded
  <2>3. Settles(s) \/ Answering(s) => Assured(s)'
    BY <1>1, <2>1 DEF Settles, Answering, InForceFrom, Assured, DetLost
  <2>4. lapsed'[s] \/ ~owed[s] \/ ToBeTold(s)'
    BY <2>1 DEF ToBeTold
  <2>5. lapsed[s] => lapsed'[s]
    BY <2>1
  <2> QED BY <1>1, <1>3, <2>2, <2>3, <2>4, <2>5 DEF Told, Assured
<1> QED BY <1>2, <1>3

\* The station connects: it resumes with all that is pending, and with the
\* decisions since its connection was lost, or starts anew.
LEMMA ConnectTold ==
  ASSUME LineInv, NEW s \in Stations, Connect(s), NEW t \in Stations, Told(t)
  PROVE  Told(t)'
<1>0. /\ TypeInv /\ FlagsOK /\ link \in [Stations -> LinkStates] /\ offer \in [Stations -> Seq(RecordType)]
      /\ ep.status \in {"attached", "detached"} /\ journal[s] \in Seq(RecordType)
  BY DEF LineInv, TypeInv, TypeOK, LinkStates
<1>1. /\ UNCHANGED <<ep, hear, wire, holds, journal, newer, jobs, owed, stale, lapsed>>
      /\ link' = [link EXCEPT ![s] = "offered"]
      /\ \/ /\ link[s] = "down" /\ resumed' = [resumed EXCEPT ![s] = TRUE]
            /\ offer' = [offer EXCEPT ![s] = journal[s]] /\ missed' = [missed EXCEPT ![s] = newer[s]]
         \/ /\ link[s] = "unresumable" /\ resumed' = [resumed EXCEPT ![s] = FALSE]
            /\ offer' = [offer EXCEPT ![s] = <<>>] /\ missed' = [missed EXCEPT ![s] = FALSE]
  BY DEF Connect, airVars, epVars, prpGhosts
<1>2. CASE t # s
  <2>1. link'[t] = link[t] /\ resumed'[t] = resumed[t] /\ offer'[t] = offer[t] /\ missed'[t] = missed[t]
    BY <1>0, <1>1, <1>2 DEF FlagsOK
  <2>2. SameLine(t) /\ SameFlags(t) /\ SameGhosts(t)
    BY <1>1, <2>1 DEF SameLine, SameFlags, SameGhosts
  <2>3. FramesStay(t) /\ (Sending(t) => Sending(t)')
    BY <1>1, <2>1, SameJobs
  <2> QED BY <2>2, <2>3, ToldStays
<1>3. CASE t = s
  <2>1. /\ InForce(ep)' = InForce(ep) /\ link'[s] = "offered"
        /\ \/ link[s] = "down" /\ resumed'[s] /\ offer'[s] = journal[s] /\ missed'[s] = newer[s]
           \/ link[s] = "unresumable" /\ ~resumed'[s]
    BY <1>0, <1>1 DEF InForce, FlagsOK
  <2>2. Settles(s) \/ Answering(s) => Assured(s)'
    BY <1>1, <2>1 DEF Settles, Answering, InForceFrom, Assured, DetLost
  <2>3. ASSUME Recorded(s) PROVE Assured(s)'
    <3>1. journal[s] # <<>>
      BY <2>3 DEF Recorded, ToSet
    <3>2. Held(s)'
      BY <2>1, <3>1 DEF Held
    <3> QED BY <1>1, <2>1, <2>3, <3>2 DEF Recorded, Assured, ToSet
  <2>4. ToBeTold(s) => ToBeTold(s)'
    BY <1>0, <1>1, <2>1 DEF ToBeTold, ToReconcile, AttachmentToSend, DetachedWhileAway
  <2> QED BY <1>1, <1>3, <2>2, <2>3, <2>4 DEF Told, Assured
<1> QED BY <1>2, <1>3

\* The session takes operations; a new one's station holds nothing yet.
LEMMA ActivateTold ==
  ASSUME LineInv, NEW s \in Stations, Activate(s), NEW t \in Stations, Told(t)
  PROVE  Told(t)'
<1>0. /\ TypeInv /\ FlagsOK /\ link \in [Stations -> LinkStates] /\ jobs \in [Jobs -> JobType]
      /\ journal \in [Stations -> Seq(RecordType)] /\ hear \in [Stations -> HearType]
      /\ holds \in [Stations -> Contents]
      /\ ep.status \in {"attached", "detached"} /\ InForce(ep)' = InForce(ep)
      /\ \A u \in Stations : resumed[u] \in BOOLEAN
  BY DEF LineInv, TypeInv, TypeOK, LinkStates, FlagsOK, InForce, Activate, epVars
<1>1. /\ UNCHANGED <<ep, wire, offer, resumed, missed>>
      /\ link' = [link EXCEPT ![s] = "reissuing"] /\ link[s] = "offered"
      /\ newer' = [newer EXCEPT ![s] = FALSE]
  BY DEF Activate, epVars
<1>w. wire[s] = <<>>
  BY <1>1, LineOf DEF LineInv
<1>2. CASE resumed[s]
  <2>1. UNCHANGED <<hear, holds, journal, jobs, owed, stale, lapsed>>
    BY <1>2 DEF Activate, prpGhosts
  <2>2. FramesStay(t) /\ (Sending(t) => Sending(t)')
    BY <1>1, <2>1, SameJobs
  <2>3. CASE t # s
    <3>1. SameLine(t) /\ SameFlags(t) /\ SameGhosts(t)
      BY <1>0, <1>1, <2>1, <2>3 DEF SameLine, SameFlags, SameGhosts, FlagsOK
    <3> QED BY <2>2, <3>1, ToldStays
  <2>4. CASE t = s
    <3>1. link'[s] = "reissuing" /\ resumed'[s] /\ InForce(ep)' = InForce(ep)
      BY <1>0, <1>1, <1>2 DEF InForce
    <3>2. Settles(s) \/ Answering(s) => Assured(s)'
      BY <1>1, <2>1, <3>1 DEF Settles, Answering, InForceFrom, Assured, DetLost
    <3>3. ASSUME Recorded(s) PROVE Assured(s)'
      <4>1. \A p : ~Written(s, p)
        BY <1>1, <1>w, OpsOf DEF Written, LineInv, Registered
      <4>2. offer[s] # <<>>
        BY <1>1, <1>2, <3>3, <4>1 DEF Recorded, Held
      <4>3. Held(s)'
        BY <1>1, <3>1, <4>2 DEF Held
      <4> QED BY <2>1, <3>1, <3>3, <4>3 DEF Recorded, Assured, ToSet
    <3>4. ToReconcile(s)' <=> ToReconcile(s)
      BY <1>1, ReconcileStays
    <3>5. ToBeTold(s) => ToBeTold(s)'
      BY <1>1, <1>2, <3>1, <3>4 DEF ToBeTold
    <3> QED BY <2>1, <2>4, <3>2, <3>3, <3>5 DEF Told, Assured
  <2> QED BY <2>3, <2>4
<1>3. CASE ~resumed[s]
  <2>1. /\ journal' = [journal EXCEPT ![s] = <<>>] /\ holds' = [holds EXCEPT ![s] = Detach]
        /\ hear' = [hear EXCEPT ![s] = Quiet]
        /\ \A j \in Jobs : jobs'[j] = [jobs[j] EXCEPT !.sess = IF jobs[j].cur = s THEN "ended" ELSE @]
        /\ owed' = [owed EXCEPT ![s] = InForce(ep) # Detach]
        /\ stale' = [stale EXCEPT ![s] = FALSE] /\ lapsed' = [lapsed EXCEPT ![s] = FALSE]
    BY <1>3 DEF Activate
  <2>2. CASE t # s
    <3>1. SameLine(t) /\ SameFlags(t) /\ SameGhosts(t)
      BY <1>0, <1>1, <2>1, <2>2 DEF SameLine, SameFlags, SameGhosts, FlagsOK
    <3>2. FramesStay(t) /\ (Sending(t) => Sending(t)')
      <4>1. ASSUME NEW j \in Jobs PROVE Keeps(jobs[j], jobs'[j], t)
        <5>1. jobs[j] \in JobType /\ jobs'[j] = [jobs[j] EXCEPT !.sess = IF jobs[j].cur = s THEN "ended" ELSE @]
          BY <1>0, <2>1
        <5> QED BY <2>2, <5>1 DEF JobType, Keeps
      <4> QED BY <1>1, <4>1, OthersSend
    <3> QED BY <3>1, <3>2, ToldStays
  <2>3. CASE t = s /\ InForce(ep) = Detach
    <3>1. holds'[s] = Detach
      BY <1>0, <2>1
    <3>2. Settles(s)'
      BY <1>0, <1>1, <1>w, <2>3, <3>1 DEF Settles, InForceFrom
    <3> QED BY <2>3, <3>2 DEF Told, Assured
  <2>4. CASE t = s /\ InForce(ep) # Detach
    <3>1. owed'[s] /\ link'[s] = "reissuing" /\ ~resumed'[s] /\ ep'.status = "attached"
      BY <1>0, <1>1, <1>3, <2>1, <2>4 DEF InForce, FlagsOK
    <3>2. ToBeTold(s)'
      BY <3>1 DEF ToBeTold, ToReconcile, AttachmentToSend
    <3> QED BY <2>4, <3>1, <3>2 DEF Told
  <2> QED BY <2>2, <2>3, <2>4
<1> QED BY <1>2, <1>3

\* Only a goroutine's record changes, and with it nothing that t is told.
LEMMA JobTold ==
  ASSUME LineInv, NEW j \in Jobs, NEW r, jobs' = [jobs EXCEPT ![j] = r], NEW t \in Stations, Told(t),
         UNCHANGED <<ep, hear, linkVars, airVars, owed, stale>>, lapsed[t] => lapsed'[t],
         ~AtFrame(jobs[j], t),
         link[t] \in {"reissuing", "live"} => (Sends(jobs[j], t) => Sends(r, t)),
         AtStage(jobs[j], t, "attached") /\ ToReconcile(t) =>
           Sends(r, t) \/ AtStage(r, t, "attached") \/ (AtStage(r, t, "missed") /\ DetachedWhileAway(t)),
         AtStage(jobs[j], t, "missed") /\ DetachedWhileAway(t) =>
           Sends(r, t) \/ AtStage(r, t, "missed")
  PROVE  Told(t)'
<1>1. TypeInv
  BY DEF LineInv
<1>2. SameLine(t) /\ SameFlags(t) /\ SameGhosts(t)
  BY DEF SameLine, SameFlags, SameGhosts, linkVars, airVars
<1>3. FramesStay(t)
  BY <1>1, FramesStayBut
<1>4. link[t] \in {"reissuing", "live"} /\ Sending(t) => Sending(t)'
  BY <1>1, SendingStays DEF linkVars
<1> QED BY <1>2, <1>3, <1>4, ToldStays

\* The two reads of the key.
LEMMA KeyReadsTold ==
  ASSUME LineInv, NEW j \in Jobs, ReadSession(j) \/ ReadKey(j), NEW t \in Stations, Told(t)
  PROVE  Told(t)'
<1>0. TypeInv /\ Staged(jobs[j]) /\ jobs[j].pc \in {"key", "sign"}
  BY DEF LineInv, TypeInv, AllStaged, ReadSession, ReadKey
<1>1. UNCHANGED <<ep, hear, linkVars, airVars, owed, stale, lapsed>>
  BY DEF ReadSession, ReadKey, epVars, prpGhosts
<1>2. PICK r \in JobType :
        /\ jobs' = [jobs EXCEPT ![j] = r]
        /\ r.kind = jobs[j].kind /\ r.cur = jobs[j].cur /\ r.sess = jobs[j].sess /\ r.targets = jobs[j].targets
        /\ \/ jobs[j].pc = "key" /\ r.pc = "sign"
           \/ jobs[j].pc = "sign" /\ r.pc = IF jobs[j].kind = "attach" THEN "snapshot" ELSE "begin"
  BY <1>0, KeyReads
<1>3. Sends(jobs[j], t) => Sends(r, t)
  BY <1>0, <1>2, AttachmentAssumption DEF Sends, AtStage, Staged
<1> QED BY <1>0, <1>1, <1>2, <1>3, JobTold DEF AtFrame, AtStage

\* The sessions are read: those the propagation goes on with take operations.
LEMMA SnapshotTold ==
  ASSUME LineInv, NEW j \in Jobs, Snapshot(j), NEW t \in Stations, Told(t)
  PROVE  Told(t)'
<1> DEFINE r == [jobs[j] EXCEPT !.targets = Reached(jobs[j])]
<1>0. jobs[j] \in JobType /\ Staged(jobs[j]) /\ jobs[j].pc = "snapshot"
  BY DEF LineInv, TypeInv, TypeOK, AllStaged, Snapshot
<1>1. UNCHANGED <<ep, hear, linkVars, airVars, owed, stale, lapsed>> /\ \E o \in Onward(r) : Job(j, o)
  BY DEF Snapshot, epVars, prpGhosts
<1>2. r \in JobType /\ r.targets = Reached(jobs[j]) /\ r.kind = jobs[j].kind
  <2>1. Reached(jobs[j]) \in SUBSET Stations
    BY DEF Reached, Sendable
  <2> QED BY <1>0, <2>1, JobFields DEF JobType
<1> HIDE DEF r
<1>3. PICK o \in Onward(r) : jobs' = [jobs EXCEPT ![j] = o]
  BY <1>1 DEF Job
<1>4. ASSUME link[t] \in {"reissuing", "live"}, Sends(jobs[j], t) PROVE Sends(o, t)
  <2>1. t \in r.targets
    BY <1>0, <1>2, <1>4 DEF Sends, AtStage, Staged, Reached, Sendable
  <2>2. r.kind # "reconcile"
    BY <1>0, <1>2 DEF Staged
  <2> QED BY <1>2, <2>1, <2>2, OnwardSends
<1> QED BY <1>0, <1>1, <1>3, <1>4, JobTold DEF AtFrame, AtStage

\* A reconciliation reads the attached end points.
LEMMA ReadAttachedTold ==
  ASSUME LineInv, NEW j \in Jobs, ReadAttached(j), NEW t \in Stations, Told(t)
  PROVE  Told(t)'
<1> DEFINE d == IF AttachmentToSend(jobs[j].cur) THEN <<"key">> ELSE <<>>
           r == [jobs[j] EXCEPT !.pc = "missed", !.todo = d]
<1>0. jobs[j] \in JobType /\ Staged(jobs[j]) /\ jobs[j].pc = "attached"
  BY DEF LineInv, TypeInv, TypeOK, AllStaged, ReadAttached
<1>1. jobs' = [jobs EXCEPT ![j] = r] /\ UNCHANGED <<ep, hear, linkVars, airVars, owed, stale, lapsed>>
  BY DEF ReadAttached, Job, epVars, prpGhosts
<1>2. r.cur = jobs[j].cur /\ r.sess = jobs[j].sess /\ r.targets = jobs[j].targets /\ r.pc = "missed" /\ r.todo = d
  BY <1>0 DEF JobType
<1>d. AttachmentToSend(jobs[j].cur) => d # <<>>
  OBVIOUS
<1> HIDE DEF r, d
<1>3. ~Sends(jobs[j], t)
  BY <1>0 DEF Sends, AtStage, Staged
<1>4. ASSUME AtStage(jobs[j], t, "attached"), ToReconcile(t)
      PROVE  Sends(r, t) \/ (AtStage(r, t, "missed") /\ DetachedWhileAway(t))
  <2>1. AtStage(r, t, "missed") /\ jobs[j].cur = t
    BY <1>2, <1>4 DEF AtStage
  <2>2. CASE DetachedWhileAway(t)
    BY <2>1, <2>2
  <2>3. CASE AttachmentToSend(t)
    BY <1>2, <1>d, <2>1, <2>3 DEF Sends
  <2> QED BY <1>4, <2>2, <2>3 DEF ToReconcile
<1> QED BY <1>0, <1>1, <1>3, <1>4, JobTold DEF AtFrame, AtStage

\* A reconciliation reads the detached ones and goes on to its sends.
LEMMA ReadDetachedTold ==
  ASSUME LineInv, NEW j \in Jobs, ReadDetached(j), NEW t \in Stations, Told(t)
  PROVE  Told(t)'
<1> DEFINE c == jobs[j].cur
           d == IF DetachedWhileAway(c) THEN jobs[j].todo \o <<"begin">> ELSE jobs[j].todo
           r == [jobs[j] EXCEPT !.todo = d]
<1>0. /\ TypeInv /\ FlagsOK /\ jobs \in [Jobs -> JobType]
      /\ jobs[j] \in JobType /\ Staged(jobs[j]) /\ jobs[j].pc = "missed" /\ jobs[j].kind = "reconcile"
      /\ c \in Stations /\ jobs[j].targets = {}
      /\ resumed \in [Stations -> BOOLEAN] /\ missed \in [Stations -> BOOLEAN]
  BY DEF LineInv, TypeInv, TypeOK, AllStaged, ReadDetached, Staged, FlagsOK
<1>1. UNCHANGED <<ep, hear, link, lastOp, journal, offer, newer, airVars, owed, stale, lapsed>>
  BY DEF ReadDetached, epVars, prpGhosts
<1>8. \E o \in Onward(r) : Job(j, o)
  BY Zenon DEF ReadDetached
<1>9. IF jobs[j].sess = "here" THEN resumed' = [resumed EXCEPT ![c] = FALSE] /\ missed' = [missed EXCEPT ![c] = FALSE]
                               ELSE UNCHANGED <<resumed, missed>>
  BY Zenon DEF ReadDetached
<1>2. /\ d \in Seq({"key", "begin"})
      /\ jobs[j].todo # <<>> \/ DetachedWhileAway(c) => d # <<>>
  <2>1. jobs[j].todo \in Seq({"key", "begin"}) /\ <<"begin">> \in Seq({"key", "begin"})
    BY <1>0, JobParts
  <2>2. jobs[j].todo \o <<"begin">> \in Seq({"key", "begin"}) /\ jobs[j].todo \o <<"begin">> # <<>>
    <3>1. Len(jobs[j].todo \o <<"begin">>) = Len(jobs[j].todo) + 1 /\ Len(jobs[j].todo) \in Nat
      BY <2>1
    <3>2. Len(<<>>) = 0
      OBVIOUS
    <3>3. jobs[j].todo \o <<"begin">> # <<>>
      BY <3>1, <3>2
    <3> QED BY <2>1, <3>3
  <2> QED BY <2>1, <2>2
<1> HIDE DEF d
<1>3. r \in JobType /\ r.todo = d /\ r.cur = c /\ r.sess = jobs[j].sess /\ r.kind = "reconcile" /\ r.targets = {}
  <2>1. r \in JobType
    BY <1>0, <1>2, JobFields
  <2>2. r.todo = d /\ r.cur = c /\ r.sess = jobs[j].sess /\ r.kind = jobs[j].kind /\ r.targets = jobs[j].targets
    BY <1>0 DEF JobType
  <2> QED BY <1>0, <2>1, <2>2
<1> HIDE DEF r
<1>4. PICK o \in Onward(r) : jobs' = [jobs EXCEPT ![j] = o]
  BY <1>8 DEF Job
<1>5. FramesStay(t)
  BY <1>0, <1>4, FramesStayBut DEF AtFrame
<1>6. ASSUME ~(c = t /\ jobs[j].sess = "here") PROVE Told(t)'
  <2>1. resumed'[t] = resumed[t] /\ missed'[t] = missed[t]
    BY <1>0, <1>6, <1>9
  <2>2. SameLine(t) /\ SameFlags(t) /\ SameGhosts(t)
    BY <1>1, <2>1 DEF SameLine, SameFlags, SameGhosts, airVars
  <2>3. ~Sends(jobs[j], t) /\ ~AtStage(jobs[j], t, "attached") /\ ~AtStage(jobs[j], t, "missed")
    BY <1>0, <1>6 DEF Sends, AtStage
  <2>4. Sending(t) => Sending(t)'
    BY <1>0, <1>1, <1>4, <2>1, <2>3, SendingStays
  <2> QED BY <1>5, <2>2, <2>4, ToldStays
<1>7. ASSUME c = t, jobs[j].sess = "here" PROVE Told(t)'
  <2>1. link[t] \in {"live", "broken"} /\ \A i \in Jobs : ReconHere(jobs[i], t) => i = j
    BY <1>0, <1>7 DEF LineInv, OneRecon, ReconHere
  <2>2. link'[t] = link[t] /\ InForce(ep)' = InForce(ep) /\ wire' = wire /\ holds' = holds
    BY <1>1 DEF InForce, airVars
  <2>3. Settles(t) \/ Answering(t) => Assured(t)'
    BY <1>1, <2>2 DEF Settles, Answering, InForceFrom, Assured, DetLost
  <2>4. Held(t) => Held(t)'
    BY <2>1, <2>2 DEF Held
  <2>5. \A p : Written(t, p) => Written(t, p)'
    <3>1. ASSUME NEW p, NEW i \in Jobs, AtFrame(jobs[i], t), RecordOf(jobs[i]) = p PROVE Written(t, p)'
      BY <1>5, <3>1 DEF FramesStay, Written, AtFrame, RecordOf
    <3>2. ASSUME NEW p, \E k \in DOMAIN wire[t] : wire[t][k] = Propagate(p) /\ InForceFrom(t, k) PROVE Written(t, p)'
      BY <2>2, <3>2 DEF Written, Propagate, InForceFrom
    <3> QED BY <3>1, <3>2 DEF Written
  <2>6. Recorded(t) => Assured(t)'
    BY <1>1, <2>2, <2>4, <2>5 DEF Recorded, Assured, ToSet
  <2>7. ASSUME Sending(t) PROVE Sending(t)'
    <3>1. PICK i \in Jobs :
            \/ Sends(jobs[i], t)
            \/ AtStage(jobs[i], t, "attached") /\ ToReconcile(t)
            \/ AtStage(jobs[i], t, "missed") /\ DetachedWhileAway(t)
      BY <2>7 DEF Sending
    <3>2. Sends(jobs'[i], t)
      <4>1. CASE i = j
        <5>1. r.todo # <<>>
          BY <1>0, <1>2, <1>3, <1>7, <3>1, <4>1 DEF Sends, AtStage
        <5>2. Sends(o, t)
          BY <1>3, <1>7, <5>1, OnwardSends
        <5> QED BY <1>0, <1>4, <4>1, <5>2
      <4>2. CASE i # j
        <5>1. ~AtStage(jobs[i], t, "attached") /\ ~AtStage(jobs[i], t, "missed")
          BY <1>0, <2>1, <4>2 DEF AtStage, ReconHere, TypeInv, AllStaged, Staged
        <5>2. jobs'[i] = jobs[i]
          BY <1>0, <1>4, <4>2
        <5> QED BY <3>1, <5>1, <5>2
      <4> QED BY <4>1, <4>2
    <3>3. (Sends(jobs[i], t))'
      BY <3>2 DEF Sends, AtStage
    <3> QED BY <3>3 DEF Sending
  <2>8. ToBeTold(t) => ToBeTold(t)'
    BY <2>1, <2>2, <2>7 DEF ToBeTold
  <2> QED BY <1>1, <2>3, <2>6, <2>8 DEF Told, Assured
<1> QED BY <1>6, <1>7

\* A record more, under a new id, on the session of s; what was on record stays.
LEMMA BegunTold ==
  ASSUME LineInv, NEW j \in Jobs, Begin(j), jobs[j].sess = "here", jobs[j].cur \in Stations,
         Job(j, [jobs[j] EXCEPT !.pc = "frame", !.op = lastOp[jobs[j].cur] + 1]), UNCHANGED lapsed,
         NEW t \in Stations, Told(t)
  PROVE  Told(t)'
<1> DEFINE s == jobs[j].cur
           c == jobs[j].what
           e == [op |-> lastOp[s] + 1, what |-> c]
           r == [jobs[j] EXCEPT !.pc = "frame", !.op = lastOp[s] + 1]
           F == InForce(ep)
<1>0. /\ TypeInv /\ FlagsOK /\ jobs[j] \in JobType /\ Staged(jobs[j]) /\ jobs[j].pc = "begin"
      /\ journal \in [Stations -> Seq(RecordType)] /\ lastOp \in [Stations -> Nat]
      /\ newer \in [Stations -> BOOLEAN] /\ owed \in [Stations -> BOOLEAN]
      /\ c \in Contents /\ lastOp[s] + 1 \in Nat /\ journal[s] \in Seq(RecordType)
      /\ link[s] \in Registered
  BY JobParts DEF LineInv, TypeInv, TypeOK, AllStaged, Begin, FlagsOK, SessionsThere
<1>1. /\ UNCHANGED <<ep, hear, link, offer, resumed, missed, wire, holds, stale, lapsed>>
      /\ jobs' = [jobs EXCEPT ![j] = r]
      /\ newer' = [newer EXCEPT ![s] = FALSE]
      /\ journal' = [journal EXCEPT ![s] = Append(@, e)]
      /\ owed' = [owed EXCEPT ![s] = @ /\ c # F]
  BY DEF Begin, Job, airVars
<1>2. /\ r.pc = "frame" /\ r.cur = s /\ r.sess = "here" /\ r.targets = jobs[j].targets
      /\ RecordOf(r) = e /\ e.what = c
  BY <1>0 DEF JobType, RecordOf
<1>3. e \in RecordType
  BY <1>0 DEF RecordType
<1> HIDE DEF r, e
<1>4. \A u \in Stations : Sends(jobs[j], u) => Sends(r, u)
  BY <1>0, <1>2 DEF Sends, AtStage
<1>5. FramesStay(t)
  BY <1>0, <1>1, FramesStayBut DEF AtFrame
<1>6. Sending(t) => Sending(t)'
  BY <1>0, <1>1, <1>4, SendingStays DEF AtStage
<1>7. F' = F
  BY <1>1 DEF InForce
<1>8. CASE t # s
  <2>1. SameLine(t) /\ SameFlags(t) /\ SameGhosts(t)
    BY <1>0, <1>1, <1>8 DEF SameLine, SameFlags, SameGhosts
  <2> QED BY <1>5, <1>6, <2>1, ToldStays
<1>9. CASE t = s
  <2>1. ToSet(journal[s]) \cup {e} \subseteq ToSet(journal'[s])
    <3>1. journal'[s] = Append(journal[s], e)
      BY <1>0, <1>1
    <3>2. /\ Len(journal[s]) + 1 \in DOMAIN Append(journal[s], e) /\ Append(journal[s], e)[Len(journal[s]) + 1] = e
          /\ \A i \in DOMAIN journal[s] : i \in DOMAIN Append(journal[s], e) /\ Append(journal[s], e)[i] = journal[s][i]
      BY <1>0, <1>3, AppendAt
    <3> QED BY <3>1, <3>2 DEF ToSet
  <2>2. PICK a \in Stations, p \in RecordType : a = s /\ p = e
    BY <1>3, <1>9
  <2>3. CASE c = F
    <3>1. jobs'[j] = r
      BY <1>0, <1>1 DEF TypeInv, TypeOK
    <3>2. AtFrame(jobs'[j], a) /\ RecordOf(jobs'[j]) = p
      BY <1>2, <2>2, <3>1 DEF AtFrame
    <3>3. Written(a, p)'
      BY <3>2 DEF Written, AtFrame, RecordOf
    <3>4. p \in ToSet(journal'[a]) /\ p.what = F
      BY <1>2, <2>1, <2>2, <2>3
    <3>5. Recorded(a)'
      BY <1>7, <3>3, <3>4 DEF Recorded, ToSet
    <3> QED BY <1>9, <2>2, <3>5 DEF Told, Assured
  <2>4. CASE c # F
    <3>1. Settles(t) \/ Answering(t) => Assured(t)'
      BY <1>1, <1>7 DEF Settles, Answering, InForceFrom, Assured, DetLost
    <3>2. Held(t) => Held(t)'
      BY <1>1 DEF Held
    <3>3. \A q : Written(t, q) => Written(t, q)'
      <4>1. ASSUME NEW q, NEW i \in Jobs, AtFrame(jobs[i], t), RecordOf(jobs[i]) = q PROVE Written(t, q)'
        BY <1>5, <4>1 DEF FramesStay, Written, AtFrame, RecordOf
      <4>2. ASSUME NEW q, \E k \in DOMAIN wire[t] : wire[t][k] = Propagate(q) /\ InForceFrom(t, k) PROVE Written(t, q)'
        BY <1>1, <1>7, <4>2 DEF Written, Propagate, InForceFrom
      <4> QED BY <4>1, <4>2 DEF Written
    <3>4. Recorded(t) => Assured(t)'
      BY <1>7, <1>9, <2>1, <3>2, <3>3 DEF Recorded, Assured, ToSet
    <3>5. ToBeTold(t) => ToBeTold(t)'
      <4>1. ToReconcile(t)' <=> ToReconcile(t)
        BY <1>1, ReconcileStays
      <4>2. link[t] # "down"
        BY <1>0, <1>9 DEF Registered
      <4> QED BY <1>1, <1>6, <4>1, <4>2 DEF ToBeTold
    <3>6. owed'[t] = owed[t]
      BY <1>0, <1>1, <1>9, <2>4
    <3> QED BY <1>1, <3>1, <3>4, <3>5, <3>6 DEF Told, Assured
  <2> QED BY <2>3, <2>4
<1> QED BY <1>8, <1>9

\* A propagation whose session is gone goes on, as does one that failed.
LEMMA BeginTold ==
  ASSUME LineInv, NEW j \in Jobs, Begin(j), NEW t \in Stations, Told(t)
  PROVE  Told(t)'
<1>0. /\ TypeInv /\ FlagsOK /\ jobs[j] \in JobType /\ Staged(jobs[j]) /\ jobs[j].pc = "begin" /\ jobs[j].cur \in Stations
      /\ journal \in [Stations -> Seq(RecordType)] /\ newer \in [Stations -> BOOLEAN]
      /\ owed \in [Stations -> BOOLEAN] /\ lapsed \in [Stations -> BOOLEAN]
  BY DEF LineInv, TypeInv, TypeOK, AllStaged, Begin, Staged, FlagsOK
<1>1. UNCHANGED <<ep, hear, link, offer, resumed, missed, wire, holds, stale>>
  BY DEF Begin, airVars
<1>2. CASE jobs[j].sess # "here"
  <2>1. UNCHANGED <<newer, journal, owed, lapsed>> /\ \E o \in Onward(jobs[j]) : Job(j, o)
    BY <1>2 DEF Begin
  <2>2. FramesStay(t) /\ (Sending(t) => Sending(t)')
    BY <1>0, <1>1, <1>2, <2>1, OnwardStays
  <2>3. SameLine(t) /\ SameFlags(t) /\ SameGhosts(t)
    BY <1>1, <2>1 DEF SameLine, SameFlags, SameGhosts
  <2> QED BY <2>2, <2>3, ToldStays
<1>3. CASE jobs[j].sess = "here" /\ lapsed' = [lapsed EXCEPT ![jobs[j].cur] = TRUE] /\ \E o \in Onward(jobs[j]) : Job(j, o)
  <2>1. CASE t = jobs[j].cur
    BY <1>0, <1>3, <2>1 DEF Told
  <2>2. CASE t # jobs[j].cur
    <3>1. newer'[t] = newer[t] /\ journal'[t] = journal[t] /\ owed'[t] = owed[t] /\ lapsed'[t] = lapsed[t]
      BY <1>0, <1>3, <2>2 DEF Begin
    <3>2. FramesStay(t) /\ (Sending(t) => Sending(t)')
      BY <1>0, <1>1, <1>3, <2>2, OnwardStays
    <3>3. SameLine(t) /\ SameFlags(t) /\ SameGhosts(t)
      BY <1>1, <3>1 DEF SameLine, SameFlags, SameGhosts
    <3> QED BY <3>2, <3>3, ToldStays
  <2> QED BY <2>1, <2>2
<1>4. CASE /\ jobs[j].sess = "here" /\ UNCHANGED lapsed
           /\ Job(j, [jobs[j] EXCEPT !.pc = "frame", !.op = lastOp[jobs[j].cur] + 1])
  BY <1>0, <1>4, BegunTold
<1> QED BY <1>2, <1>3, <1>4 DEF Begin

\* A frame of the decision in force is the newest on its way, or its record
\* waits for the next connection.
LEMMA FramedTold ==
  ASSUME LineInv, NEW j \in Jobs, Frame(j), jobs[j].sess = "here", NEW s \in Stations, jobs[j].cur = s
  PROVE  Told(s)'
<1> DEFINE w == wire[s]
           p == RecordOf(jobs[j])
           f == Propagate(p)
           v == Append(w, f)
           n == Len(w) + 1
           F == InForce(ep)
<1>0. /\ TypeInv /\ FlagsOK /\ jobs[j] \in JobType /\ jobs[j].pc = "frame"
      /\ wire \in [Stations -> Seq(FrameType)] /\ w \in Seq(FrameType) /\ DOMAIN w = 1..Len(w) /\ Len(w) \in Nat
      /\ stale \in [Stations -> BOOLEAN]
  BY DEF LineInv, TypeInv, TypeOK, Frame, FlagsOK
<1>1. /\ UNCHANGED <<ep, link, journal>>
      /\ wire' = IF link[s] = "broken" THEN wire ELSE [wire EXCEPT ![s] = v]
      /\ stale' = [stale EXCEPT ![s] = jobs[j].what # F]
  BY DEF Frame, epVars
<1>2. p \in RecordType /\ p.what = jobs[j].what /\ f \in FrameType /\ f.what = p.what
  BY <1>0, FrameParts
<1>3. p \in ToSet(journal[s])
  BY <1>0, OpsOf DEF FrameOps, AtFrame, LineInv
<1>4. F' = F
  BY <1>1 DEF InForce
<1>5. CASE jobs[j].what # F
  BY <1>0, <1>1, <1>5 DEF Told
<1>6. CASE jobs[j].what = F
  <2>1. CASE link[s] = "broken"
    <3>1. Held(s)'
      BY <1>1, <2>1 DEF Held
    <3> QED BY <1>1, <1>2, <1>3, <1>4, <1>6, <3>1 DEF Told, Assured, Recorded, ToSet
  <2>2. CASE link[s] # "broken"
    <3>1. n \in DOMAIN v /\ v[n] = f /\ \A i \in DOMAIN v : i \in DOMAIN w \/ i = n
      <4> HIDE DEF w, f
      <4> QED BY <1>0, <1>2, AppendAt
    <3>2. wire'[s] = v
      BY <1>0, <1>1, <2>2
    <3> HIDE DEF v
    <3>3. \A i \in DOMAIN v : i >= n => i = n
      BY <1>0, <3>1
    <3>4. PICK k \in DOMAIN v : k = n
      BY <3>1
    <3>5. PICK q \in RecordType : q = p
      BY <1>2
    <3>6. InForceFrom(s, k)'
      BY <1>2, <1>4, <1>6, <3>1, <3>2, <3>3, <3>4 DEF InForceFrom
    <3>7. Written(s, q)'
      BY <3>1, <3>2, <3>4, <3>5, <3>6 DEF Written, Propagate
    <3>8. Recorded(s)'
      BY <1>1, <1>2, <1>3, <1>4, <1>6, <3>5, <3>7 DEF Recorded, ToSet
    <3> QED BY <3>8 DEF Told, Assured
  <2> QED BY <2>1, <2>2
<1> QED BY <1>5, <1>6

\* The record of a propagation whose session is gone is given up; another
\* decision's is not missed.
LEMMA GoneTold ==
  ASSUME LineInv, NEW j \in Jobs, Frame(j), jobs[j].sess # "here", NEW t \in Stations, Told(t)
  PROVE  Told(t)'
<1> DEFINE s == jobs[j].cur
           p == RecordOf(jobs[j])
           F == InForce(ep)
<1>0. /\ TypeInv /\ FlagsOK /\ jobs[j] \in JobType /\ Staged(jobs[j]) /\ jobs[j].pc = "frame" /\ s \in Stations
      /\ journal \in [Stations -> Seq(RecordType)] /\ lapsed \in [Stations -> BOOLEAN]
  BY DEF LineInv, TypeInv, TypeOK, AllStaged, Frame, Staged, FlagsOK
<1>1. /\ UNCHANGED <<ep, hear, link, offer, resumed, newer, missed, wire, holds, owed, stale>>
      /\ journal' = IF jobs[j].sess = "gone" THEN Settled(s, p) ELSE journal
      /\ lapsed' = [lapsed EXCEPT ![s] = @ \/ (jobs[j].sess = "gone" /\ jobs[j].what = F)]
      /\ \E o \in Onward(jobs[j]) : Job(j, o)
  <2>1. \E o \in Onward(jobs[j]) : Job(j, o)
    BY Zenon DEF Frame
  <2> QED BY <2>1 DEF Frame, epVars
<1>2. FramesStay(t) /\ (Sending(t) => Sending(t)')
  BY <1>0, <1>1, OnwardStays
<1>3. CASE t # s \/ jobs[j].sess # "gone"
  <2>1. journal'[t] = journal[t] /\ lapsed'[t] = lapsed[t]
    BY <1>0, <1>1, <1>3 DEF Settled
  <2>2. SameLine(t) /\ SameFlags(t) /\ SameGhosts(t)
    BY <1>1, <2>1 DEF SameLine, SameFlags, SameGhosts
  <2> QED BY <1>2, <2>2, ToldStays
<1>4. CASE t = s /\ jobs[j].sess = "gone"
  <2>1. CASE jobs[j].what = F
    BY <1>0, <1>1, <1>4, <2>1 DEF Told
  <2>2. CASE jobs[j].what # F
    <3>0. p.what # F
      BY <2>2 DEF RecordOf
    <3>1. F' = F
      BY <1>1 DEF InForce
    <3>2. Settles(t) \/ Answering(t) => Assured(t)'
      BY <1>1, <3>1 DEF Settles, Answering, InForceFrom, Assured, DetLost
    <3>3. Held(t) => Held(t)'
      BY <1>1 DEF Held
    <3>4. \A q : Written(t, q) => Written(t, q)'
      <4>1. ASSUME NEW q, NEW i \in Jobs, AtFrame(jobs[i], t), RecordOf(jobs[i]) = q PROVE Written(t, q)'
        BY <1>2, <4>1 DEF FramesStay, Written, AtFrame, RecordOf
      <4>2. ASSUME NEW q, \E k \in DOMAIN wire[t] : wire[t][k] = Propagate(q) /\ InForceFrom(t, k) PROVE Written(t, q)'
        BY <1>1, <3>1, <4>2 DEF Written, Propagate, InForceFrom
      <4> QED BY <4>1, <4>2 DEF Written
    <3>5. \A q \in ToSet(journal[t]) : q.what = F => q \in ToSet(journal[t])'
      <4> HIDE DEF p, F
      <4> QED BY <1>0, <1>1, <1>4, <3>0, OthersStay
    <3>6. Recorded(t) => Assured(t)'
      BY <3>1, <3>3, <3>4, <3>5 DEF Recorded, Assured
    <3>7. ToBeTold(t) => ToBeTold(t)'
      <4>1. ToReconcile(t)' <=> ToReconcile(t)
        BY <1>1, ReconcileStays
      <4> QED BY <1>1, <1>2, <4>1 DEF ToBeTold
    <3>8. lapsed'[t] = lapsed[t]
      BY <1>0, <1>1, <1>4, <2>2
    <3> QED BY <1>1, <3>2, <3>6, <3>7, <3>8 DEF Told, Assured
  <2> QED BY <2>1, <2>2
<1> QED BY <1>3, <1>4

\* A frame is written or its record taken back.
LEMMA FrameTold ==
  ASSUME LineInv, NEW j \in Jobs, Frame(j), NEW t \in Stations, Told(t)
  PROVE  Told(t)'
<1>0. /\ TypeInv /\ FlagsOK /\ jobs[j] \in JobType /\ jobs[j].pc = "frame" /\ jobs[j].cur \in Stations
      /\ wire \in [Stations -> Seq(FrameType)] /\ stale \in [Stations -> BOOLEAN] /\ lapsed \in [Stations -> BOOLEAN]
  BY DEF LineInv, TypeInv, TypeOK, AllStaged, Frame, Staged, FlagsOK
<1>1. CASE jobs[j].sess # "here"
  BY <1>1, GoneTold
<1>2. CASE jobs[j].sess = "here" /\ t = jobs[j].cur
  BY <1>2, FramedTold
<1>3. CASE jobs[j].sess = "here" /\ t # jobs[j].cur
  <2>1. /\ UNCHANGED <<ep, hear, link, journal, offer, resumed, newer, missed, holds, owed>>
        /\ wire'[t] = wire[t] /\ stale'[t] = stale[t] /\ lapsed'[t] = lapsed[t]
    BY <1>0, <1>3 DEF Frame, epVars
  <2>2. \E o \in Onward(jobs[j]) : Job(j, o)
    BY Zenon DEF Frame
  <2>3. FramesStay(t) /\ (Sending(t) => Sending(t)')
    BY <1>0, <1>3, <2>1, <2>2, OnwardStays
  <2>4. SameLine(t) /\ SameFlags(t) /\ SameGhosts(t)
    BY <2>1 DEF SameLine, SameFlags, SameGhosts
  <2> QED BY <2>3, <2>4, ToldStays
<1> QED BY <1>1, <1>2, <1>3

\* A send is given up, or all of a propagation that has not read its key.
LEMMA SendFailsTold ==
  ASSUME LineInv, NEW j \in Jobs, SendFails(j), NEW t \in Stations, Told(t)
  PROVE  Told(t)'
<1>0. /\ TypeInv /\ FlagsOK /\ jobs[j] \in JobType /\ Staged(jobs[j])
  BY DEF LineInv, TypeInv, TypeOK, AllStaged
<1>1. /\ UNCHANGED <<ep, hear, linkVars, airVars, owed, stale>>
      /\ \/ jobs[j].pc \in {"attached", "missed", "key", "sign", "begin"}
         \/ jobs[j].pc = "snapshot" /\ jobs[j].kind = "trigger"
      /\ lapsed'[t] = (lapsed[t] \/ jobs[j].cur \in {t, NoStation})
  BY DEF SendFails, epVars
<1>2. PICK o \in IF jobs[j].pc \in {"attached", "missed", "snapshot"} THEN {Idle} ELSE Onward(jobs[j]) : Job(j, o)
  BY Zenon DEF SendFails
<1>3. CASE jobs[j].cur \in {t, NoStation}
  BY <1>1, <1>3 DEF Told
<1>4. CASE jobs[j].cur \notin {t, NoStation} /\ jobs[j].pc \in {"attached", "missed"}
  <2>1. ~Sends(jobs[j], t) /\ ~AtStage(jobs[j], t, "attached") /\ ~AtStage(jobs[j], t, "missed") /\ ~AtFrame(jobs[j], t)
    BY <1>0, <1>4 DEF Sends, AtStage, AtFrame, Staged
  <2>2. jobs' = [jobs EXCEPT ![j] = o]
    BY <1>2 DEF Job
  <2> QED BY <1>1, <2>1, <2>2, JobTold
<1>5. CASE jobs[j].cur \notin {t, NoStation} /\ jobs[j].pc \in {"key", "sign", "begin"}
  <2>1. o \in Onward(jobs[j])
    BY <1>2, <1>5
  <2>2. jobs[j].pc \in {"key", "sign"} => jobs[j].kind # "attach"
    BY <1>0, <1>5 DEF Staged
  <2>3. resumed'[t] = resumed[t] /\ missed'[t] = missed[t] /\ ep' = ep
    BY <1>1 DEF linkVars
  <2>4. FramesStay(t) /\ (Sending(t) => Sending(t)')
    BY <1>0, <1>2, <1>5, <2>1, <2>2, <2>3, OnwardStays
  <2>5. SameLine(t) /\ SameFlags(t) /\ SameGhosts(t)
    BY <1>1 DEF SameLine, SameFlags, SameGhosts, linkVars, airVars
  <2> QED BY <2>4, <2>5, ToldStays
<1>6. jobs[j].pc = "snapshot" => jobs[j].cur \in {t, NoStation}
  BY <1>0, <1>1 DEF Staged
<1> QED BY <1>1, <1>3, <1>4, <1>5, <1>6

\* A det is completed.
LEMMA DetachCompleteTold ==
  ASSUME LineInv, NEW s \in Stations, NEW j \in Jobs, DetachComplete(s, j), NEW t \in Stations, Told(t)
  PROVE  Told(t)'
<1>0. ep \in [status : {"attached", "detached"}, sign : Keys]
  BY DEF LineInv, TypeInv, TypeOK
<1>1. CASE UNCHANGED <<ep, newer, missed, owed, stale, jobs>>
  BY <1>1, QuietTold
<1>2. CASE Detached(s) /\ ep.status = "attached"
           /\ Started(j, [Idle EXCEPT !.pc = "snapshot", !.kind = "otaDetach", !.cur = s])
  <2>1. CASE t = s
    BY <1>2, <2>1, ReporterTold
  <2>2. CASE t # s
    BY <1>2, <2>2, DetachedTold
  <2> QED BY <2>1, <2>2
<1>3. CASE Detached(s) /\ ep.status # "attached" /\ UNCHANGED jobs
  <2>1. ep' = ep
    BY <1>0, <1>3 DEF Detached
  <2> QED BY <1>1, <1>3, <2>1 DEF Detached
<1> QED BY <1>1, <1>2, <1>3 DEF DetachComplete

\* A call detaches: a decision, or one that was made already and is told again.
LEMMA DetachCallTold ==
  ASSUME LineInv, NEW j \in Jobs, DetachEndPoint(j), NEW t \in Stations, Told(t)
  PROVE  Told(t)'
<1>0. ep \in [status : {"attached", "detached"}, sign : Keys] /\ TypeInv
  BY DEF LineInv, TypeInv, TypeOK
<1>1. CASE ep.status = "attached"
  BY <1>1, DetachedTold
<1>2. CASE ep.status # "attached"
  <2>1. UNCHANGED <<ep, newer, missed, owed, stale>>
    BY <1>0, <1>2 DEF DetachEndPoint, Detached
  <2>2. UNCHANGED <<hear, link, wire, holds, journal, offer, resumed, lapsed>> /\ \E r : Started(j, r)
    BY DEF DetachEndPoint, airVars
  <2>3. FramesStay(t) /\ (Sending(t) => Sending(t)')
    BY <1>0, <2>1, <2>2, StartStays
  <2>4. SameLine(t) /\ SameFlags(t) /\ SameGhosts(t)
    BY <2>1, <2>2 DEF SameLine, SameFlags, SameGhosts
  <2> QED BY <2>3, <2>4, ToldStays
<1> QED BY <1>1, <1>2

\* Who was to be told before a step is to be told, or has been told, after it.
LEMMA NoneForgottenKept ==
  ASSUME LineInv, NoneForgotten, Next
  PROVE  NoneForgotten'
<1>1. ASSUME NEW s \in Stations, StationStep(s), undecided' = undecided, NEW t \in Stations, Told(t),
             ~undecided'
      PROVE  Told(t)'
  <2>1. ASSUME NEW a \in Telegrams, Attach(s, a) PROVE Told(t)'
    BY <1>1, <2>1, QuietTold
  <2>2. CASE Serve(s) \/ ServeFails(s)
    BY <1>1, <2>2, QuietTold
  <2>3. ASSUME NEW j \in Jobs, AttachComplete(s, j) PROVE Told(t)'
    <3>1. CASE ep' = [ep EXCEPT !.status = "attached"] /\ Restated
      BY <2>3, <3>1, AttachedTold
    <3>2. CASE UNCHANGED <<ep, newer, missed, owed>>
      BY <1>1, <2>3, <3>2, QuietTold
    <3> QED BY <2>3, <3>1, <3>2 DEF AttachComplete
  <2>4. ASSUME NEW j \in Jobs, DetachComplete(s, j) PROVE Told(t)'
    BY <1>1, <2>4, DetachCompleteTold
  <2>5. ASSUME NEW j \in Jobs, Reissue(s, j) PROVE Told(t)'
    BY <1>1, <2>5, ReissueTold
  <2>6. CASE DetachReported(s)
    BY <1>1, <2>6, ReportedTold
  <2>7. CASE Deliver(s)
    BY <1>1, <2>7, DeliverTold
  <2>8. CASE Refuse(s)
    BY <1>1, <2>8, RefuseTold
  <2>9. CASE Break(s)
    BY <1>1, <2>9, BreakTold
  <2>10. CASE Unregister(s)
    BY <1>1, <2>10, UnregisterTold
  <2>11. CASE MarkDisconnected(s)
    BY <1>1, <2>11, MarkTold
  <2>12. CASE Connect(s)
    BY <1>1, <2>12, ConnectTold
  <2>13. CASE Activate(s)
    BY <1>1, <2>13, ActivateTold
  <2> QED BY <1>1, <2>1, <2>2, <2>3, <2>4, <2>5, <2>6, <2>7, <2>8, <2>9, <2>10, <2>11, <2>12, <2>13, Zenon
       DEF StationStep
<1>2. ASSUME NEW j \in Jobs, JobStep(j), ~AttachEndPoint(j), NEW t \in Stations, Told(t) PROVE Told(t)'
  <2>1. CASE DetachEndPoint(j)
    BY <1>2, <2>1, DetachCallTold
  <2>2. CASE ReadSession(j) \/ ReadKey(j)
    BY <1>2, <2>2, KeyReadsTold
  <2>3. CASE Snapshot(j)
    BY <1>2, <2>3, SnapshotTold
  <2>4. CASE ReadAttached(j)
    BY <1>2, <2>4, ReadAttachedTold
  <2>5. CASE ReadDetached(j)
    BY <1>2, <2>5, ReadDetachedTold
  <2>6. CASE Begin(j)
    BY <1>2, <2>6, BeginTold
  <2>7. CASE Frame(j)
    BY <1>2, <2>7, FrameTold
  <2>8. CASE SendFails(j)
    BY <1>2, <2>8, SendFailsTold
  <2> QED BY <1>2, <2>1, <2>2, <2>3, <2>4, <2>5, <2>6, <2>7, <2>8, Zenon DEF JobStep
<1>3. ASSUME NEW s \in Stations, StationStep(s), ~undecided', NEW t \in Stations PROVE Told(t)'
  <2>1. CASE undecided' = undecided
    BY <1>1, <1>3, <2>1 DEF NoneForgotten
  <2>2. ASSUME NEW j \in Jobs, AttachComplete(s, j), ~(undecided' = undecided) PROVE Told(t)'
    <3>1. ep' = [ep EXCEPT !.status = "attached"] /\ Restated
      BY <2>2 DEF AttachComplete
    <3> QED BY <2>2, <3>1, AttachedTold
  <2>3. undecided' = undecided \/ \E j \in Jobs : AttachComplete(s, j)
    BY <1>3 DEF StationStep, Attach, Serve, ServeFails, DetachReported, DetachComplete, Reissue, Deliver, Refuse,
       Break, Unregister, MarkDisconnected, Connect, Activate, keyGhosts
  <2> QED BY <2>1, <2>2, <2>3
<1>4. ASSUME NEW j \in Jobs, JobStep(j), ~undecided', NEW t \in Stations PROVE Told(t)'
  <2>1. CASE AttachEndPoint(j)
    BY <2>1, AttachedTold
  <2>2. CASE ~AttachEndPoint(j)
    <3>1. undecided' = undecided
      BY <1>4, <2>2 DEF JobStep, DetachEndPoint, ReadSession, ReadKey, Snapshot, ReadAttached, ReadDetached, Begin, Frame,
         SendFails, keyGhosts
    <3> QED BY <1>2, <1>4, <2>2, <3>1 DEF NoneForgotten
  <2> QED BY <2>1, <2>2
<1>5. ASSUME Crash, ~undecided', NEW t \in Stations PROVE Told(t)'
  <2>1. undecided' = undecided
    BY <1>5 DEF Crash, keyGhosts
  <2> QED BY <1>5, <2>1, CrashTold DEF NoneForgotten
<1>6. ~undecided' => \A t \in Stations : Told(t)'
  BY <1>3, <1>4, <1>5, NextCases
<1> QED BY <1>6 DEF NoneForgotten

\* The inductive invariant.
ConvergeInv == LineInv /\ NoneForgotten

\* At first nothing is under way, and every station holds the decision in force.
LEMMA ConvergeInit == Init => ConvergeInv
<1> SUFFICES ASSUME Init PROVE ConvergeInv
  OBVIOUS
<1>1. TypeInv
  BY TypesInit
<1>2. FlagsOK /\ NoOffer /\ AnswersMatch
  BY DEF Init, FlagsOK, NoOffer, AnswersMatch, RspOf
<1>3. OpsInv
  <2>1. \A s \in Stations : /\ OpsOK(journal[s], offer[s], wire[s], lastOp[s])
                            /\ \A j \in Jobs : ~OfSession(jobs[j], s) /\ ~AtFrame(jobs[j], s)
    BY NoneApart DEF Init, OpsOK, OfSession, AtFrame, Idle
  <2> QED BY <2>1 DEF OpsInv
<1>4. OneRecon
  BY DEF Init, OneRecon, ReconHere, Idle
<1>5. \A s \in Stations : Told(s)
  BY DEF Init, Told, Assured, Settles, InForceFrom, InForce
<1> QED BY <1>1, <1>2, <1>3, <1>4, <1>5 DEF ConvergeInv, LineInv, NoneForgotten

\* Every step keeps it.
LEMMA ConvergeKept == ConvergeInv /\ [Next]_vars => ConvergeInv'
<1> SUFFICES ASSUME ConvergeInv, [Next]_vars PROVE ConvergeInv'
  OBVIOUS
<1>1. CASE Next
  <2>1. TypeInv'
    BY TypesKept DEF ConvergeInv, LineInv
  <2>2. FlagsOK' /\ NoOffer' /\ OpsInv' /\ AnswersMatch' /\ OneRecon'
    BY <1>1, FlagsKept, NoOfferKept, OpsKept, AnswersKept, ReconKept DEF ConvergeInv, LineInv
  <2>3. NoneForgotten'
    BY <1>1, NoneForgottenKept DEF ConvergeInv
  <2> QED BY <2>1, <2>2, <2>3 DEF ConvergeInv, LineInv
<1>2. CASE UNCHANGED vars
  <2>1. TypeInv'
    BY TypesKept DEF ConvergeInv, LineInv
  <2> USE <1>2 DEF vars, epVars, linkVars, airVars, keyGhosts, prpGhosts, ConvergeInv, LineInv
  <2>2. FlagsOK' /\ NoOffer' /\ AnswersMatch' /\ OneRecon'
    BY DEF FlagsOK, NoOffer, AnswersMatch, RspOf, OneRecon, ReconHere
  <2>3. OpsInv'
    BY DEF OpsInv, OpsOK, Below, Apart, PrpApart, Away, OfSession, AtFrame, FrameOps, RecordOf, ToSet
  <2>4. \A t \in Stations : Told(t) => Told(t)'
    <3>1. ASSUME NEW t \in Stations, Told(t) PROVE Told(t)'
      <4>1. FramesStay(t) /\ (Sending(t) => Sending(t)')
        BY SameJobs
      <4>2. SameLine(t) /\ SameFlags(t) /\ SameGhosts(t)
        BY DEF SameLine, SameFlags, SameGhosts
      <4> QED BY <3>1, <4>1, <4>2, ToldStays
    <3> QED BY <3>1
  <2>5. NoneForgotten'
    BY <2>4 DEF NoneForgotten
  <2> QED BY <2>1, <2>2, <2>3, <2>5
<1> QED BY <1>1, <1>2

\* When all work is done, nothing that tells a station is left but what it holds.
LEMMA ConvergeAtRest == ConvergeInv => Converged
<1> SUFFICES ASSUME ConvergeInv, Rest, ~undecided, NEW s \in Stations,
                    link[s] = "live", ~stale[s], ~lapsed[s]
             PROVE  holds[s] = InForce(ep)
  BY DEF Converged
<1>1. Told(s)
  BY DEF ConvergeInv, NoneForgotten
<1>2. wire[s] = <<>> /\ hear[s] # DetLost
  BY DEF Rest, DetLost
<1>3. ~Answering(s)
  BY <1>2 DEF Answering
<1>4. ~Recorded(s)
  BY <1>2 DEF Recorded, Held, Written, AtFrame, Rest
<1>5. ~Sending(s)
  BY IdleSends DEF Sending, Rest, ConvergeInv, LineInv, PCs
<1>6. ~ToBeTold(s)
  BY <1>5 DEF ToBeTold
<1> QED BY <1>1, <1>3, <1>4, <1>6 DEF Told, Assured, Settles

\* However decisions, propagations, lost connections, resumes and restarts
\* interleave (handleAttachComplete, SendAttachPropagate, ReconcileBaseStation,
\* reissueResumedOperations), once all work is done a connected station holds
\* the end point as it was last decided, unless its newest frame was overtaken
\* or its propagation was given up.
THEOREM StationsConverge == Spec => []Converged
<1>1. Spec => []ConvergeInv
  BY ConvergeInit, ConvergeKept, PTL DEF Spec
<1> QED BY <1>1, ConvergeAtRest, PTL

=============================================================================
