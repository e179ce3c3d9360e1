------------------------- MODULE ScaciSessionProofs -------------------------
(***************************************************************************)
(* Proofs about ScaciSession, for any number of connections, session rows, *)
(* messages, operation ids and failures.  First what each step does to the *)
(* fields of the state, then the inductive invariant in five parts (the    *)
(* sessions, the gates and broadcasts, the ids, the frames, the log), then *)
(* the theorems.                                                           *)
(***************************************************************************)
EXTENDS ScaciSession, TLAPS, FiniteSetTheorems, WellFoundedInduction

-----------------------------------------------------------------------------
(* The fields of the state.                                                *)

Pc(o)     == obj[o].pc
Row(o)    == obj[o].row
Res(o)    == obj[o].resumed
St(o)     == obj[o].state
Sc(o)     == obj[o].sc
Up(o)     == obj[o].up
Aw(o)     == obj[o].awaiting
Status(r) == rows[r].status
By(r)     == held[r].by
Step(c)   == reissue[c].step
Todo(c)   == reissue[c].todo
At(m)     == sender[m].pc
To(m)     == sender[m].to
Id(m)     == sender[m].id
Frames(c) == wire[c].frames
AcSession == ac.session

SameObj(o) ==
  /\ Pc(o)' = Pc(o) /\ Row(o)' = Row(o) /\ (Res(o)' <=> Res(o)) /\ St(o)' = St(o)
  /\ Sc(o)' = Sc(o) /\ (Up(o)' <=> Up(o)) /\ Aw(o)' = Aw(o)
SameObjs      == \A o \in Objects : SameObj(o)
SameStatus    == \A r \in Rows : Status(r)' = Status(r)
SameHeld      == \A r \in Rows : By(r)' = By(r)
SameReissue   == \A c \in Conns : Step(c)' = Step(c) /\ Todo(c)' = Todo(c)
SameSender(m) == At(m)' = At(m) /\ To(m)' = To(m) /\ Id(m)' = Id(m)
SameSenders   == \A m \in Msgs : SameSender(m)
SameFrames    == \A c \in Conns : Frames(c)' = Frames(c)

\* What the fields may be.
Fields ==
  /\ \A o \in Objects :
       /\ Pc(o) \in Steps /\ Row(o) \in Rows \cup {NoRow} /\ Res(o) \in BOOLEAN
       /\ St(o) \in {"connecting", "reissuing", "active"} /\ Sc(o) \in OpIds \cup {0}
       /\ Up(o) \in BOOLEAN /\ Aw(o) \subseteq FrameType
  /\ \A r \in Rows : /\ Status(r) \in {"absent", "active", "disconnected", "terminated"}
                     /\ By(r) \in Objects \cup {NoConn}
                     /\ r \in Held <=> By(r) # NoConn
  /\ \A c \in Conns : Step(c) \in {"none", "read", "send"} /\ Todo(c) \subseteq EntryType
  /\ \A m \in Msgs : /\ At(m) \in {"idle", "targeted", "issued", "recorded", "done"}
                     /\ To(m) \in Conns \cup {NoConn} /\ Id(m) \in OpIds \cup {0}
  /\ \A c \in Conns : Frames(c) \in Seq(FrameType)
  /\ AcSession \in Rows \cup {NoRow}

\* Connections, rows, objects and ids are different numbers.
LEMMA Numbers ==
  /\ Conns \subseteq Nat \ {0} /\ Rows \subseteq Nat \ {0} /\ Objects \subseteq Nat
  /\ Conns \subseteq Objects /\ BootObject \in Objects /\ BootObject \notin Conns
  /\ NoConn \notin Objects /\ NoRow \notin Rows /\ NoConn \in Int /\ NoRow \in Int
  /\ OpIds \subseteq Int /\ \A i \in OpIds : i < 0 /\ i >= 0 - MaxSc
  /\ MaxSc \in Nat /\ \A i \in Int : i < 0 /\ i >= 0 - MaxSc => i \in OpIds
BY ScaciAssumption DEF Conns, Rows, Objects, BootObject, NoConn, NoRow, OpIds

\* The type invariant gives each field its type.
LEMMA FieldsOK == ASSUME TypeOK PROVE Fields
<1>1. \A o \in Objects :
       /\ Pc(o) \in Steps /\ Row(o) \in Rows \cup {NoRow} /\ Res(o) \in BOOLEAN
       /\ St(o) \in {"connecting", "reissuing", "active"} /\ Sc(o) \in OpIds \cup {0}
       /\ Up(o) \in BOOLEAN /\ Aw(o) \subseteq FrameType
  BY DEF TypeOK, ObjType, Pc, Row, Res, St, Sc, Up, Aw
<1>2. ASSUME NEW r \in Rows
      PROVE  /\ Status(r) \in {"absent", "active", "disconnected", "terminated"}
             /\ By(r) \in Objects \cup {NoConn}
             /\ r \in Held <=> By(r) # NoConn
  <2>1. Status(r) \in {"absent", "active", "disconnected", "terminated"}
    BY DEF TypeOK, RowType, Status
  <2>2. held[r] \in HeldType
    BY DEF TypeOK
  <2>3. CASE held[r] = NotHeld
    BY <2>1, <2>3 DEF Held, NotHeld, By
  <2>4. CASE held[r] # NotHeld
    <3>1. held[r] \in [by : Objects, pending : Nat \cup {NotCounted}]
      BY <2>2, <2>4 DEF HeldType
    <3>2. By(r) \in Objects
      BY <3>1 DEF By
    <3> QED BY <2>1, <2>4, <3>2, Numbers DEF Held
  <2> QED BY <2>3, <2>4
<1>3. \A c \in Conns : Step(c) \in {"none", "read", "send"} /\ Todo(c) \subseteq EntryType
  BY DEF TypeOK, ReissueType, Step, Todo
<1>4. \A m \in Msgs : /\ At(m) \in {"idle", "targeted", "issued", "recorded", "done"}
                      /\ To(m) \in Conns \cup {NoConn} /\ Id(m) \in OpIds \cup {0}
  BY DEF TypeOK, SenderType, At, To, Id
<1>5. \A c \in Conns : Frames(c) \in Seq(FrameType)
  BY DEF TypeOK, WireType, Frames
<1>6. AcSession \in Rows \cup {NoRow}
  BY DEF TypeOK, AcSession
<1> QED BY <1>1, <1>2, <1>3, <1>4, <1>5, <1>6 DEF Fields

\* Every counter is an integer.
LEMMA CountersOK == ASSUME TypeOK PROVE \A o \in Objects : Sc(o) \in Int
<1>1. \A o \in Objects : Sc(o) \in OpIds \cup {0}
  BY FieldsOK DEF Fields
<1>2. OpIds \subseteq Int
  BY Numbers
<1>3. ASSUME NEW o \in Objects PROVE Sc(o) \in Int
  <2>1. Sc(o) \in OpIds \/ Sc(o) = 0
    BY <1>1
  <2>2. CASE Sc(o) = 0
    <3>1. 0 \in Int
      OBVIOUS
    <3> QED BY <2>2, <3>1, Zenon
  <2>3. CASE Sc(o) \in OpIds
    BY <1>2, <2>3, Zenon
  <2> QED BY <2>1, <2>2, <2>3, Zenon
<1> QED BY <1>3

\* The same after a step.
LEMMA FieldsNext == ASSUME TypeOK' PROVE Fields'
BY FieldsOK, PTL

-----------------------------------------------------------------------------
(* The operators of the model.                                             *)

\* The smaller of two ids (UpdateOperationIDs, continueFrom).
LEMMA MinOfTwo ==
  ASSUME NEW a \in Int, NEW b \in Int
  PROVE  Min({a, b}) \in {a, b} /\ Min({a, b}) <= a /\ Min({a, b}) <= b
<1>1. \E x \in {a, b} : \A y \in {a, b} : x <= y
  OBVIOUS
<1> QED BY <1>1 DEF Min

\* The smallest of one id.
LEMMA MinOfOne == ASSUME NEW a \in Int PROVE Min({a}) = a
<1>1. \E x \in {a} : \A y \in {a} : x <= y
  OBVIOUS
<1> QED BY <1>1 DEF Min

\* continueFrom, from at most one object.
LEMMA ContinuedFromNone ==
  ASSUME TypeOK, NEW c \in Objects
  PROVE  ContinuedCounter(c, {}) = Sc(c)
<1>1. obj[c].sc \in Int
  <2>1. Sc(c) \in Int
    BY CountersOK
  <2> QED BY <2>1 DEF Sc
<1>2. {obj[c].sc} \cup {obj[o].sc : o \in {}} = {obj[c].sc}
  OBVIOUS
<1> QED BY <1>1, <1>2, MinOfOne DEF ContinuedCounter, Sc

\* continueFrom takes the lower of the two counters.
LEMMA ContinuedFromOne ==
  ASSUME TypeOK, NEW c \in Objects, NEW p \in Objects
  PROVE  /\ ContinuedCounter(c, {p}) \in {Sc(c), Sc(p)}
         /\ ContinuedCounter(c, {p}) <= Sc(c) /\ ContinuedCounter(c, {p}) <= Sc(p)
<1>1. obj[c].sc \in Int /\ obj[p].sc \in Int
  <2>1. Sc(c) \in Int /\ Sc(p) \in Int
    BY CountersOK
  <2> QED BY <2>1 DEF Sc
<1>2. {obj[c].sc} \cup {obj[o].sc : o \in {p}} = {obj[c].sc, obj[p].sc}
  OBVIOUS
<1> QED BY <1>1, <1>2, MinOfTwo DEF ContinuedCounter, Sc

\* The holder releases every session of the AC (holder.Release).
LEMMA ReleasedAll ==
  ASSUME NEW r \in Rows
  PROVE  Released(r) = [q \in Rows |-> NotHeld]
BY DEF Released, SupersededBy

\* A set of operations has one with the largest id (NextReissued).
LEMMA NextReissuedOf ==
  ASSUME NEW S \in SUBSET EntryType, S # {}
  PROVE  NextReissued(S) \in S /\ \A f \in S : NextReissued(S).id >= f.id
<1> DEFINE Ids == {0 - e.id : e \in S}
           Less == {p \in Nat \X Nat : p[1] < p[2]}
<1>1. IsWellFoundedOn(Less, Nat)
  BY NatLessThanWellFounded DEF OpToRel
<1>2. \A e \in S : e.id \in Int /\ e.id < 0
  BY Numbers DEF EntryType
<1>3. Ids \subseteq Nat /\ Ids # {}
  BY <1>2
<1>4. \E x \in Ids : \A y \in Ids : ~(<<y, x>> \in Less)
  <2> HIDE DEF Less, Ids
  <2> QED BY <1>1, <1>3, WFMin
<1>5. PICK x \in Ids : \A y \in Ids : ~(<<y, x>> \in Less)
  BY <1>4
<1>6. PICK e \in S : x = 0 - e.id
  OBVIOUS
<1>7. ASSUME NEW f \in S PROVE e.id >= f.id
  <2>1. 0 - f.id \in Ids /\ 0 - f.id \in Nat /\ x \in Nat
    BY <1>3
  <2>2. ~(0 - f.id < x)
    BY <1>5, <2>1
  <2> QED BY <1>2, <1>6, <2>1, <2>2
<1>8. \E y \in S : \A f \in S : y.id >= f.id
  BY <1>7
<1> HIDE DEF Ids, Less
<1> QED BY <1>8 DEF NextReissued

\* There are finitely many operations a row may have on record.
LEMMA EntriesFinite == IsFiniteSet(EntryType)
<1> DEFINE P == (Rows \X OpIds) \X (Msgs \X BOOLEAN)
           F == [p \in P |-> [row |-> p[1][1], id |-> p[1][2], msg |-> p[2][1], done |-> p[2][2]]]
<1>1. IsFiniteSet(Rows) /\ IsFiniteSet(OpIds) /\ IsFiniteSet(BOOLEAN)
  <2>1. IsFiniteSet({} \cup {TRUE})
    BY FS_EmptySet, FS_AddElement
  <2>2. IsFiniteSet(({} \cup {TRUE}) \cup {FALSE})
    BY <2>1, FS_AddElement
  <2>3. ({} \cup {TRUE}) \cup {FALSE} = BOOLEAN
    OBVIOUS
  <2>4. MaxRows \in Int /\ 0 - MaxSc \in Int /\ 0 - 1 \in Int
    BY ScaciAssumption
  <2>5. IsFiniteSet(1..MaxRows) /\ IsFiniteSet((0 - MaxSc)..(0 - 1))
    BY <2>4, FS_Interval
  <2> QED BY <2>2, <2>3, <2>5 DEF Rows, OpIds
<1>2. IsFiniteSet(P)
  BY <1>1, FS_Product, ScaciAssumption
<1>3. F \in Surjection(P, EntryType)
  <2>1. F \in [P -> EntryType]
    BY DEF EntryType
  <2>2. ASSUME NEW e \in EntryType PROVE \E p \in P : F[p] = e
    <3>1. <<<<e.row, e.id>>, <<e.msg, e.done>>>> \in P
      BY DEF EntryType
    <3>2. F[<<<<e.row, e.id>>, <<e.msg, e.done>>>>] = e
      BY <3>1 DEF EntryType
    <3> QED BY <3>1, <3>2
  <2> QED BY <2>1, <2>2 DEF Surjection
<1> HIDE DEF P, F
<1> QED BY <1>2, <1>3, FS_Surjection

\* What a row has pending is finite.
LEMMA PendingFinite ==
  ASSUME NEW S \in SUBSET EntryType
  PROVE  IsFiniteSet(S) /\ Cardinality(S) \in Nat
BY EntriesFinite, FS_Subset, FS_CardinalityType

\* The last operation to reissue (Reissue).
LEMMA LastReissued ==
  ASSUME NEW S \in SUBSET EntryType
  PROVE  /\ S = {} => Cardinality(S) <= 1
         /\ S # {} /\ Cardinality(S) <= 1 => S = {NextReissued(S)}
<1>1. S = {} => Cardinality(S) <= 1
  BY FS_EmptySet
<1>2. ASSUME S # {}, Cardinality(S) <= 1 PROVE S = {NextReissued(S)}
  <2>1. Cardinality(S) = 1
    <3>1. Cardinality(S) # 0
      BY <1>2, PendingFinite, FS_EmptySet
    <3> QED BY <1>2, <3>1, PendingFinite
  <2>2. \E x : S = {x}
    BY <2>1, PendingFinite, FS_Singleton
  <2> QED BY <2>2, <1>2, NextReissuedOf
<1> QED BY <1>1, <1>2

-----------------------------------------------------------------------------
(* What the steps do to the fields of the state.                           *)

\* A connection's reader has a session row, its sends have a target.
Phases ==
  \A c \in Conns :
    /\ Pc(c) \in {"adopting", "answered", "completing", "resuming", "reading", "losing"}
         => Row(c) \in Rows
    /\ Pc(c) \in {"unused", "creating"} => Row(c) = NoRow
    /\ Pc(c) \in {"unused", "looking", "creating"} => ~Res(c)
    /\ Pc(c) \in {"unused", "looking", "creating", "adopting", "answered", "completing", "closing"}
         => St(c) = "connecting"
    /\ Pc(c) \in {"resuming", "reading"} => St(c) # "connecting"
    /\ St(c) # "connecting" => Row(c) \in Rows
    /\ c \in mapped => /\ Pc(c) \in {"answered", "completing", "resuming", "reading", "closing"}
                       /\ Row(c) \in Rows

\* An entry of the holder is of the object whose row it is.
HolderHasRow ==
  \A r \in Rows : By(r) # NoConn =>
    /\ Row(By(r)) = r
    /\ By(r) \in Conns => Pc(By(r)) \in {"answered", "completing", "resuming", "reading",
                                         "closing", "losing", "gone"}

Sending(m) == At(m) \in {"issued", "recorded"}
Busy(m)    == At(m) = "targeted" \/ Sending(m)

\* A broadcast in progress has a session that went live, and its own id.
BusyTarget ==
  \A m \in Msgs :
    /\ Busy(m) => To(m) \in Conns /\ St(To(m)) # "connecting" /\ Row(To(m)) \in Rows
    /\ Sending(m) => Id(m) \in OpIds /\ Sc(To(m)) <= Id(m)

Base == TypeOK /\ Phases /\ HolderHasRow /\ BusyTarget

CanResume(r) == Status(r) \in {"active", "disconnected"}
IsLive(c)    == St(c) \in {"reissuing", "active"}
Owner(o)     == o \in mapped \/ \E r \in Rows : Row(o) = r /\ By(r) = o

OthersSame(c) == \A o \in Objects : o # c => SameObj(o)
SameGhosts    == /\ accepted' = accepted /\ reach' = reach /\ late' = late
                 /\ (inverted' <=> inverted) /\ (behind' <=> behind)
SameFaults    == faults' = 0 => faults = 0

AcOpens(c) ==
  /\ Pc(c) = "unused" /\ Pc(c)' = "looking" /\ Row(c)' \in {NoRow, AcSession} /\ ~Res(c)'
  /\ St(c)' = "connecting" /\ Sc(c)' = 0 /\ Aw(c)' = {}
  /\ OthersSame(c)
  /\ AcSession' \in {NoRow, AcSession}
  /\ SameFrames /\ SameStatus /\ SameHeld /\ SameReissue /\ SameSenders /\ SameGhosts /\ SameFaults
  /\ log' = log /\ mapped' = mapped /\ gate' = gate /\ lifecycle' = lifecycle

Looks(c) ==
  /\ Pc(c) = "looking"
  /\ \/ /\ Pc(c)' = "adopting" /\ Res(c)' /\ Row(c)' = Row(c) /\ Row(c) \in Rows
     \/ Pc(c)' = "creating" /\ Row(c)' = NoRow /\ Sc(c)' = Sc(c) /\ (Res(c)' <=> Res(c))
  /\ St(c)' = St(c) /\ (Up(c)' <=> Up(c)) /\ Aw(c)' = Aw(c)
  /\ OthersSame(c)
  /\ AcSession' = AcSession
  /\ SameFrames /\ SameStatus /\ SameHeld /\ SameReissue /\ SameSenders /\ SameGhosts /\ SameFaults
  /\ log' = log /\ mapped' = mapped /\ gate' = gate /\ lifecycle' = lifecycle

Creates(c) ==
  /\ Pc(c) = "creating"
  /\ \/ \E r \in Rows :
          /\ Status(r) = "absent" /\ \A q \in Rows : q < r => Status(q) # "absent"
          /\ Status(r)' = "active"
          /\ \A q \in Rows : q # r => Status(q)' = IF Status(q) = "absent" THEN "absent" ELSE "terminated"
          /\ Pc(c)' = "adopting" /\ Row(c)' = r /\ (Up(c)' <=> Up(c))
     \/ SameStatus /\ Pc(c)' = "closing" /\ Row(c)' = Row(c) /\ ~Up(c)'
  /\ St(c)' = St(c) /\ Sc(c)' = Sc(c) /\ Aw(c)' = Aw(c) /\ (Res(c)' <=> Res(c))
  /\ OthersSame(c)
  /\ AcSession' = AcSession
  /\ SameFrames /\ SameHeld /\ SameReissue /\ SameSenders /\ SameGhosts /\ SameFaults
  /\ log' = log /\ mapped' = mapped /\ gate' = gate /\ lifecycle' = lifecycle

\* The session is adopted (k), or its resume is refused.
Adopts(c, k) ==
  /\ Pc(c) = "adopting" /\ Row(c) \in Rows /\ c \notin mapped
  /\ k <=> \/ ~Res(c) \/ By(Row(c)) # NoConn
           \/ \E d \in mapped : Row(d) = Row(c)
  /\ Pc(c)' = IF k THEN "answered" ELSE "closing"
  /\ Row(c)' = Row(c) /\ (Res(c)' <=> Res(c)) /\ St(c)' = St(c) /\ Aw(c)' = Aw(c)
  /\ Up(c)' <=> Up(c) /\ k
  /\ Sc(c)' <= Sc(c) /\ Sc(c)' \in OpIds \cup {0}
  /\ k /\ Res(c) => \E o \in Objects : Owner(o) /\ Row(o) = Row(c) /\ Sc(c)' <= Sc(o)
  /\ \A o \in Objects : o # c =>
       /\ Pc(o)' = Pc(o) /\ Row(o)' = Row(o) /\ (Res(o)' <=> Res(o)) /\ St(o)' = St(o)
       /\ Sc(o)' = Sc(o) /\ Aw(o)' = Aw(o) /\ (Up(o)' <=> Up(o) /\ o \notin mapped)
  /\ mapped' = IF k THEN {c} ELSE {}
  /\ \A q \in Rows : By(q)' = IF k /\ q = Row(c) THEN c ELSE NoConn
  /\ ~inverted' => /\ ~inverted
                   /\ \A q \in Rows : By(q) # NoConn => q <= Row(c)
                   /\ \A d \in mapped : Row(d) <= Row(c)
  /\ AcSession' = AcSession
  /\ SameFrames /\ SameStatus /\ SameReissue /\ SameSenders /\ SameFaults
  /\ accepted' = accepted /\ reach' = reach /\ late' = late /\ (behind' <=> behind)
  /\ log' = log /\ gate' = gate /\ lifecycle' = lifecycle

AcCompletes(c) ==
  /\ Pc(c) = "answered" /\ Up(c) /\ Pc(c)' = "completing"
  /\ Row(c)' = Row(c) /\ (Res(c)' <=> Res(c)) /\ St(c)' = St(c) /\ Sc(c)' = Sc(c) /\ Aw(c)' = Aw(c)
  /\ Up(c)' <=> Up(c)
  /\ OthersSame(c)
  /\ AcSession' = Row(c)
  /\ SameFrames /\ SameStatus /\ SameHeld /\ SameReissue /\ SameSenders /\ SameGhosts /\ SameFaults
  /\ log' = log /\ mapped' = mapped /\ gate' = gate /\ lifecycle' = lifecycle

GoesLive(c) ==
  /\ Pc(c) = "completing" /\ Row(c) \in Rows /\ gate[c] = "open" /\ lifecycle[Row(c)] = NoConn
  /\ \/ /\ Pc(c)' = "closing" /\ ~Up(c)' /\ St(c)' = St(c)
        /\ \/ c \notin mapped /\ SameHeld
           \/ c \in mapped /\ By(Row(c)) = NoConn /\ \A q \in Rows : By(q)' = NoConn
        /\ gate' = gate /\ lifecycle' = lifecycle /\ SameReissue
     \/ /\ c \in mapped /\ St(c)' = "reissuing" /\ (Up(c)' <=> Up(c))
        /\ \A q \in Rows : By(q)' = NoConn
        /\ gate'[c] = "reissue" /\ \A o \in Objects : o # c => gate'[o] = gate[o]
        /\ \A d \in Conns : d # c => Step(d)' = Step(d)
        /\ \A d \in Conns : Todo(d)' = Todo(d)
        /\ \A q \in Rows : q # Row(c) => lifecycle'[q] = lifecycle[q]
        /\ \/ /\ Res(c) /\ Pc(c)' = "resuming" /\ Step(c)' = Step(c)
              /\ lifecycle'[Row(c)] = c
           \/ /\ ~Res(c) /\ Pc(c)' = "reading" /\ Step(c)' = "read"
              /\ lifecycle'[Row(c)] = NoConn
  /\ Row(c)' = Row(c) /\ (Res(c)' <=> Res(c)) /\ Sc(c)' = Sc(c) /\ Aw(c)' = Aw(c)
  /\ OthersSame(c)
  /\ AcSession' = AcSession
  /\ SameFrames /\ SameStatus /\ SameSenders /\ SameGhosts /\ SameFaults
  /\ log' = log /\ mapped' = mapped

Resumes(c) ==
  /\ Pc(c) = "resuming" /\ Row(c) \in Rows /\ Pc(c)' = "reading"
  /\ Row(c)' = Row(c) /\ (Res(c)' <=> Res(c)) /\ St(c)' = St(c) /\ Sc(c)' = Sc(c) /\ Aw(c)' = Aw(c)
  /\ Up(c)' <=> Up(c)
  /\ OthersSame(c)
  /\ \A q \in Rows : q # Row(c) => Status(q)' = Status(q)
  /\ \/ Status(Row(c))' = IF CanResume(Row(c)) THEN "active" ELSE Status(Row(c))
     \/ Status(Row(c))' = Status(Row(c)) /\ faults' # 0
  /\ \A q \in Rows : lifecycle'[q] = IF q = Row(c) /\ lifecycle[q] = c THEN NoConn ELSE lifecycle[q]
  /\ Step(c)' = "read" /\ Todo(c)' = Todo(c)
  /\ \A d \in Conns : d # c => Step(d)' = Step(d) /\ Todo(d)' = Todo(d)
  /\ AcSession' = AcSession
  /\ SameFrames /\ SameHeld /\ SameSenders /\ SameGhosts /\ SameFaults
  /\ log' = log /\ mapped' = mapped /\ gate' = gate

Breaks(c) ==
  /\ ~Up(c)' /\ Pc(c)' = Pc(c)
  /\ Row(c)' = Row(c) /\ (Res(c)' <=> Res(c)) /\ St(c)' = St(c) /\ Sc(c)' = Sc(c) /\ Aw(c)' = Aw(c)
  /\ OthersSame(c)
  /\ AcSession' = AcSession
  /\ SameFrames /\ SameStatus /\ SameHeld /\ SameReissue /\ SameSenders /\ SameGhosts /\ SameFaults
  /\ log' = log /\ mapped' = mapped /\ gate' = gate /\ lifecycle' = lifecycle

Loses(c) ==
  /\ ~Up(c) /\ Pc(c) \in {"answered", "reading", "closing"}
  /\ \/ /\ c \in mapped /\ Row(c) \in Rows /\ lifecycle[Row(c)] = NoConn
        /\ mapped' = mapped \ {c} /\ Pc(c)' = "losing"
        /\ \A q \in Rows : q # Row(c) => By(q)' = By(q) /\ lifecycle'[q] = lifecycle[q]
        /\ By(Row(c))' = IF By(Row(c)) = NoConn THEN c ELSE By(Row(c))
        /\ lifecycle'[Row(c)] = c
     \/ c \notin mapped /\ mapped' = mapped /\ Pc(c)' = "gone" /\ SameHeld /\ lifecycle' = lifecycle
  /\ Row(c)' = Row(c) /\ (Res(c)' <=> Res(c)) /\ St(c)' = St(c) /\ Sc(c)' = Sc(c) /\ Aw(c)' = Aw(c)
  /\ Up(c)' <=> Up(c)
  /\ OthersSame(c)
  /\ AcSession' = AcSession
  /\ SameFrames /\ SameStatus /\ SameReissue /\ SameSenders /\ SameGhosts /\ SameFaults
  /\ log' = log /\ gate' = gate

Disconnects(c) ==
  /\ Pc(c) = "losing" /\ Row(c) \in Rows /\ Pc(c)' = "gone"
  /\ Row(c)' = Row(c) /\ (Res(c)' <=> Res(c)) /\ St(c)' = St(c) /\ Sc(c)' = Sc(c) /\ Aw(c)' = Aw(c)
  /\ Up(c)' <=> Up(c)
  /\ OthersSame(c)
  /\ \A q \in Rows : q # Row(c) => Status(q)' = Status(q)
  /\ \/ Status(Row(c))' = IF Status(Row(c)) = "active" THEN "disconnected" ELSE Status(Row(c))
     \/ Status(Row(c))' = Status(Row(c)) /\ faults' # 0
  /\ \A q \in Rows : lifecycle'[q] = IF q = Row(c) /\ lifecycle[q] = c THEN NoConn ELSE lifecycle[q]
  /\ AcSession' = AcSession
  /\ SameFrames /\ SameHeld /\ SameReissue /\ SameSenders /\ SameGhosts /\ SameFaults
  /\ log' = log /\ mapped' = mapped /\ gate' = gate

Restarts ==
  /\ \A r \in Rows : Status(r)' = IF Status(r) = "active" THEN "disconnected" ELSE Status(r)
  /\ \A r \in Rows : By(r)' = IF CanResume(r) THEN BootObject ELSE NoConn
  /\ \A o \in Objects : /\ ~Up(o)' /\ St(o)' = "connecting" /\ Aw(o)' = {} /\ ~Res(o)'
  /\ \A c \in Conns : /\ Pc(c)' = IF Pc(c) = "unused" THEN "unused" ELSE "gone"
                      /\ Row(c)' = IF Pc(c) = "unused" THEN NoRow ELSE Row(c)
                      /\ Sc(c)' = 0
                      /\ Step(c)' = "none" /\ Todo(c)' = {}
  /\ \A r \in Rows : CanResume(r) /\ (\A q \in Rows : CanResume(q) => q = r) =>
       Row(BootObject)' = r /\ Sc(BootObject)' = rows[r].sc
  /\ (\A q \in Rows : ~CanResume(q)) => Row(BootObject)' = NoRow
  /\ mapped' = {} /\ gate' = [o \in Objects |-> "open"] /\ lifecycle' = [r \in Rows |-> NoConn]
  /\ \A m \in Msgs : At(m)' \in {"idle", "done"}
  /\ ~behind' => ~behind /\ \A e \in log : ~(e.id < rows[e.row].sc)
  /\ AcSession' = AcSession /\ SameFrames /\ SameFaults
  /\ accepted' = accepted /\ reach' = reach /\ late' = late /\ (inverted' <=> inverted)
  /\ log' = log

ReissueReads(c) ==
  /\ Step(c) = "read" /\ Step(c)' = "send"
  /\ \/ Todo(c)' = Pending(Row(c))
     \/ Todo(c)' = Todo(c) /\ faults' # 0
  /\ \A d \in Conns : d # c => Step(d)' = Step(d) /\ Todo(d)' = Todo(d)
  /\ AcSession' = AcSession
  /\ SameObjs /\ SameFrames /\ SameStatus /\ SameHeld /\ SameSenders /\ SameGhosts /\ SameFaults
  /\ log' = log /\ mapped' = mapped /\ gate' = gate /\ lifecycle' = lifecycle

\* A frame id, m is written to c and its answer awaited.
Writes(c, id, m) ==
  /\ Aw(c)' = {a \in Aw(c) : a.id # id} \cup {[id |-> id, msg |-> m]}
  /\ Frames(c)' = IF Up(c) THEN Append(Frames(c), [id |-> id, msg |-> m]) ELSE Frames(c)

\* The object c keeps its session.
Stays(c) ==
  /\ Pc(c)' = Pc(c) /\ Row(c)' = Row(c) /\ (Res(c)' <=> Res(c)) /\ (Up(c)' <=> Up(c))

Reissues(c) ==
  /\ Step(c) = "send"
  /\ \/ Todo(c) = {} /\ Aw(c)' = Aw(c) /\ Frames(c)' = Frames(c) /\ Step(c)' = "none"
     \/ \E e \in Todo(c) :
          /\ \A f \in Todo(c) : e.id >= f.id
          /\ Writes(c, e.id, e.msg)
          /\ \/ Todo(c) = {e} /\ Step(c)' = "none"
             \/ Step(c)' = "send" /\ Todo(c)' = Todo(c) \ {e}
  /\ \/ Step(c)' = "none" /\ Todo(c)' = {} /\ St(c)' = "active" /\ gate'[c] = "open"
     \/ Step(c)' = "send" /\ St(c)' = St(c) /\ gate'[c] = gate[c]
  /\ Stays(c) /\ Sc(c)' = Sc(c) /\ OthersSame(c)
  /\ \A o \in Objects : o # c => gate'[o] = gate[o]
  /\ \A d \in Conns : d # c => Step(d)' = Step(d) /\ Todo(d)' = Todo(d) /\ Frames(d)' = Frames(d)
  /\ AcSession' = AcSession
  /\ SameStatus /\ SameHeld /\ SameSenders /\ SameGhosts /\ SameFaults
  /\ log' = log /\ mapped' = mapped /\ lifecycle' = lifecycle

\* What the holder does with a broadcast of m for the row r it holds for o.
HolderRecords(r, o, m, failed) ==
  /\ By(r) = o
  /\ \A x \in Objects : /\ Stays(x) /\ St(x)' = St(x) /\ Aw(x)' = Aw(x)
                        /\ x # o => Sc(x)' = Sc(x)
  /\ \A q \in Rows : q # r => Status(q)' = Status(q) /\ By(q)' = By(q)
  /\ \/ /\ log' = log /\ Sc(o)' <= Sc(o)
        /\ Status(r)' = Status(r) /\ By(r)' = By(r)
        /\ failed \/ OnRecord(r, m)
     \/ /\ Sc(o)' = Sc(o) - 1 /\ Sc(o)' \in OpIds
        /\ log' = log \cup {Entry(r, Sc(o) - 1, m)}
        /\ \/ Status(r)' = Status(r) /\ By(r)' = By(r)
           \/ Status(r)' = "terminated" /\ By(r)' = NoConn

FindsTargets(m) ==
  /\ At(m) = "idle"
  /\ reach'[m] = AcSession /\ \A n \in Msgs : n # m => reach'[n] = reach[n]
  /\ \E failed \in BOOLEAN :
       /\ \/ \E r \in Rows, o \in Objects : HolderRecords(r, o, m, failed)
          \/ /\ \A r \in Rows : By(r) = NoConn
             /\ ~failed /\ SameObjs /\ SameStatus /\ SameHeld /\ log' = log
       /\ \/ \E c \in mapped : /\ IsLive(c) /\ At(m)' = "targeted" /\ To(m)' = c
                               /\ accepted' = accepted \ {m}
          \/ /\ \A c \in mapped : ~IsLive(c)
             /\ At(m)' \in {"idle", "done"}
             /\ accepted' = IF failed THEN accepted \ {m} ELSE accepted \cup {m}
  /\ \A n \in Msgs : n # m => SameSender(n)
  /\ AcSession' = AcSession
  /\ SameFrames /\ SameReissue /\ SameFaults
  /\ late' = late /\ (inverted' <=> inverted) /\ (behind' <=> behind)
  /\ mapped' = mapped /\ gate' = gate /\ lifecycle' = lifecycle

Issues(m, c) ==
  /\ At(m) = "targeted" /\ To(m) = c /\ gate[c] = "open"
  /\ At(m)' = "issued" /\ To(m)' = c /\ Id(m)' = Sc(c) - 1
  /\ Sc(c)' = Sc(c) - 1 /\ Sc(c)' \in OpIds
  /\ Stays(c) /\ St(c)' = St(c) /\ Aw(c)' = Aw(c) /\ OthersSame(c)
  /\ gate'[c] = "send" /\ \A o \in Objects : o # c => gate'[o] = gate[o]
  /\ \A n \in Msgs : n # m => SameSender(n)
  /\ AcSession' = AcSession
  /\ SameFrames /\ SameStatus /\ SameHeld /\ SameReissue /\ SameGhosts /\ SameFaults
  /\ log' = log /\ mapped' = mapped /\ lifecycle' = lifecycle

\* The broadcast of m leaves the gate of the session c.
Leaves(m, c, failed) ==
  /\ gate'[c] = "open" /\ \A o \in Objects : o # c => gate'[o] = gate[o]
  /\ At(m)' \in {"idle", "done"}
  /\ accepted' = IF failed THEN accepted \ {m} ELSE accepted \cup {m}

Records(m, c) ==
  /\ At(m) = "issued" /\ To(m) = c
  /\ \/ /\ OnRecord(Row(c), m) /\ log' = log /\ late' = late
        /\ \E failed \in BOOLEAN : Leaves(m, c, failed)
     \/ /\ log' = log \cup {Entry(Row(c), Id(m), m)}
        /\ late' = IF Owner(c) THEN late ELSE late \cup {Entry(Row(c), Id(m), m)}
        /\ At(m)' = "recorded" /\ To(m)' = c /\ Id(m)' = Id(m)
        /\ gate' = gate /\ accepted' = accepted
     \/ Leaves(m, c, TRUE) /\ log' = log /\ late' = late
  /\ \A n \in Msgs : n # m => SameSender(n)
  /\ AcSession' = AcSession
  /\ SameObjs /\ SameFrames /\ SameStatus /\ SameHeld /\ SameReissue /\ SameFaults
  /\ reach' = reach /\ (inverted' <=> inverted) /\ (behind' <=> behind)
  /\ mapped' = mapped /\ lifecycle' = lifecycle

Sends(m, c, id) ==
  /\ At(m) = "recorded" /\ To(m) = c /\ Id(m) = id
  /\ Writes(c, id, m)
  /\ Stays(c) /\ St(c)' = St(c) /\ Sc(c)' = Sc(c) /\ OthersSame(c)
  /\ \A d \in Conns : d # c => Frames(d)' = Frames(d)
  /\ \E failed \in BOOLEAN : Leaves(m, c, failed)
  /\ \A n \in Msgs : n # m => SameSender(n)
  /\ AcSession' = AcSession
  /\ SameStatus /\ SameHeld /\ SameReissue /\ SameFaults
  /\ reach' = reach /\ late' = late /\ (inverted' <=> inverted) /\ (behind' <=> behind)
  /\ log' = log /\ mapped' = mapped /\ lifecycle' = lifecycle

\* A frame is read by the AC, or a counter write executed.
Quiet ==
  /\ AcSession' = AcSession
  /\ SameObjs /\ SameFrames /\ SameStatus /\ SameHeld /\ SameReissue /\ SameSenders /\ SameGhosts
  /\ SameFaults
  /\ log' = log /\ mapped' = mapped /\ gate' = gate /\ lifecycle' = lifecycle

\* The answer f is settled.
Settles(c, f) ==
  /\ f \in FrameType /\ Aw(c)' = Aw(c) \ {f}
  /\ \/ log' = Completed(Row(c), f.id)
     \/ log' = log /\ (faults' # 0 \/ f \notin Aw(c))
  /\ Stays(c) /\ St(c)' = St(c) /\ Sc(c)' = Sc(c) /\ OthersSame(c)
  /\ AcSession' = AcSession
  /\ SameFrames /\ SameStatus /\ SameHeld /\ SameReissue /\ SameSenders /\ SameGhosts /\ SameFaults
  /\ mapped' = mapped /\ gate' = gate /\ lifecycle' = lifecycle

-----------------------------------------------------------------------------
(* The steps do that.                                                      *)

\* What leaves a variable alone leaves its fields alone.
LEMMA Kept ==
  /\ rows' = rows => SameStatus
  /\ obj' = obj => SameObjs
  /\ held' = held => SameHeld
  /\ reissue' = reissue => SameReissue
  /\ sender' = sender => SameSenders
  /\ wire' = wire => SameFrames
  /\ ac' = ac => AcSession' = AcSession
  /\ UNCHANGED ghosts => SameGhosts
  /\ faults' = faults => SameFaults
BY DEF SameStatus, Status, SameObjs, SameObj, Pc, Row, Res, St, Sc, Up, Aw, SameHeld, By,
       SameReissue, Step, Todo, SameSenders, SameSender, At, To, Id, SameFrames, Frames, AcSession,
       ghosts, SameGhosts, SameFaults

\* A failing statement is counted.
LEMMA Failing == ASSUME TypeOK, Fault PROVE SameFaults /\ faults' # 0
BY ScaciAssumption DEF TypeOK, Fault, SameFaults

\* What AcOpen does to the fields of the state.
LEMMA AcOpenStep == ASSUME TypeOK, NEW c \in Conns, AcOpen(c) PROVE AcOpens(c)
<1>1. /\ SameStatus /\ SameHeld /\ SameReissue /\ SameSenders /\ SameGhosts /\ SameFaults
      /\ log' = log /\ mapped' = mapped /\ gate' = gate /\ lifecycle' = lifecycle
  BY Kept DEF AcOpen
<1>2. PICK s \in {NoRow, ac.session} :
       /\ obj' = [obj EXCEPT ![c] = [Unused EXCEPT !.pc = "looking", !.row = s,
                                                   !.know = ac.last, !.up = TRUE]]
       /\ ac' = [conn |-> c, session |-> s, last |-> IF s = NoRow THEN 0 ELSE ac.last]
  BY DEF AcOpen
<1>3. c \in Objects /\ obj \in [Objects -> ObjType]
  BY Numbers DEF TypeOK
<1>4. /\ Pc(c) = "unused" /\ Pc(c)' = "looking" /\ Row(c)' = s /\ ~Res(c)'
      /\ St(c)' = "connecting" /\ Sc(c)' = 0 /\ Aw(c)' = {}
  BY <1>2, <1>3 DEF AcOpen, Pc, Row, Res, St, Sc, Aw, Unused
<1>5. OthersSame(c)
  BY <1>2, <1>3 DEF OthersSame, SameObj, Pc, Row, Res, St, Sc, Up, Aw
<1>6. AcSession' \in {NoRow, AcSession} /\ s \in {NoRow, AcSession}
  BY <1>2 DEF AcSession
<1>7. SameFrames
  BY DEF AcOpen, TypeOK, WireType, SameFrames, Frames
<1> QED BY <1>1, <1>4, <1>5, <1>6, <1>7 DEF AcOpens

\* What Lookup does to the fields of the state.
LEMMA LookupStep == ASSUME TypeOK, NEW c \in Conns, Lookup(c) PROVE Looks(c)
<1>1. /\ SameFrames /\ SameStatus /\ SameHeld /\ SameReissue /\ SameSenders /\ SameGhosts
      /\ AcSession' = AcSession
      /\ log' = log /\ mapped' = mapped /\ gate' = gate /\ lifecycle' = lifecycle
  BY Kept DEF Lookup
<1>2. SameFaults
  BY Kept, Failing DEF Lookup
<1>3. c \in Objects /\ obj \in [Objects -> ObjType]
  BY Numbers DEF TypeOK
<1>4. /\ Pc(c) = "looking"
      /\ \/ /\ Pc(c)' = "adopting" /\ Res(c)' /\ Row(c)' = Row(c) /\ Row(c) # NoRow
         \/ Pc(c)' = "creating" /\ Row(c)' = NoRow /\ Sc(c)' = Sc(c) /\ (Res(c)' <=> Res(c))
      /\ St(c)' = St(c) /\ (Up(c)' <=> Up(c)) /\ Aw(c)' = Aw(c)
  BY <1>3 DEF Lookup, Pc, Row, Res, St, Sc, Up, Aw, ObjType
<1>5. OthersSame(c)
  BY <1>3 DEF Lookup, OthersSame, SameObj, Pc, Row, Res, St, Sc, Up, Aw
<1>6. Row(c) # NoRow => Row(c) \in Rows
  BY <1>3, FieldsOK DEF Fields
<1> QED BY <1>1, <1>2, <1>4, <1>5, <1>6 DEF Looks

\* What Create does to the fields of the state.
LEMMA CreateStep == ASSUME TypeOK, NEW c \in Conns, Create(c) PROVE Creates(c)
<1>1. /\ SameFrames /\ SameHeld /\ SameReissue /\ SameSenders /\ SameGhosts
      /\ AcSession' = AcSession
      /\ log' = log /\ mapped' = mapped /\ gate' = gate /\ lifecycle' = lifecycle
  BY Kept DEF Create
<1>2. SameFaults
  BY Kept, Failing DEF Create
<1>3. c \in Objects /\ obj \in [Objects -> ObjType] /\ rows \in [Rows -> RowType]
  BY Numbers DEF TypeOK
<1>4. OthersSame(c)
  BY <1>3 DEF Create, OthersSame, SameObj, Pc, Row, Res, St, Sc, Up, Aw
<1>5. Pc(c) = "creating" /\ St(c)' = St(c) /\ Sc(c)' = Sc(c) /\ Aw(c)' = Aw(c) /\ (Res(c)' <=> Res(c))
  BY <1>3 DEF Create, Pc, Res, St, Sc, Aw, ObjType
<1>6. CASE rows' = rows /\ obj' = [obj EXCEPT ![c].pc = "closing", ![c].up = FALSE]
  <2>1. SameStatus
    BY <1>6, Kept
  <2>2. Pc(c)' = "closing" /\ Row(c)' = Row(c) /\ ~Up(c)'
    BY <1>3, <1>6 DEF Pc, Row, Up, ObjType
  <2> QED BY <1>1, <1>2, <1>4, <1>5, <2>1, <2>2 DEF Creates
<1>7. CASE \E r \in Rows :
          /\ rows[r].status = "absent" /\ \A q \in Rows : q < r => rows[q].status # "absent"
          /\ rows' = [q \in Rows |->
               IF q = r THEN [status |-> "active", sc |-> 0]
               ELSE IF rows[q].status = "absent" THEN rows[q]
               ELSE [rows[q] EXCEPT !.status = "terminated"]]
          /\ obj' = [obj EXCEPT ![c].pc = "adopting", ![c].row = r]
  <2>1. PICK r \in Rows :
          /\ rows[r].status = "absent" /\ \A q \in Rows : q < r => rows[q].status # "absent"
          /\ rows' = [q \in Rows |->
               IF q = r THEN [status |-> "active", sc |-> 0]
               ELSE IF rows[q].status = "absent" THEN rows[q]
               ELSE [rows[q] EXCEPT !.status = "terminated"]]
          /\ obj' = [obj EXCEPT ![c].pc = "adopting", ![c].row = r]
    BY <1>7
  <2>2. Status(r) = "absent" /\ \A q \in Rows : q < r => Status(q) # "absent"
    BY <2>1 DEF Status
  <2>3. Status(r)' = "active"
    BY <2>1 DEF Status
  <2>4. \A q \in Rows : q # r => Status(q)' = IF Status(q) = "absent" THEN "absent" ELSE "terminated"
    BY <1>3, <2>1 DEF Status, RowType
  <2>5. Pc(c)' = "adopting" /\ Row(c)' = r /\ (Up(c)' <=> Up(c))
    BY <1>3, <2>1 DEF Pc, Row, Up, ObjType
  <2> QED BY <1>1, <1>2, <1>4, <1>5, <2>2, <2>3, <2>4, <2>5 DEF Creates
<1> QED BY <1>6, <1>7 DEF Create

\* What Adopt does to the fields of the state.
LEMMA AdoptStep ==
  ASSUME Base, NEW c \in Conns, Adopt(c)
  PROVE  \E k \in BOOLEAN : Adopts(c, k)
<1> DEFINE r       == obj[c].row
           evicted == {d \in mapped \ {c} : SupersededBy(obj[d].row, r)}
           served  == {d \in evicted : obj[d].row = r}
           prev    == IF held[r] # NotHeld THEN {held[r].by} ELSE served
           k       == ~obj[c].resumed \/ prev # {}
<1>1. /\ SameFrames /\ SameStatus /\ SameReissue /\ SameSenders /\ SameFaults
      /\ AcSession' = AcSession
      /\ accepted' = accepted /\ reach' = reach /\ late' = late /\ (behind' <=> behind)
      /\ log' = log /\ gate' = gate /\ lifecycle' = lifecycle
  BY Kept DEF Adopt
<1>2. c \in Objects /\ obj \in [Objects -> ObjType] /\ Conns \subseteq Objects /\ mapped \subseteq Conns
  BY Numbers DEF Base, TypeOK
<1>3. Pc(c) = "adopting" /\ r = Row(c) /\ r \in Rows /\ c \notin mapped
  <2>1. Pc(c) = "adopting" /\ r = Row(c)
    BY DEF Adopt, Pc, Row
  <2> QED BY <2>1, <1>2 DEF Base, Phases
<1>4. evicted = mapped
  <2>1. \A d \in mapped : obj[d].row \in Rows
    BY <1>2 DEF Base, Phases, Row
  <2> QED BY <1>3, <2>1 DEF SupersededBy
<1>5. served = {d \in mapped : Row(d) = Row(c)}
  BY <1>3, <1>4 DEF Row
<1>6. held[r] # NotHeld <=> By(r) # NoConn
  BY <1>3, FieldsOK DEF Base, Fields, Held
<1>7. k \in BOOLEAN
  OBVIOUS
<1>8. k <=> \/ ~Res(c) \/ By(Row(c)) # NoConn
            \/ \E d \in mapped : Row(d) = Row(c)
  <2>1. prev # {} <=> By(r) # NoConn \/ served # {}
    BY <1>6
  <2>2. served # {} <=> \E d \in mapped : Row(d) = Row(c)
    BY <1>5
  <2> HIDE DEF prev, served
  <2> QED BY <1>3, <2>1, <2>2 DEF Res
<1>9. \/ prev = {}
      \/ \E o \in Objects : prev = {o} /\ Owner(o) /\ Row(o) = Row(c)
  <2>1. CASE By(r) # NoConn
    <3>1. prev = {By(r)}
      BY <1>6, <2>1 DEF By
    <3>2. By(r) \in Objects /\ Row(By(r)) = r
      BY <1>3, <2>1, FieldsOK DEF Base, Fields, HolderHasRow
    <3> HIDE DEF prev, r
    <3> QED BY <1>3, <3>1, <3>2 DEF Owner
  <2>2. CASE By(r) = NoConn
    <3>1. prev = served
      BY <1>6, <2>2
    <3>2. \A d, e \in served : d = e
      BY <1>5 DEF Base, TypeOK
    <3>3. \A d \in served : d \in Objects /\ Owner(d) /\ Row(d) = Row(c)
      BY <1>2, <1>5 DEF Owner
    <3> HIDE DEF prev, r, served
    <3> QED BY <3>1, <3>2, <3>3
  <2> QED BY <2>1, <2>2
<1>10. /\ obj' = [o \in Objects |->
              IF o = c THEN [obj[c] EXCEPT !.pc = IF k THEN "answered" ELSE "closing",
                                           !.up = @ /\ k,
                                           !.sc = ContinuedCounter(c, prev)]
              ELSE IF o \in evicted THEN [obj[o] EXCEPT !.up = FALSE]
              ELSE obj[o]]
       /\ mapped' = (mapped \ evicted) \cup {d \in {c} : k}
       /\ held' = IF k THEN [Released(r) EXCEPT ![r] = HeldWhileConnecting(c)]
                    ELSE Released(r)
       /\ inverted' = (inverted \/ (\E q \in Held \cup {obj[d].row : d \in evicted} : q > r))
  BY DEF Adopt
<1>11. /\ ContinuedCounter(c, prev) <= Sc(c) /\ ContinuedCounter(c, prev) \in OpIds \cup {0}
       /\ prev # {} => \E o \in Objects : Owner(o) /\ Row(o) = Row(c) /\ ContinuedCounter(c, prev) <= Sc(o)
  <2>t. TypeOK /\ Sc(c) \in Int /\ \A o \in Objects : Sc(o) \in OpIds \cup {0}
    BY <1>2, CountersOK, FieldsOK DEF Base, Fields
  <2>1. CASE prev = {}
    <3>1. ContinuedCounter(c, prev) = Sc(c)
      BY <1>2, <2>t, <2>1, ContinuedFromNone
    <3> HIDE DEF prev
    <3> QED BY <2>1, <2>t, <3>1, <1>2
  <2>2. ASSUME NEW o \in Objects, prev = {o}, Owner(o), Row(o) = Row(c)
        PROVE  <1>11!1 /\ <1>11!2
    <3>1. /\ ContinuedCounter(c, prev) \in {Sc(c), Sc(o)}
          /\ ContinuedCounter(c, prev) <= Sc(c) /\ ContinuedCounter(c, prev) <= Sc(o)
      BY <1>2, <2>t, <2>2, ContinuedFromOne
    <3> HIDE DEF prev
    <3> QED BY <2>2, <2>t, <3>1, <1>2
  <2> QED BY <1>9, <2>1, <2>2
<1> HIDE DEF prev, evicted, served, k
<1>12. /\ Pc(c)' = IF k THEN "answered" ELSE "closing"
       /\ Row(c)' = Row(c) /\ (Res(c)' <=> Res(c)) /\ St(c)' = St(c) /\ Aw(c)' = Aw(c)
       /\ Up(c)' <=> Up(c) /\ k
       /\ Sc(c)' = ContinuedCounter(c, prev)
  BY <1>2, <1>10 DEF Pc, Row, Res, St, Aw, Up, Sc, ObjType
<1>13. \A o \in Objects : o # c =>
       /\ Pc(o)' = Pc(o) /\ Row(o)' = Row(o) /\ (Res(o)' <=> Res(o)) /\ St(o)' = St(o)
       /\ Sc(o)' = Sc(o) /\ Aw(o)' = Aw(o) /\ (Up(o)' <=> Up(o) /\ o \notin mapped)
  BY <1>2, <1>4, <1>10 DEF Pc, Row, Res, St, Aw, Up, Sc, ObjType
<1>14. mapped' = IF k THEN {c} ELSE {}
  BY <1>4, <1>7, <1>10
<1>15. \A q \in Rows : By(q)' = IF k /\ q = Row(c) THEN c ELSE NoConn
  <2>1. Released(r) = [q \in Rows |-> NotHeld]
    BY <1>3, ReleasedAll
  <2> QED BY <1>3, <1>7, <1>10, <2>1 DEF By, HeldWhileConnecting, NotHeld
<1>16. ~inverted' => /\ ~inverted
                     /\ \A q \in Rows : By(q) # NoConn => q <= Row(c)
                     /\ \A d \in mapped : Row(d) <= Row(c)
  <2> SUFFICES ASSUME ~inverted'
               PROVE  /\ ~inverted
                      /\ \A q \in Rows : By(q) # NoConn => q <= Row(c)
                      /\ \A d \in mapped : Row(d) <= Row(c)
    OBVIOUS
  <2>1. ~inverted /\ \A q \in Held \cup {obj[d].row : d \in evicted} : ~(q > r)
    BY <1>10
  <2>n. \A x, y \in Rows : ~(x > y) => x <= y
    BY DEF Rows
  <2>2. ASSUME NEW q \in Rows, By(q) # NoConn PROVE q <= Row(c)
    <3>1. q \in Held
      BY <2>2, FieldsOK DEF Base, Fields
    <3>2. ~(q > r)
      BY <2>1, <3>1
    <3> QED BY <1>3, <2>n, <3>2
  <2>3. ASSUME NEW d \in mapped PROVE Row(d) <= Row(c)
    <3>1. Row(d) \in Rows
      BY <1>2 DEF Base, Phases
    <3>2. ~(Row(d) > r)
      BY <1>4, <2>1 DEF Row
    <3> QED BY <1>3, <2>n, <3>1, <3>2
  <2> QED BY <2>1, <2>2, <2>3
<1>17. k /\ Res(c) => prev # {}
  BY DEF k, Res
<1>18. /\ Sc(c)' <= Sc(c) /\ Sc(c)' \in OpIds \cup {0}
       /\ k /\ Res(c) => \E o \in Objects : Owner(o) /\ Row(o) = Row(c) /\ Sc(c)' <= Sc(o)
  BY <1>11, <1>12, <1>17
<1>19. Adopts(c, k)
  BY <1>1, <1>3, <1>8, <1>12, <1>13, <1>14, <1>15, <1>16, <1>18 DEF Adopts
<1> QED BY <1>7, <1>19

\* What AcComplete does to the fields of the state.
LEMMA AcCompleteStep == ASSUME TypeOK, NEW c \in Conns, AcComplete(c) PROVE AcCompletes(c)
<1>1. /\ SameFrames /\ SameStatus /\ SameHeld /\ SameReissue /\ SameSenders /\ SameGhosts /\ SameFaults
      /\ log' = log /\ mapped' = mapped /\ gate' = gate /\ lifecycle' = lifecycle
  BY Kept DEF AcComplete
<1>2. c \in Objects /\ obj \in [Objects -> ObjType]
  BY Numbers DEF TypeOK
<1>3. /\ Pc(c) = "answered" /\ Up(c) /\ Pc(c)' = "completing"
      /\ Row(c)' = Row(c) /\ (Res(c)' <=> Res(c)) /\ St(c)' = St(c) /\ Sc(c)' = Sc(c) /\ Aw(c)' = Aw(c)
      /\ Up(c)' <=> Up(c)
  BY <1>2 DEF AcComplete, Pc, Row, Res, St, Sc, Up, Aw, ObjType
<1>4. OthersSame(c)
  BY <1>2 DEF AcComplete, OthersSame, SameObj, Pc, Row, Res, St, Sc, Up, Aw
<1>5. AcSession' = Row(c)
  BY DEF AcComplete, TypeOK, AcSession, Row
<1> QED BY <1>1, <1>3, <1>4, <1>5 DEF AcCompletes

\* What GoLive does to the fields of the state.
LEMMA GoLiveStep == ASSUME Base, NEW c \in Conns, GoLive(c) PROVE GoesLive(c)
<1>1. /\ SameFrames /\ SameStatus /\ SameSenders /\ SameGhosts /\ SameFaults
      /\ AcSession' = AcSession
      /\ log' = log /\ mapped' = mapped
  BY Kept DEF GoLive
<1>2. c \in Objects /\ obj \in [Objects -> ObjType] /\ Conns \subseteq Objects
  BY Numbers DEF Base, TypeOK
<1>3. Pc(c) = "completing" /\ gate[c] = "open" /\ lifecycle[Row(c)] = NoConn /\ Row(c) \in Rows
  <2>1. Pc(c) = "completing" /\ gate[c] = "open" /\ lifecycle[Row(c)] = NoConn
    BY DEF GoLive, LifecycleFree, Pc, Row
  <2> QED BY <2>1 DEF Base, Phases
<1>4. OthersSame(c)
  BY <1>2 DEF GoLive, OthersSame, SameObj, Pc, Row, Res, St, Sc, Up, Aw
<1>5. Row(c)' = Row(c) /\ (Res(c)' <=> Res(c)) /\ Sc(c)' = Sc(c) /\ Aw(c)' = Aw(c)
  BY <1>2 DEF GoLive, Row, Res, Sc, Aw, ObjType
<1>6. Row(c) \in Held <=> By(Row(c)) # NoConn
  BY <1>3, FieldsOK DEF Base, Fields
<1>7. held' = Released(Row(c)) => \A q \in Rows : By(q)' = NoConn
  BY <1>3, ReleasedAll DEF By, NotHeld
<1>8. CASE /\ c \notin mapped \/ (obj[c].resumed /\ obj[c].row \notin Held)
           /\ obj' = [obj EXCEPT ![c].pc = "closing", ![c].up = FALSE]
           /\ held' = IF c \in mapped THEN Released(obj[c].row) ELSE held
           /\ UNCHANGED <<gate, lifecycle, reissue>>
  <2>1. Pc(c)' = "closing" /\ ~Up(c)' /\ St(c)' = St(c)
    BY <1>2, <1>8 DEF Pc, Up, St, ObjType
  <2>2. gate' = gate /\ lifecycle' = lifecycle /\ SameReissue
    BY <1>8, Kept
  <2>3. \/ c \notin mapped /\ SameHeld
        \/ c \in mapped /\ By(Row(c)) = NoConn /\ \A q \in Rows : By(q)' = NoConn
    <3>1. CASE c \notin mapped
      BY <1>8, <3>1, Kept
    <3>2. CASE c \in mapped
      <4>1. Row(c) \notin Held /\ held' = Released(Row(c))
        BY <1>8, <3>2 DEF Row
      <4> QED BY <1>6, <1>7, <3>2, <4>1
    <3> QED BY <3>1, <3>2
  <2> QED BY <1>1, <1>3, <1>4, <1>5, <2>1, <2>2, <2>3 DEF GoesLive
<1>9. CASE /\ ~(c \notin mapped \/ (obj[c].resumed /\ obj[c].row \notin Held))
           /\ held' = Released(obj[c].row)
           /\ gate' = [gate EXCEPT ![c] = "reissue"]
           /\ obj' = [obj EXCEPT ![c].state = "reissuing",
                                 ![c].pc = IF obj[c].resumed THEN "resuming" ELSE "reading"]
           /\ lifecycle' = IF obj[c].resumed THEN [lifecycle EXCEPT ![obj[c].row] = c] ELSE lifecycle
           /\ reissue' = IF obj[c].resumed THEN reissue ELSE [reissue EXCEPT ![c].step = "read"]
  <2>1. c \in mapped /\ \A q \in Rows : By(q)' = NoConn
    BY <1>7, <1>9 DEF Row
  <2>2. St(c)' = "reissuing" /\ (Up(c)' <=> Up(c))
    BY <1>2, <1>9 DEF St, Up, ObjType
  <2>3. Pc(c)' = IF Res(c) THEN "resuming" ELSE "reading"
    BY <1>2, <1>9 DEF Pc, Res, ObjType
  <2>4. gate'[c] = "reissue" /\ \A o \in Objects : o # c => gate'[o] = gate[o]
    BY <1>2, <1>9 DEF Base, TypeOK
  <2>5. /\ \A d \in Conns : d # c => Step(d)' = Step(d)
        /\ \A d \in Conns : Todo(d)' = Todo(d)
        /\ Step(c)' = IF Res(c) THEN Step(c) ELSE "read"
    <3>1. CASE Res(c)
      <4>1. reissue' = reissue
        BY <1>9, <3>1 DEF Res
      <4> QED BY <3>1, <4>1 DEF Step, Todo
    <3>2. CASE ~Res(c)
      <4>1. reissue' = [reissue EXCEPT ![c].step = "read"]
        BY <1>9, <3>2 DEF Res
      <4>2. reissue \in [Conns -> ReissueType]
        BY DEF Base, TypeOK
      <4> QED BY <3>2, <4>1, <4>2 DEF Step, Todo, ReissueType
    <3> QED BY <3>1, <3>2
  <2>6. /\ \A q \in Rows : q # Row(c) => lifecycle'[q] = lifecycle[q]
        /\ lifecycle'[Row(c)] = IF Res(c) THEN c ELSE NoConn
    <3>1. lifecycle \in [Rows -> Conns \cup {NoConn}]
      BY DEF Base, TypeOK
    <3>2. lifecycle' = IF Res(c) THEN [lifecycle EXCEPT ![Row(c)] = c] ELSE lifecycle
      BY <1>9 DEF Res, Row
    <3> QED BY <1>3, <3>1, <3>2
  <2>7. \/ /\ Res(c) /\ Pc(c)' = "resuming" /\ Step(c)' = Step(c) /\ lifecycle'[Row(c)] = c
        \/ /\ ~Res(c) /\ Pc(c)' = "reading" /\ Step(c)' = "read" /\ lifecycle'[Row(c)] = NoConn
    BY <2>3, <2>5, <2>6, Zenon
  <2> QED BY <1>1, <1>3, <1>4, <1>5, <2>1, <2>2, <2>4, <2>5, <2>6, <2>7 DEF GoesLive
<1> QED BY <1>8, <1>9 DEF GoLive

\* What PersistResume does to the fields of the state.
LEMMA PersistResumeStep == ASSUME Base, NEW c \in Conns, PersistResume(c) PROVE Resumes(c)
<1>1. /\ SameFrames /\ SameHeld /\ SameSenders /\ SameGhosts
      /\ AcSession' = AcSession
      /\ log' = log /\ mapped' = mapped /\ gate' = gate
  BY Kept DEF PersistResume
<1>2. c \in Objects /\ obj \in [Objects -> ObjType]
  BY Numbers DEF Base, TypeOK
<1>3. SameFaults
  BY Kept, Failing DEF PersistResume, Base
<1>4. OthersSame(c)
  BY <1>2 DEF PersistResume, OthersSame, SameObj, Pc, Row, Res, St, Sc, Up, Aw
<1>5. /\ Pc(c) = "resuming" /\ Pc(c)' = "reading"
      /\ Row(c)' = Row(c) /\ (Res(c)' <=> Res(c)) /\ St(c)' = St(c) /\ Sc(c)' = Sc(c) /\ Aw(c)' = Aw(c)
      /\ Up(c)' <=> Up(c)
  BY <1>2 DEF PersistResume, Pc, Row, Res, St, Sc, Up, Aw, ObjType
<1>6. Row(c) \in Rows
  BY <1>5 DEF Base, Phases
<1>7. /\ Step(c)' = "read" /\ Todo(c)' = Todo(c)
      /\ \A d \in Conns : d # c => Step(d)' = Step(d) /\ Todo(d)' = Todo(d)
  BY DEF PersistResume, Base, TypeOK, Step, Todo, ReissueType
<1>8. \A q \in Rows : lifecycle'[q] = IF q = Row(c) /\ lifecycle[q] = c THEN NoConn ELSE lifecycle[q]
  BY <1>6 DEF PersistResume, Base, TypeOK, Row
<1>9. /\ \A q \in Rows : q # Row(c) => Status(q)' = Status(q)
      /\ \/ Status(Row(c))' = IF CanResume(Row(c)) THEN "active" ELSE Status(Row(c))
         \/ Status(Row(c))' = Status(Row(c)) /\ faults' # 0
  <2>1. CASE UNCHANGED rows /\ Fault
    <3>1. faults' # 0
      BY <2>1, Failing DEF Base
    <3>2. \A q \in Rows : Status(q)' = Status(q)
      BY <2>1, Kept DEF SameStatus
    <3> QED BY <1>5, <1>6, <3>1, <3>2
  <2>2. CASE rows' = IF Resumable(obj[c].row) THEN [rows EXCEPT ![obj[c].row].status = "active"] ELSE rows
    <3>1. rows' = IF CanResume(Row(c)) THEN [rows EXCEPT ![Row(c)].status = "active"] ELSE rows
      BY <2>2 DEF Resumable, CanResume, Status, Row
    <3>2. rows \in [Rows -> RowType]
      BY DEF Base, TypeOK
    <3>3. CASE CanResume(Row(c))
      <4>1. rows' = [rows EXCEPT ![Row(c)].status = "active"]
        BY <3>1, <3>3
      <4>2. Row(c)' = Row(c)
        BY <1>5
      <4>3. /\ \A q \in Rows : q # Row(c) => Status(q)' = Status(q)
            /\ \A q \in Rows : q = Row(c) => Status(q)' = "active"
        BY <3>2, <4>1 DEF Status, RowType
      <4> QED BY <1>6, <3>3, <4>2, <4>3
    <3>4. CASE ~CanResume(Row(c))
      <4>1. \A q \in Rows : Status(q)' = Status(q)
        BY <3>1, <3>4, Kept DEF SameStatus
      <4> QED BY <1>5, <1>6, <3>4, <4>1
    <3> QED BY <3>3, <3>4
  <2> QED BY <2>1, <2>2 DEF PersistResume
<1> QED BY <1>1, <1>3, <1>4, <1>5, <1>6, <1>7, <1>8, <1>9 DEF Resumes

\* What Break does to the fields of the state.
LEMMA BreakStep == ASSUME TypeOK, NEW c \in Conns, Break(c) PROVE Breaks(c)
<1>1. /\ SameFrames /\ SameStatus /\ SameHeld /\ SameReissue /\ SameSenders /\ SameGhosts /\ SameFaults
      /\ AcSession' = AcSession
      /\ log' = log /\ mapped' = mapped /\ gate' = gate /\ lifecycle' = lifecycle
  BY Kept DEF Break
<1>2. c \in Objects /\ obj \in [Objects -> ObjType]
  BY Numbers DEF TypeOK
<1>3. /\ ~Up(c)' /\ Pc(c)' = Pc(c)
      /\ Row(c)' = Row(c) /\ (Res(c)' <=> Res(c)) /\ St(c)' = St(c) /\ Sc(c)' = Sc(c) /\ Aw(c)' = Aw(c)
  BY <1>2 DEF Break, Pc, Row, Res, St, Sc, Up, Aw, ObjType
<1>4. OthersSame(c)
  BY <1>2 DEF Break, OthersSame, SameObj, Pc, Row, Res, St, Sc, Up, Aw
<1> QED BY <1>1, <1>3, <1>4 DEF Breaks

\* What LoseConnection does to the fields of the state.
LEMMA LoseConnectionStep == ASSUME Base, NEW c \in Conns, LoseConnection(c) PROVE Loses(c)
<1>1. /\ SameStatus /\ SameReissue /\ SameSenders /\ SameGhosts /\ SameFaults
      /\ AcSession' = AcSession
      /\ log' = log /\ gate' = gate
  BY Kept DEF LoseConnection
<1>2. c \in Objects /\ obj \in [Objects -> ObjType]
  BY Numbers DEF Base, TypeOK
<1>3. SameFrames
  BY DEF LoseConnection, Base, TypeOK, WireType, SameFrames, Frames
<1>4. OthersSame(c)
  BY <1>2 DEF LoseConnection, OthersSame, SameObj, Pc, Row, Res, St, Sc, Up, Aw
<1>5. /\ ~Up(c) /\ Pc(c) \in {"answered", "reading", "closing"}
      /\ Row(c)' = Row(c) /\ (Res(c)' <=> Res(c)) /\ St(c)' = St(c) /\ Sc(c)' = Sc(c) /\ Aw(c)' = Aw(c)
      /\ Up(c)' <=> Up(c)
  BY <1>2 DEF LoseConnection, Pc, Row, Res, St, Sc, Up, Aw, ObjType
<1>6. CASE /\ LosesSession(c) /\ LifecycleFree(obj[c].row)
           /\ mapped' = mapped \ {c}
           /\ held' = IF obj[c].row \in Held THEN held ELSE [held EXCEPT ![obj[c].row] = HeldOnLoss(c)]
           /\ lifecycle' = [lifecycle EXCEPT ![obj[c].row] = c]
           /\ obj' = [obj EXCEPT ![c].pc = "losing"]
  <2>1. c \in mapped /\ Row(c) \in Rows /\ lifecycle[Row(c)] = NoConn
    BY <1>6 DEF LosesSession, LifecycleFree, Row, Base, Phases
  <2>2. Pc(c)' = "losing"
    BY <1>2, <1>6 DEF Pc
  <2>3. /\ lifecycle'[Row(c)] = c
        /\ \A q \in Rows : q # Row(c) => lifecycle'[q] = lifecycle[q]
    BY <1>6, <2>1 DEF Row, Base, TypeOK
  <2>4. /\ \A q \in Rows : q # Row(c) => By(q)' = By(q)
        /\ By(Row(c))' = IF By(Row(c)) = NoConn THEN c ELSE By(Row(c))
    <3>1. Row(c) \in Held <=> By(Row(c)) # NoConn
      BY <2>1, FieldsOK DEF Base, Fields
    <3>2. held' = IF Row(c) \in Held THEN held ELSE [held EXCEPT ![Row(c)] = HeldOnLoss(c)]
      BY <1>6 DEF Row
    <3>3. held \in [Rows -> HeldType]
      BY DEF Base, TypeOK
    <3>4. /\ \A q \in Rows : q # Row(c) => By(q)' = By(q)
          /\ \A q \in Rows : q = Row(c) => By(q)' = IF By(q) = NoConn THEN c ELSE By(q)
      BY <2>1, <3>1, <3>2, <3>3 DEF By, HeldOnLoss
    <3> QED BY <1>5, <2>1, <3>4
  <2> QED BY <1>1, <1>3, <1>4, <1>5, <1>6, <2>1, <2>2, <2>3, <2>4 DEF Loses
<1>7. CASE /\ ~LosesSession(c)
           /\ mapped' = mapped \ {c}
           /\ obj' = [obj EXCEPT ![c].pc = "gone"]
           /\ UNCHANGED <<held, lifecycle>>
  <2>1. c \notin mapped /\ mapped' = mapped
    BY <1>7 DEF LosesSession
  <2>2. Pc(c)' = "gone"
    BY <1>2, <1>7 DEF Pc
  <2>3. SameHeld /\ lifecycle' = lifecycle
    BY <1>7, Kept
  <2> QED BY <1>1, <1>3, <1>4, <1>5, <2>1, <2>2, <2>3 DEF Loses
<1> QED BY <1>6, <1>7 DEF LoseConnection

\* What PersistDisconnect does to the fields of the state.
LEMMA PersistDisconnectStep == ASSUME Base, NEW c \in Conns, PersistDisconnect(c) PROVE Disconnects(c)
<1>1. /\ SameFrames /\ SameHeld /\ SameReissue /\ SameSenders /\ SameGhosts
      /\ AcSession' = AcSession
      /\ log' = log /\ mapped' = mapped /\ gate' = gate
  BY Kept DEF PersistDisconnect
<1>2. c \in Objects /\ obj \in [Objects -> ObjType]
  BY Numbers DEF Base, TypeOK
<1>3. SameFaults
  BY Kept, Failing DEF PersistDisconnect, Base
<1>4. OthersSame(c)
  BY <1>2 DEF PersistDisconnect, OthersSame, SameObj, Pc, Row, Res, St, Sc, Up, Aw
<1>5. /\ Pc(c) = "losing" /\ Pc(c)' = "gone"
      /\ Row(c)' = Row(c) /\ (Res(c)' <=> Res(c)) /\ St(c)' = St(c) /\ Sc(c)' = Sc(c) /\ Aw(c)' = Aw(c)
      /\ Up(c)' <=> Up(c)
  BY <1>2 DEF PersistDisconnect, Pc, Row, Res, St, Sc, Up, Aw, ObjType
<1>6. Row(c) \in Rows
  BY <1>5 DEF Base, Phases
<1>8. \A q \in Rows : lifecycle'[q] = IF q = Row(c) /\ lifecycle[q] = c THEN NoConn ELSE lifecycle[q]
  BY <1>6 DEF PersistDisconnect, Base, TypeOK, Row
<1>9. /\ \A q \in Rows : q # Row(c) => Status(q)' = Status(q)
      /\ \/ Status(Row(c))' = IF Status(Row(c)) = "active" THEN "disconnected" ELSE Status(Row(c))
         \/ Status(Row(c))' = Status(Row(c)) /\ faults' # 0
  <2>1. CASE UNCHANGED rows /\ Fault
    <3>1. faults' # 0
      BY <2>1, Failing DEF Base
    <3>2. \A q \in Rows : Status(q)' = Status(q)
      BY <2>1, Kept DEF SameStatus
    <3> QED BY <1>5, <1>6, <3>1, <3>2
  <2>2. CASE rows' = IF rows[obj[c].row].status = "active"
                     THEN [rows EXCEPT ![obj[c].row].status = "disconnected"] ELSE rows
    <3>1. rows' = IF Status(Row(c)) = "active" THEN [rows EXCEPT ![Row(c)].status = "disconnected"] ELSE rows
      BY <2>2 DEF Status, Row
    <3>2. rows \in [Rows -> RowType]
      BY DEF Base, TypeOK
    <3>3. CASE Status(Row(c)) = "active"
      <4>1. rows' = [rows EXCEPT ![Row(c)].status = "disconnected"]
        BY <3>1, <3>3
      <4>2. Row(c)' = Row(c)
        BY <1>5
      <4>3. /\ \A q \in Rows : q # Row(c) => Status(q)' = Status(q)
            /\ \A q \in Rows : q = Row(c) => Status(q)' = "disconnected"
        BY <3>2, <4>1 DEF Status, RowType
      <4> QED BY <1>6, <3>3, <4>2, <4>3
    <3>4. CASE Status(Row(c)) # "active"
      <4>1. \A q \in Rows : Status(q)' = Status(q)
        BY <3>1, <3>4, Kept DEF SameStatus
      <4> QED BY <1>5, <1>6, <3>4, <4>1
    <3> QED BY <3>3, <3>4
  <2> QED BY <2>1, <2>2 DEF PersistDisconnect
<1> QED BY <1>1, <1>3, <1>4, <1>5, <1>6, <1>8, <1>9 DEF Disconnects

\* What Restart does to the fields of the state.
LEMMA RestartStep == ASSUME Base, Restart PROVE Restarts
<1>1. /\ AcSession' = AcSession /\ SameFrames /\ SameFaults
      /\ accepted' = accepted /\ reach' = reach /\ late' = late /\ (inverted' <=> inverted)
      /\ log' = log
  BY Kept DEF Restart
<1>2. mapped' = {} /\ gate' = [o \in Objects |-> "open"] /\ lifecycle' = [r \in Rows |-> NoConn]
  BY DEF Restart
<1>3. \A r \in Rows : CanResume(r) <=> r \in Loaded
  BY DEF CanResume, Status, Loaded, Resumable
<1>4. \A r \in Rows : Status(r)' = IF Status(r) = "active" THEN "disconnected" ELSE Status(r)
  <2>1. rows \in [Rows -> RowType]
    BY DEF Base, TypeOK
  <2>2. rows' = [r \in Rows |-> IF rows[r].status = "active"
                                THEN [rows[r] EXCEPT !.status = "disconnected"] ELSE rows[r]]
    BY DEF Restart
  <2>3. ASSUME NEW r \in Rows
        PROVE  Status(r)' = IF Status(r) = "active" THEN "disconnected" ELSE Status(r)
    <3>1. CASE rows[r].status = "active"
      BY <2>1, <2>2, <3>1 DEF Status, RowType
    <3>2. CASE rows[r].status # "active"
      BY <2>1, <2>2, <3>2 DEF Status, RowType
    <3> QED BY <3>1, <3>2
  <2> QED BY <2>3
<1>5. \A r \in Rows : By(r)' = IF CanResume(r) THEN BootObject ELSE NoConn
  BY <1>3 DEF Restart, By, HeldOnLoss, NotHeld
<1>6. \A o \in Objects : /\ ~Up(o)' /\ St(o)' = "connecting" /\ Aw(o)' = {} /\ ~Res(o)'
  BY DEF Restart, Up, St, Aw, Res, Unused
<1>7. \A c \in Conns : /\ Pc(c)' = IF Pc(c) = "unused" THEN "unused" ELSE "gone"
                       /\ Row(c)' = IF Pc(c) = "unused" THEN NoRow ELSE Row(c)
                       /\ Sc(c)' = 0
  BY Numbers DEF Restart, Pc, Row, Sc, Unused
<1>8. \A c \in Conns : Step(c)' = "none" /\ Todo(c)' = {}
  BY DEF Restart, Step, Todo
<1>9. \A m \in Msgs : At(m)' \in {"idle", "done"}
  BY DEF Restart, At, Idle
<1>10. ~behind' => ~behind /\ \A e \in log : ~(e.id < rows[e.row].sc)
  BY DEF Restart
<1>11. /\ Row(BootObject)' = IF Loaded = {} THEN NoRow ELSE Min(Loaded)
       /\ Sc(BootObject)' = IF Loaded = {} THEN 0 ELSE rows[Min(Loaded)].sc
  BY Numbers DEF Restart, Row, Sc, Unused
<1>12. ASSUME NEW r \in Rows, CanResume(r), \A q \in Rows : CanResume(q) => q = r
       PROVE  Row(BootObject)' = r /\ Sc(BootObject)' = rows[r].sc
  <2>1. Loaded = {r}
    BY <1>3, <1>12 DEF Loaded
  <2>2. Min(Loaded) = r
    BY <2>1, MinOfOne, Numbers
  <2> QED BY <1>11, <2>1, <2>2
<1>13. (\A q \in Rows : ~CanResume(q)) => Row(BootObject)' = NoRow
  BY <1>3, <1>11 DEF Loaded
<1> QED BY <1>1, <1>2, <1>4, <1>5, <1>6, <1>7, <1>8, <1>9, <1>10, <1>12, <1>13 DEF Restarts

\* What ReissueRead does to the fields of the state.
LEMMA ReissueReadStep == ASSUME TypeOK, NEW c \in Conns, ReissueRead(c) PROVE ReissueReads(c)
<1>1. /\ SameObjs /\ SameFrames /\ SameStatus /\ SameHeld /\ SameSenders /\ SameGhosts
      /\ AcSession' = AcSession
      /\ log' = log /\ mapped' = mapped /\ gate' = gate /\ lifecycle' = lifecycle
  BY Kept DEF ReissueRead
<1>2. SameFaults
  BY Kept, Failing DEF ReissueRead
<1>3. reissue \in [Conns -> ReissueType]
  BY DEF TypeOK
<1>4. Step(c) = "read" /\ Step(c)' = "send"
  BY <1>3 DEF ReissueRead, Step, ReissueType
<1>5. \A d \in Conns : d # c => Step(d)' = Step(d) /\ Todo(d)' = Todo(d)
  BY <1>3 DEF ReissueRead, Step, Todo
<1>6. CASE reissue' = [reissue EXCEPT ![c] = [step |-> "send", todo |-> ReadPending(c)]]
  <2>1. Todo(c)' = Pending(Row(c))
    BY <1>3, <1>6 DEF Todo, ReadPending, Row
  <2> QED BY <1>1, <1>2, <1>4, <1>5, <2>1 DEF ReissueReads
<1>7. CASE Fault /\ reissue' = [reissue EXCEPT ![c].step = "send"]
  <2>1. Todo(c)' = Todo(c)
    BY <1>3, <1>7 DEF Todo, ReissueType
  <2>2. faults' # 0
    BY <1>7, Failing
  <2> QED BY <1>1, <1>2, <1>4, <1>5, <2>1, <2>2 DEF ReissueReads
<1> QED BY <1>6, <1>7 DEF ReissueRead

\* A frame written to c, with whatever else the step sets of its object.
LEMMA WritingFrames ==
  ASSUME TypeOK, NEW c \in Conns, NEW id, NEW m, wire' = Written(c, id, m)
  PROVE  /\ Frames(c)' = IF Up(c) THEN Append(Frames(c), [id |-> id, msg |-> m]) ELSE Frames(c)
         /\ \A d \in Conns : d # c => Frames(d)' = Frames(d)
<1>1. wire \in [Conns -> WireType]
  BY DEF TypeOK
<1>2. CASE obj[c].up
  BY <1>1, <1>2 DEF Written, Frames, Up, WireType
<1>3. CASE ~obj[c].up
  BY <1>3 DEF Written, Frames, Up
<1> QED BY <1>2, <1>3

\* What sendSCOperation changes in an object.
LEMMA SentFields ==
  ASSUME NEW o \in ObjType, NEW id, NEW m
  PROVE  /\ Sent(o, id, m).pc = o.pc /\ Sent(o, id, m).row = o.row
         /\ (Sent(o, id, m).resumed <=> o.resumed) /\ Sent(o, id, m).state = o.state
         /\ Sent(o, id, m).sc = o.sc /\ (Sent(o, id, m).up <=> o.up)
         /\ Sent(o, id, m).awaiting = {a \in o.awaiting : a.id # id} \cup {[id |-> id, msg |-> m]}
BY DEF Sent, ObjType

\* What Reissue does to the fields of the state.
LEMMA ReissueStep == ASSUME TypeOK, NEW c \in Conns, Reissue(c) PROVE Reissues(c)
<1> DEFINE todo == reissue[c].todo
           next == NextReissued(todo)
           last == Cardinality(todo) <= 1
           sent == IF todo = {} THEN obj[c] ELSE Sent(obj[c], next.id, next.msg)
           new  == IF last THEN [sent EXCEPT !.state = "active"] ELSE sent
<1>1. /\ SameStatus /\ SameHeld /\ SameSenders /\ SameGhosts /\ SameFaults
      /\ AcSession' = AcSession
      /\ log' = log /\ mapped' = mapped /\ lifecycle' = lifecycle
  BY Kept DEF Reissue
<1>2. c \in Objects /\ obj \in [Objects -> ObjType] /\ reissue \in [Conns -> ReissueType]
  BY Numbers DEF TypeOK
<1>3. todo = Todo(c) /\ todo \subseteq EntryType /\ Step(c) = "send"
  BY <1>2 DEF Reissue, Todo, Step, ReissueType
<1>4. /\ obj' = [obj EXCEPT ![c] = new]
      /\ wire' = IF todo = {} THEN wire ELSE Written(c, next.id, next.msg)
      /\ reissue' = [reissue EXCEPT ![c] =
           IF last THEN [step |-> "none", todo |-> {}] ELSE [@ EXCEPT !.todo = todo \ {next}]]
      /\ gate' = IF last THEN [gate EXCEPT ![c] = "open"] ELSE gate
  BY DEF Reissue
<1>5. /\ todo = {} => last
      /\ todo # {} /\ last => todo = {next}
      /\ todo # {} => next \in todo /\ \A f \in todo : next.id >= f.id
  BY <1>3, LastReissued, NextReissuedOf
<1> HIDE DEF todo, next, last
<1>6. obj[c] \in ObjType
  BY <1>2
<1>7. /\ sent.pc = obj[c].pc /\ sent.row = obj[c].row
      /\ (sent.resumed <=> obj[c].resumed) /\ sent.state = obj[c].state
      /\ sent.sc = obj[c].sc /\ (sent.up <=> obj[c].up)
      /\ sent.awaiting = IF todo = {} THEN obj[c].awaiting
                         ELSE {a \in obj[c].awaiting : a.id # next.id} \cup {[id |-> next.id, msg |-> next.msg]}
  <2>1. CASE todo = {}
    BY <2>1
  <2>2. CASE todo # {}
    <3>1. sent = Sent(obj[c], next.id, next.msg)
      BY <2>2
    <3> DEFINE s == Sent(obj[c], next.id, next.msg)
    <3>2. /\ s.pc = obj[c].pc /\ s.row = obj[c].row
          /\ (s.resumed <=> obj[c].resumed) /\ s.state = obj[c].state
          /\ s.sc = obj[c].sc /\ (s.up <=> obj[c].up)
          /\ s.awaiting = {a \in obj[c].awaiting : a.id # next.id} \cup {[id |-> next.id, msg |-> next.msg]}
      <4> HIDE DEF next
      <4> DEFINE i == next.id
                 g == next.msg
      <4> HIDE DEF i, g
      <4>1. s = Sent(obj[c], i, g)
        BY DEF i, g
      <4>2. /\ s.pc = obj[c].pc /\ s.row = obj[c].row
            /\ (s.resumed <=> obj[c].resumed) /\ s.state = obj[c].state
            /\ s.sc = obj[c].sc /\ (s.up <=> obj[c].up)
            /\ s.awaiting = {a \in obj[c].awaiting : a.id # i} \cup {[id |-> i, msg |-> g]}
        <5> HIDE DEF s
        <5> QED BY <1>6, <4>1 DEF Sent, ObjType
      <4> QED BY <4>2 DEF i, g
    <3>3. sent = s
      BY <3>1
    <3> HIDE DEF sent, s
    <3> QED BY <2>2, <3>2, <3>3, Zenon
  <2> QED BY <2>1, <2>2
<1>8. sent = [pc |-> sent.pc, row |-> sent.row, resumed |-> sent.resumed, state |-> sent.state,
              sc |-> sent.sc, up |-> sent.up, awaiting |-> sent.awaiting, know |-> sent.know]
  <2>1. CASE todo = {}
    BY <1>6, <2>1 DEF ObjType
  <2>2. CASE todo # {}
    <3>1. sent = Sent(obj[c], next.id, next.msg)
      BY <2>2
    <3> HIDE DEF sent
    <3> QED BY <1>6, <3>1 DEF Sent, ObjType
  <2> QED BY <2>1, <2>2
<1> HIDE DEF sent
<1>9. /\ new.pc = sent.pc /\ new.row = sent.row /\ (new.resumed <=> sent.resumed)
      /\ new.state = IF last THEN "active" ELSE sent.state
      /\ new.sc = sent.sc /\ (new.up <=> sent.up) /\ new.awaiting = sent.awaiting
  BY <1>8
<1> HIDE DEF new
<1>10. Stays(c) /\ Sc(c)' = Sc(c)
  <2>1. obj'[c] = new
    BY <1>2, <1>4
  <2> QED BY <2>1, <1>7, <1>9 DEF Stays, Pc, Row, Res, Up, Sc
<1>11. /\ St(c)' = IF last THEN "active" ELSE St(c)
       /\ Aw(c)' = IF todo = {} THEN Aw(c)
                   ELSE {a \in Aw(c) : a.id # next.id} \cup {[id |-> next.id, msg |-> next.msg]}
  <2>1. obj'[c] = new
    BY <1>2, <1>4
  <2> QED BY <2>1, <1>7, <1>9 DEF St, Aw
<1>12. OthersSame(c)
  BY <1>2, <1>4 DEF OthersSame, SameObj, Pc, Row, Res, St, Sc, Up, Aw
<1>13. /\ \A o \in Objects : o # c => gate'[o] = gate[o]
       /\ gate'[c] = IF last THEN "open" ELSE gate[c]
  BY <1>2, <1>4 DEF TypeOK
<1>14. \A d \in Conns : d # c => Step(d)' = Step(d) /\ Todo(d)' = Todo(d)
  BY <1>2, <1>4 DEF Step, Todo
<1>15. /\ Step(c)' = IF last THEN "none" ELSE "send"
       /\ Todo(c)' = IF last THEN {} ELSE Todo(c) \ {next}
  <2>1. reissue[c] \in ReissueType /\ reissue[c].step = "send" /\ reissue[c].todo = todo
    BY <1>2, <1>3 DEF Step, Todo
  <2>2. CASE last
    BY <1>2, <1>4, <2>2 DEF Step, Todo
  <2>3. CASE ~last
    BY <1>2, <1>3, <1>4, <2>1, <2>3 DEF Step, Todo, ReissueType
  <2> QED BY <2>2, <2>3
<1>16. /\ todo = {} => Frames(c)' = Frames(c)
       /\ todo # {} => Frames(c)' = IF Up(c) THEN Append(Frames(c), [id |-> next.id, msg |-> next.msg]) ELSE Frames(c)
       /\ \A d \in Conns : d # c => Frames(d)' = Frames(d)
  <2>1. CASE todo = {}
    BY <1>4, <2>1, Kept DEF SameFrames
  <2>2. CASE todo # {}
    BY <1>4, <2>2, WritingFrames
  <2> QED BY <2>1, <2>2
<1>17. CASE todo = {}
  BY <1>1, <1>3, <1>5, <1>10, <1>11, <1>12, <1>13, <1>14, <1>15, <1>16, <1>17 DEF Reissues
<1>18. CASE todo # {}
  <2>1. Writes(c, next.id, next.msg)
    BY <1>11, <1>16, <1>18 DEF Writes
  <2>2. next \in Todo(c) /\ \A f \in Todo(c) : next.id >= f.id
    BY <1>3, <1>5, <1>18
  <2>3. \/ Todo(c) = {next} /\ Step(c)' = "none"
        \/ Step(c)' = "send" /\ Todo(c)' = Todo(c) \ {next}
    BY <1>3, <1>5, <1>15, <1>18
  <2>4. \/ Step(c)' = "none" /\ Todo(c)' = {} /\ St(c)' = "active" /\ gate'[c] = "open"
        \/ Step(c)' = "send" /\ St(c)' = St(c) /\ gate'[c] = gate[c]
    BY <1>11, <1>13, <1>15
  <2> QED BY <1>1, <1>3, <1>10, <1>12, <1>13, <1>14, <1>16, <2>1, <2>2, <2>3, <2>4 DEF Reissues
<1> QED BY <1>17, <1>18

\* The holder's record, as its fields see it.
LEMMA RecordHeldStep ==
  ASSUME TypeOK, NEW r \in Held, NEW o \in Objects, By(r) = o,
         NEW m \in Msgs, NEW failed \in BOOLEAN, RecordHeld(r, m, failed)
  PROVE  SameFaults /\ HolderRecords(r, o, m, failed)
<1> DEFINE n    == IF held[r].pending = NotCounted THEN Cardinality(Pending(r)) ELSE held[r].pending
           id   == obj[o].sc - 1
           counted == [held EXCEPT ![r].pending = n]
           stored == [rows EXCEPT ![r].sc = Min({@, id})]
           Reserve == obj[o].sc > 0 - MaxSc /\ obj' = [obj EXCEPT ![o].sc = id]
           Recorded == log' = log \cup {Entry(r, id, m)}
           old  == m \in Uplinks /\ OnRecord(r, m)
           Others == \A x \in Objects : /\ Stays(x) /\ St(x)' = St(x) /\ Aw(x)' = Aw(x)
                                        /\ x # o => Sc(x)' = Sc(x)
           Rest == \A q \in Rows : q # r => Status(q)' = Status(q) /\ By(q)' = By(q)
<1>1. r \in Rows /\ o = held[r].by /\ held[r] # NotHeld
  BY FieldsOK DEF Fields, Held, By
<1>2. obj \in [Objects -> ObjType] /\ held \in [Rows -> HeldType] /\ rows \in [Rows -> RowType]
  BY DEF TypeOK
<1>3. held[r] \in [by : Objects, pending : Nat \cup {NotCounted}]
  BY <1>1, <1>2 DEF HeldType
<1>4. id = Sc(o) - 1 /\ Sc(o) \in Int
  BY CountersOK DEF Sc
<1>5. \A p : held' = [held EXCEPT ![r].pending = p] => SameHeld
  BY <1>1, <1>2, <1>3 DEF SameHeld, By
<1>6. \A p : rows' = [rows EXCEPT ![r].sc = p] => SameStatus
  BY <1>1, <1>2 DEF SameStatus, Status, RowType
<1>7. SameFaults
  BY Kept, Failing DEF RecordHeld
<1>8. Reserve => Others /\ Sc(o)' = Sc(o) - 1 /\ Sc(o)' \in OpIds
  <2> SUFFICES ASSUME Reserve PROVE Others /\ Sc(o)' = Sc(o) - 1 /\ Sc(o)' \in OpIds
    OBVIOUS
  <2>1. obj' = [obj EXCEPT ![o].sc = id] /\ obj[o].sc > 0 - MaxSc
    OBVIOUS
  <2>2. obj[o].sc \in OpIds \cup {0}
    BY <1>2 DEF ObjType
  <2>3. id \in OpIds
    BY <2>1, <2>2, ScaciAssumption DEF OpIds
  <2> HIDE DEF id
  <2>4. Others
    BY <1>2, <2>1 DEF Stays, Pc, Row, Res, Up, St, Aw, Sc, ObjType
  <2>5. Sc(o)' = id
    BY <1>2, <2>1 DEF Sc, ObjType
  <2> QED BY <1>4, <2>3, <2>4, <2>5
<1>9. SameObjs => Others /\ Sc(o)' = Sc(o)
  BY DEF SameObjs, SameObj, Stays
<1>10. ASSUME SameStatus, SameHeld PROVE Rest /\ Status(r)' = Status(r) /\ By(r)' = By(r)
  BY <1>1, <1>10 DEF SameStatus, SameHeld
<1>s. /\ rows' = stored => SameStatus
      /\ held' \in {counted, [held EXCEPT ![r].pending = n + 1]} => SameHeld
  BY <1>5, <1>6
<1> HIDE DEF Others, Rest, id
\* Nothing is recorded.
<1>11. ASSUME log' = log, SameStatus, SameHeld, failed \/ OnRecord(r, m), Others, Sc(o)' <= Sc(o)
       PROVE  HolderRecords(r, o, m, failed)
  BY <1>10, <1>11 DEF HolderRecords, Others, Rest
\* The operation is recorded.
<1>12. ASSUME Reserve, Recorded, Rest,
              \/ Status(r)' = Status(r) /\ By(r)' = By(r)
              \/ Status(r)' = "terminated" /\ By(r)' = NoConn
       PROVE  HolderRecords(r, o, m, failed)
  <2>1. log' = log \cup {Entry(r, Sc(o) - 1, m)}
    BY <1>4, <1>12
  <2>2. Others /\ Sc(o)' = Sc(o) - 1 /\ Sc(o)' \in OpIds
    BY <1>8, <1>12
  <2> QED BY <1>12, <2>1, <2>2 DEF HolderRecords, Others, Rest
<1> HIDE DEF n, counted, stored, Recorded, old
<1>13. Reserve => Others /\ Sc(o)' <= Sc(o)
  BY <1>4, <1>8
<1>14. CASE failed /\ UNCHANGED <<rows, log, held, obj>>
  <2>1. SameStatus /\ SameHeld /\ SameObjs /\ log' = log
    BY <1>14, Kept
  <2>2. Sc(o)' <= Sc(o)
    BY <1>4, <1>9, <2>1
  <2> QED BY <1>7, <1>9, <1>11, <1>14, <2>1, <2>2, Zenon
<1>15. CASE failed /\ Reserve /\ rows' \in {rows, stored} /\ held' = counted /\ UNCHANGED log
  <2>1. SameStatus /\ SameHeld
    BY <1>s, <1>15, Kept
  <2>2. Others /\ Sc(o)' <= Sc(o) /\ log' = log /\ failed
    BY <1>13, <1>15, Zenon
  <2> QED BY <1>7, <1>11, <2>1, <2>2, Zenon
<1>16. CASE ~failed /\ Reserve /\ old /\ rows' = stored /\ held' = counted /\ UNCHANGED log
  <2>1. SameStatus /\ SameHeld
    BY <1>s, <1>16
  <2>2. Others /\ Sc(o)' <= Sc(o) /\ log' = log
    BY <1>13, <1>16, Zenon
  <2>3. OnRecord(r, m)
    BY <1>16 DEF old
  <2> QED BY <1>7, <1>11, <2>1, <2>2, <2>3, Zenon
<1>17. CASE Reserve /\ Recorded /\ rows' = stored /\ held' \in {counted, [held EXCEPT ![r].pending = n + 1]}
  <2>1. SameStatus /\ SameHeld
    BY <1>s, <1>17
  <2>2. Rest /\ Status(r)' = Status(r) /\ By(r)' = By(r)
    BY <1>10, <2>1, Zenon
  <2> QED BY <1>7, <1>12, <1>17, <2>2, Zenon
<1>18. CASE /\ Reserve /\ Recorded
            /\ rows' = [stored EXCEPT ![r].status = "terminated"]
            /\ held' = [held EXCEPT ![r] = NotHeld]
  <2>1. Status(r)' = "terminated" /\ By(r)' = NoConn
    BY <1>1, <1>2, <1>18 DEF Status, By, NotHeld, RowType, stored
  <2>2. \A q \in Rows : q # r => Status(q)' = Status(q) /\ By(q)' = By(q)
    BY <1>1, <1>2, <1>18 DEF Status, By, stored
  <2>3. Rest
    BY <2>2 DEF Rest
  <2> QED BY <1>7, <1>12, <1>18, <2>1, <2>3, Zenon
<1>19. HolderRecords(r, o, m, failed)
  <2> HIDE DEF Reserve
  <2>1. RecordHeld(r, m, failed) =>
          \/ failed /\ UNCHANGED <<rows, log, held, obj>>
          \/ failed /\ Reserve /\ rows' \in {rows, stored} /\ held' = counted /\ UNCHANGED log
          \/ ~failed /\ Reserve /\ old /\ rows' = stored /\ held' = counted /\ UNCHANGED log
          \/ Reserve /\ Recorded /\ rows' = stored /\ held' \in {counted, [held EXCEPT ![r].pending = n + 1]}
          \/ /\ Reserve /\ Recorded
             /\ rows' = [stored EXCEPT ![r].status = "terminated"]
             /\ held' = [held EXCEPT ![r] = NotHeld]
    BY <1>1 DEF RecordHeld, n, id, counted, stored, Reserve, Recorded, old
  <2> QED BY <2>1, <1>14, <1>15, <1>16, <1>17, <1>18
<1> QED BY <1>7, <1>19

\* What Targets does to the fields of the state.
LEMMA TargetsStep == ASSUME TypeOK, NEW m \in Msgs, Targets(m) PROVE FindsTargets(m)
<1>1. /\ SameFrames /\ SameReissue
      /\ AcSession' = AcSession
      /\ late' = late /\ (inverted' <=> inverted) /\ (behind' <=> behind)
      /\ mapped' = mapped /\ gate' = gate /\ lifecycle' = lifecycle
  BY Kept DEF Targets
<1>2. At(m) = "idle" /\ reach'[m] = AcSession /\ \A n \in Msgs : n # m => reach'[n] = reach[n]
  BY DEF Targets, TypeOK, At, AcSession
<1>3. \A n \in Msgs : n # m => SameSender(n)
  BY DEF Targets, Ended, TypeOK, SameSender, At, To, Id
<1>4. PICK failed \in BOOLEAN :
       /\ \/ \E r \in Held : RecordHeld(r, m, failed)
          \/ Held = {} /\ ~failed /\ UNCHANGED <<rows, log, held, obj, faults>>
       /\ \/ \E c \in mapped :
               /\ Live(c)
               /\ sender' = [sender EXCEPT ![m] = [Idle EXCEPT !.pc = "targeted", !.to = c,
                                                              !.failed = failed]]
               /\ accepted' = accepted \ {m}
          \/ ~(\E c \in mapped : Live(c)) /\ Ended(m, failed)
  BY DEF Targets
<1>5. /\ SameFaults
      /\ \/ \E r \in Rows, o \in Objects : HolderRecords(r, o, m, failed)
         \/ /\ \A r \in Rows : By(r) = NoConn
            /\ ~failed /\ SameObjs /\ SameStatus /\ SameHeld /\ log' = log
  <2>1. CASE \E r \in Held : RecordHeld(r, m, failed)
    <3>1. PICK r \in Held : RecordHeld(r, m, failed)
      BY <2>1
    <3>2. r \in Rows /\ By(r) \in Objects
      BY FieldsOK DEF Held, Fields
    <3>3. PICK o \in Objects : By(r) = o
      BY <3>2
    <3> QED BY <3>1, <3>2, <3>3, RecordHeldStep
  <2>2. CASE Held = {} /\ ~failed /\ UNCHANGED <<rows, log, held, obj, faults>>
    <3>1. \A r \in Rows : By(r) = NoConn
      BY <2>2, FieldsOK DEF Fields
    <3> QED BY <2>2, <3>1, Kept
  <2> QED BY <1>4, <2>1, <2>2
<1>6. sender \in [Msgs -> SenderType]
  BY DEF TypeOK
<1>7. \/ \E c \in mapped : /\ IsLive(c) /\ At(m)' = "targeted" /\ To(m)' = c
                           /\ accepted' = accepted \ {m}
      \/ /\ \A c \in mapped : ~IsLive(c)
         /\ At(m)' \in {"idle", "done"}
         /\ accepted' = IF failed THEN accepted \ {m} ELSE accepted \cup {m}
  <2>1. CASE \E c \in mapped :
               /\ Live(c)
               /\ sender' = [sender EXCEPT ![m] = [Idle EXCEPT !.pc = "targeted", !.to = c,
                                                              !.failed = failed]]
               /\ accepted' = accepted \ {m}
    BY <1>6, <2>1 DEF Live, IsLive, St, Idle, At, To
  <2>2. CASE ~(\E c \in mapped : Live(c)) /\ Ended(m, failed)
    BY <1>6, <2>2 DEF Live, IsLive, St, Idle, At, Ended
  <2> QED BY <1>4, <2>1, <2>2
<1> QED BY <1>1, <1>2, <1>3, <1>5, <1>7 DEF FindsTargets

\* What Issue does to the fields of the state.
LEMMA IssueStep ==
  ASSUME Base, NEW m \in Msgs, NEW c, To(m) = c, Issue(m)
  PROVE  c \in Conns /\ Issues(m, c)
<1>1. /\ SameFrames /\ SameStatus /\ SameHeld /\ SameReissue /\ SameGhosts /\ SameFaults
      /\ AcSession' = AcSession
      /\ log' = log /\ mapped' = mapped /\ lifecycle' = lifecycle
  BY Kept DEF Issue
<1>2. At(m) = "targeted" /\ sender[m].to = c
  BY DEF Issue, At, To
<1>3. c \in Conns /\ c \in Objects
  BY <1>2, Numbers DEF Base, BusyTarget, Busy
<1>4. /\ obj \in [Objects -> ObjType] /\ gate \in [Objects -> {"open", "reissue", "send"}]
      /\ sender \in [Msgs -> SenderType]
  BY DEF Base, TypeOK
<1> DEFINE id == obj[c].sc - 1
<1>5. /\ gate[c] = "open" /\ obj[c].sc > 0 - MaxSc
      /\ gate' = [gate EXCEPT ![c] = "send"]
      /\ obj' = [obj EXCEPT ![c].sc = id]
      /\ sender' = [sender EXCEPT ![m].pc = "issued", ![m].id = id]
  BY <1>2 DEF Issue
<1>6. id = Sc(c) - 1 /\ Sc(c) \in Int
  BY <1>3, CountersOK DEF Sc, Base
<1>7. id \in OpIds
  <2>1. obj[c].sc \in OpIds \cup {0}
    BY <1>3, <1>4 DEF ObjType
  <2> QED BY <1>5, <2>1, ScaciAssumption DEF OpIds
<1> HIDE DEF id
<1>8. Sc(c)' = id
  BY <1>3, <1>4, <1>5 DEF Sc, ObjType
<1>9. Stays(c) /\ St(c)' = St(c) /\ Aw(c)' = Aw(c)
  BY <1>3, <1>4, <1>5 DEF Stays, Pc, Row, Res, Up, St, Aw, ObjType
<1>10. OthersSame(c)
  BY <1>3, <1>4, <1>5 DEF OthersSame, SameObj, Pc, Row, Res, St, Sc, Up, Aw
<1>11. gate'[c] = "send" /\ \A o \in Objects : o # c => gate'[o] = gate[o]
  BY <1>3, <1>4, <1>5
<1>12. At(m)' = "issued" /\ To(m)' = c /\ Id(m)' = id
  BY <1>2, <1>4, <1>5 DEF At, To, Id, SenderType
<1>13. \A n \in Msgs : n # m => SameSender(n)
  BY <1>4, <1>5 DEF SameSender, At, To, Id
<1>14. Id(m)' = Sc(c) - 1 /\ Sc(c)' = Sc(c) - 1 /\ Sc(c)' \in OpIds
  BY <1>6, <1>7, <1>8, <1>12
<1> QED BY <1>1, <1>2, <1>3, <1>5, <1>9, <1>10, <1>11, <1>12, <1>13, <1>14 DEF Issues, To

\* The broadcast of m ends for the session it is sent to (Served).
LEMMA ServedLeaves ==
  ASSUME TypeOK, NEW m \in Msgs, NEW c \in Conns, To(m) = c, NEW failed \in BOOLEAN, Served(m, failed)
  PROVE  Leaves(m, c, failed) /\ \A n \in Msgs : n # m => SameSender(n)
<1>1. c \in Objects /\ sender[m].to = c
  BY Numbers DEF To
<1>2. gate'[c] = "open" /\ \A o \in Objects : o # c => gate'[o] = gate[o]
  BY <1>1 DEF Served, TypeOK
<1>3. At(m)' \in {"idle", "done"} /\ \A n \in Msgs : n # m => SameSender(n)
  BY DEF Served, Ended, TypeOK, SenderType, Idle, At, SameSender, To, Id
<1> QED BY <1>2, <1>3 DEF Served, Ended, Leaves

\* What RecordOperation does to the fields of the state.
LEMMA RecordOperationStep ==
  ASSUME Base, NEW m \in Msgs, NEW c, To(m) = c, RecordOperation(m)
  PROVE  c \in Conns /\ Records(m, c)
<1>1. /\ SameObjs /\ SameFrames /\ SameStatus /\ SameHeld /\ SameReissue
      /\ AcSession' = AcSession
      /\ reach' = reach /\ (inverted' <=> inverted) /\ (behind' <=> behind)
      /\ mapped' = mapped /\ lifecycle' = lifecycle
  BY Kept DEF RecordOperation
<1>2. At(m) = "issued" /\ sender[m].to = c
  BY DEF RecordOperation, At, To
<1>3. c \in Conns /\ Row(c) \in Rows /\ c \in Objects
  BY <1>2, Numbers DEF Base, BusyTarget, Busy, Sending
<1>4. SameFaults
  BY Kept, Failing DEF RecordOperation, Base
<1>5. TypeOK
  BY DEF Base
<1>6. Owns(c) <=> Owner(c)
  BY <1>3, Numbers DEF Owns, Owner, Row, By
<1>7. sender[m].failed \in BOOLEAN
  BY <1>5 DEF TypeOK, SenderType
<1>8. CASE /\ OnRecord(obj[c].row, m) /\ Served(m, sender[m].failed) /\ UNCHANGED <<log, late>>
  <2>1. OnRecord(Row(c), m)
    BY <1>8 DEF Row
  <2>2. Leaves(m, c, sender[m].failed) /\ \A n \in Msgs : n # m => SameSender(n)
    BY <1>3, <1>5, <1>7, <1>8, ServedLeaves
  <2> QED BY <1>1, <1>2, <1>3, <1>4, <1>7, <1>8, <2>1, <2>2 DEF Records
<1>9. CASE /\ log' = log \cup {Entry(obj[c].row, sender[m].id, m)}
           /\ late' = IF Owns(c) THEN late ELSE late \cup {Entry(obj[c].row, sender[m].id, m)}
           /\ sender' = [sender EXCEPT ![m].pc = "recorded"]
           /\ UNCHANGED <<gate, accepted>>
  <2>1. /\ log' = log \cup {Entry(Row(c), Id(m), m)}
        /\ late' = IF Owner(c) THEN late ELSE late \cup {Entry(Row(c), Id(m), m)}
    BY <1>6, <1>9 DEF Row, Id
  <2>2. /\ At(m)' = "recorded" /\ To(m)' = c /\ Id(m)' = Id(m)
        /\ \A n \in Msgs : n # m => SameSender(n)
    BY <1>2, <1>5, <1>9 DEF TypeOK, SenderType, At, To, Id, SameSender
  <2> QED BY <1>1, <1>2, <1>3, <1>4, <1>9, <2>1, <2>2 DEF Records
<1>10. CASE Served(m, TRUE) /\ UNCHANGED <<log, late>>
  <2>1. Leaves(m, c, TRUE) /\ \A n \in Msgs : n # m => SameSender(n)
    BY <1>3, <1>5, <1>10, ServedLeaves
  <2> QED BY <1>1, <1>2, <1>3, <1>4, <1>10, <2>1 DEF Records
<1> QED BY <1>2, <1>8, <1>9, <1>10 DEF RecordOperation

\* What Send does to the fields of the state.
LEMMA SendStep ==
  ASSUME Base, NEW m \in Msgs, NEW c, To(m) = c, NEW id, Id(m) = id, Send(m)
  PROVE  c \in Conns /\ Sends(m, c, id)
<1>1. /\ SameStatus /\ SameHeld /\ SameReissue /\ SameFaults
      /\ AcSession' = AcSession
      /\ reach' = reach /\ late' = late /\ (inverted' <=> inverted) /\ (behind' <=> behind)
      /\ log' = log /\ mapped' = mapped /\ lifecycle' = lifecycle
  BY Kept DEF Send
<1>2. At(m) = "recorded" /\ sender[m].to = c /\ sender[m].id = id
  BY DEF Send, At, To, Id
<1>3. c \in Conns /\ c \in Objects /\ TypeOK
  BY <1>2, Numbers DEF Base, BusyTarget, Busy, Sending
<1>4. obj' = [obj EXCEPT ![c] = Sent(obj[c], id, m)] /\ wire' = Written(c, id, m)
  BY <1>2 DEF Send
<1>5. obj \in [Objects -> ObjType] /\ sender[m].failed \in BOOLEAN
  BY <1>3 DEF TypeOK, SenderType
<1>6. /\ Stays(c) /\ St(c)' = St(c) /\ Sc(c)' = Sc(c)
      /\ Aw(c)' = {a \in Aw(c) : a.id # id} \cup {[id |-> id, msg |-> m]}
  <2>1. obj'[c] = Sent(obj[c], id, m) /\ obj[c] \in ObjType
    BY <1>3, <1>4, <1>5
  <2> QED BY <2>1 DEF Stays, Pc, Row, Res, Up, St, Sc, Aw, Sent, ObjType
<1>7. OthersSame(c)
  BY <1>3, <1>4, <1>5 DEF OthersSame, SameObj, Pc, Row, Res, St, Sc, Up, Aw
<1>8. /\ Frames(c)' = IF Up(c) THEN Append(Frames(c), [id |-> id, msg |-> m]) ELSE Frames(c)
      /\ \A d \in Conns : d # c => Frames(d)' = Frames(d)
  BY <1>3, <1>4, WritingFrames
<1>9. Leaves(m, c, sender[m].failed) /\ \A n \in Msgs : n # m => SameSender(n)
  BY <1>3, <1>5, ServedLeaves DEF Send
<1>10. \E failed \in BOOLEAN : Leaves(m, c, failed)
  BY <1>5, <1>9
<1>11. Writes(c, id, m)
  BY <1>6, <1>8 DEF Writes
<1> QED BY <1>1, <1>2, <1>3, <1>6, <1>7, <1>8, <1>9, <1>10, <1>11 DEF Sends

\* What FlushCounter does to the fields of the state.
LEMMA FlushCounterStep == ASSUME TypeOK, NEW w \in writes, FlushCounter(w) PROVE Quiet
<1>1. /\ SameObjs /\ SameFrames /\ SameHeld /\ SameReissue /\ SameSenders /\ SameGhosts
      /\ AcSession' = AcSession
      /\ log' = log /\ mapped' = mapped /\ gate' = gate /\ lifecycle' = lifecycle
  BY Kept DEF FlushCounter
<1>2. SameFaults
  BY Kept, Failing DEF FlushCounter
<1>3. w.row \in Rows /\ rows \in [Rows -> RowType]
  BY DEF TypeOK
<1>4. \A p : rows' = [rows EXCEPT ![w.row].sc = p] => SameStatus
  BY <1>3 DEF SameStatus, Status, RowType
<1>5. SameStatus
  BY <1>4, Kept DEF FlushCounter
<1> QED BY <1>1, <1>2, <1>5 DEF Quiet

\* What AcReceive does to the fields of the state.
LEMMA AcReceiveStep == ASSUME TypeOK, NEW c \in Conns, AcReceive(c) PROVE Quiet
<1>1. /\ SameObjs /\ SameStatus /\ SameHeld /\ SameReissue /\ SameSenders /\ SameGhosts /\ SameFaults
      /\ log' = log /\ mapped' = mapped /\ gate' = gate /\ lifecycle' = lifecycle
  BY Kept DEF AcReceive
<1>2. SameFrames
  <2>1. wire \in [Conns -> WireType]
    BY DEF TypeOK
  <2>2. PICK a : wire' = [wire EXCEPT ![c].read = @ + 1, ![c].answers = a]
    BY DEF AcReceive
  <2> QED BY <2>1, <2>2 DEF SameFrames, Frames, WireType
<1>3. AcSession' = AcSession
  BY DEF AcReceive, TypeOK, AcSession
<1> QED BY <1>1, <1>2, <1>3 DEF Quiet

\* What HandleAnswer does to the fields of the state.
LEMMA HandleAnswerStep ==
  ASSUME TypeOK, NEW c \in Conns, HandleAnswer(c)
  PROVE  \E f \in FrameType : Settles(c, f)
<1>1. /\ SameStatus /\ SameHeld /\ SameReissue /\ SameSenders /\ SameGhosts
      /\ AcSession' = AcSession
      /\ mapped' = mapped /\ gate' = gate /\ lifecycle' = lifecycle
  BY Kept DEF HandleAnswer
<1>2. SameFaults
  BY Kept, Failing DEF HandleAnswer
<1>3. c \in Objects /\ obj \in [Objects -> ObjType] /\ wire \in [Conns -> WireType]
  BY Numbers DEF TypeOK
<1>4. PICK f \in wire[c].answers :
       /\ wire' = [wire EXCEPT ![c].answers = @ \ {f}]
       /\ obj' = [obj EXCEPT ![c].awaiting = @ \ {f}]
       /\ \/ /\ f \in obj[c].awaiting
             /\ log' = Completed(obj[c].row, f.id)
             /\ UNCHANGED faults
          \/ f \in obj[c].awaiting /\ Fault /\ UNCHANGED log
          \/ f \notin obj[c].awaiting /\ UNCHANGED <<log, faults>>
  BY DEF HandleAnswer
<1>5. f \in FrameType
  BY <1>3 DEF WireType
<1>6. Stays(c) /\ St(c)' = St(c) /\ Sc(c)' = Sc(c) /\ Aw(c)' = Aw(c) \ {f}
  BY <1>3, <1>4 DEF Stays, Pc, Row, Res, Up, St, Sc, Aw, ObjType
<1>7. OthersSame(c)
  BY <1>3, <1>4 DEF OthersSame, SameObj, Pc, Row, Res, St, Sc, Up, Aw
<1>8. SameFrames
  BY <1>3, <1>4 DEF SameFrames, Frames, WireType
<1>9. \/ log' = Completed(Row(c), f.id)
      \/ log' = log /\ (faults' # 0 \/ f \notin Aw(c))
  BY <1>4, Failing DEF Row, Aw
<1>10. Settles(c, f)
  BY <1>1, <1>2, <1>5, <1>6, <1>7, <1>8, <1>9 DEF Settles
<1> QED BY <1>5, <1>10

\* One of the steps was taken.
Does ==
  \/ \E c \in Conns :
       \/ AcOpens(c) \/ Looks(c) \/ Creates(c) \/ (\E k \in BOOLEAN : Adopts(c, k)) \/ AcCompletes(c)
       \/ GoesLive(c) \/ Resumes(c) \/ Breaks(c) \/ Loses(c) \/ Disconnects(c)
       \/ ReissueReads(c) \/ Reissues(c) \/ (\E f \in FrameType : Settles(c, f))
  \/ \E m \in Msgs :
       \/ FindsTargets(m)
       \/ \E c \in Conns : Issues(m, c) \/ Records(m, c) \/ \E id \in OpIds : Sends(m, c, id)
  \/ Quiet
  \/ Restarts

\* Every step of the model is one of the steps described by their effect on the fields.
LEMMA NextDoes == ASSUME Base, Next PROVE Does
<1>t. TypeOK
  BY DEF Base
<1>1. ASSUME NEW c \in Conns,
             \/ AcOpen(c) \/ Lookup(c) \/ Create(c) \/ Adopt(c) \/ AcComplete(c)
             \/ GoLive(c) \/ PersistResume(c) \/ Break(c) \/ LoseConnection(c) \/ PersistDisconnect(c)
             \/ ReissueRead(c) \/ Reissue(c)
             \/ AcReceive(c) \/ HandleAnswer(c)
      PROVE  Does
  BY <1>1, <1>t, AcOpenStep, LookupStep, CreateStep, AdoptStep, AcCompleteStep, GoLiveStep,
     PersistResumeStep, BreakStep, LoseConnectionStep, PersistDisconnectStep, ReissueReadStep,
     ReissueStep, AcReceiveStep, HandleAnswerStep DEF Does
<1>2. ASSUME NEW m \in Msgs, Targets(m) PROVE Does
  BY <1>2, <1>t, TargetsStep DEF Does
<1>3. ASSUME NEW m \in Msgs, Issue(m) PROVE Does
  <2>1. PICK c : To(m) = c
    OBVIOUS
  <2> QED BY <1>3, <2>1, IssueStep DEF Does
<1>4. ASSUME NEW m \in Msgs, RecordOperation(m) PROVE Does
  <2>1. PICK c : To(m) = c
    OBVIOUS
  <2> QED BY <1>4, <2>1, RecordOperationStep DEF Does
<1>5. ASSUME NEW m \in Msgs, Send(m) PROVE Does
  <2>1. PICK c : To(m) = c
    OBVIOUS
  <2>2. PICK id : Id(m) = id
    OBVIOUS
  <2>3. id \in OpIds
    BY <1>5, <2>2 DEF Send, At, Base, BusyTarget, Sending
  <2> QED BY <1>5, <2>1, <2>2, <2>3, SendStep DEF Does
<1>6. ASSUME NEW w \in writes, FlushCounter(w) PROVE Does
  BY <1>6, <1>t, FlushCounterStep DEF Does
<1>7. ASSUME Restart PROVE Does
  BY <1>7, RestartStep DEF Does
<1> QED BY <1>1, <1>2, <1>3, <1>4, <1>5, <1>6, <1>7 DEF Next

-----------------------------------------------------------------------------
(* The types.                                                              *)

Types ==
  /\ rows \in [Rows -> RowType]
  /\ log \subseteq EntryType /\ late \subseteq EntryType
  /\ obj \in [Objects -> ObjType]
  /\ mapped \subseteq Conns
  /\ held \in [Rows -> HeldType]
  /\ gate \in [Objects -> {"open", "reissue", "send"}]
  /\ lifecycle \in [Rows -> Conns \cup {NoConn}]
  /\ reissue \in [Conns -> ReissueType]
  /\ sender \in [Msgs -> SenderType]
  /\ writes \subseteq [row : Rows, sc : OpIds]
  /\ wire \in [Conns -> WireType]
  /\ ac \in [conn : Conns \cup {NoConn}, session : Rows \cup {NoRow}, last : OpIds \cup {0}]
  /\ accepted \subseteq Msgs /\ reach \in [Msgs -> Rows \cup {NoRow}]
  /\ inverted \in BOOLEAN /\ behind \in BOOLEAN
  /\ faults \in 0..MaxFailures /\ crashes \in 0..MaxFailures

\* The type invariant is the types and the two uniqueness facts.
LEMMA TypesOf ==
  TypeOK <=> Types /\ (\A c, d \in mapped : c = d) /\ (\A q, r \in Held : q = r)
BY DEF TypeOK, Types

\* The failures stay within their bound.
LEMMA FaultType == ASSUME Types, Fault PROVE faults' \in 0..MaxFailures
BY ScaciAssumption DEF Types, Fault

\* AcOpen keeps the types.
LEMMA AcOpenTypes == ASSUME Types, NEW c \in Conns, AcOpen(c) PROVE Types'
<1>1. PICK s \in {NoRow, ac.session} :
       /\ obj' = [obj EXCEPT ![c] = [Unused EXCEPT !.pc = "looking", !.row = s,
                                                   !.know = ac.last, !.up = TRUE]]
       /\ ac' = [conn |-> c, session |-> s, last |-> IF s = NoRow THEN 0 ELSE ac.last]
  BY DEF AcOpen
<1>2. s \in Rows \cup {NoRow} /\ ac.last \in OpIds \cup {0}
  BY DEF Types
<1>3. [Unused EXCEPT !.pc = "looking", !.row = s, !.know = ac.last, !.up = TRUE] \in ObjType
  BY <1>2 DEF Unused, ObjType, Steps
<1>4. obj' \in [Objects -> ObjType]
  BY <1>1, <1>3 DEF Types
<1>5. ac' \in [conn : Conns \cup {NoConn}, session : Rows \cup {NoRow}, last : OpIds \cup {0}]
  BY <1>1, <1>2
<1>6. wire' \in [Conns -> WireType]
  <2>1. ASSUME NEW d \in Conns PROVE [wire[d] EXCEPT !.read = Len(wire[d].frames)] \in WireType
    <3>1. wire[d] \in WireType
      BY DEF Types
    <3>2. Len(wire[d].frames) \in Nat
      BY <3>1 DEF WireType
    <3> QED BY <3>1, <3>2 DEF WireType
  <2> QED BY <2>1 DEF AcOpen
<1> QED BY <1>4, <1>5, <1>6 DEF AcOpen, Types, ghosts

\* Lookup keeps the types.
LEMMA LookupTypes == ASSUME Types, NEW c \in Conns, Lookup(c) PROVE Types'
<1>1. faults' \in 0..MaxFailures
  BY FaultType DEF Lookup, Types
<1>2. obj' \in [Objects -> ObjType]
  <2>1. obj[c] \in ObjType /\ obj \in [Objects -> ObjType] /\ c \in Objects
    BY Numbers DEF Types
  <2>2. obj[c].row \in Rows => rows[obj[c].row].sc \in OpIds \cup {0}
    BY DEF Types, RowType
  <2>3. obj[c].row # NoRow => obj[c].row \in Rows
    BY <2>1 DEF ObjType
  <2>4. CASE obj[c].row # NoRow /\ obj' = [obj EXCEPT ![c].pc = "adopting", ![c].resumed = TRUE,
                                       ![c].sc = rows[obj[c].row].sc, ![c].know = 0]
    <3> DEFINE z == rows[obj[c].row].sc
    <3>1. z \in OpIds \cup {0}
      BY <2>2, <2>3, <2>4
    <3>2. obj' = [obj EXCEPT ![c] = [obj[c] EXCEPT !.pc = "adopting", !.resumed = TRUE, !.sc = z, !.know = 0]]
      BY <2>1, <2>4
    <3> HIDE DEF z
    <3>3. [obj[c] EXCEPT !.pc = "adopting", !.resumed = TRUE, !.sc = z, !.know = 0] \in ObjType
      BY <2>1, <3>1 DEF ObjType, Steps
    <3> QED BY <2>1, <3>2, <3>3
  <2>5. CASE obj' = [obj EXCEPT ![c].pc = "creating", ![c].row = NoRow, ![c].know = 0]
    BY <2>1, <2>5 DEF ObjType, Steps
  <2> QED BY <2>4, <2>5 DEF Lookup
<1> QED BY <1>1, <1>2 DEF Lookup, Types, ghosts

\* Create keeps the types.
LEMMA CreateTypes == ASSUME Types, NEW c \in Conns, Create(c) PROVE Types'
<1>1. faults' \in 0..MaxFailures
  BY FaultType DEF Create, Types
<1>2. obj' \in [Objects -> ObjType]
  <2>1. obj[c] \in ObjType /\ obj \in [Objects -> ObjType] /\ c \in Objects
    BY Numbers DEF Types
  <2>2. CASE \E r \in Rows : obj' = [obj EXCEPT ![c].pc = "adopting", ![c].row = r]
    <3>1. PICK r \in Rows : obj' = [obj EXCEPT ![c] = [obj[c] EXCEPT !.pc = "adopting", !.row = r]]
      BY <2>1, <2>2
    <3>2. [obj[c] EXCEPT !.pc = "adopting", !.row = r] \in ObjType
      BY <2>1 DEF ObjType, Steps
    <3> QED BY <2>1, <3>1, <3>2
  <2>3. CASE obj' = [obj EXCEPT ![c].pc = "closing", ![c].up = FALSE]
    BY <2>1, <2>3 DEF ObjType, Steps
  <2> QED BY <2>2, <2>3 DEF Create
<1>3. rows' \in [Rows -> RowType]
  <2>1. rows \in [Rows -> RowType] /\ [status |-> "active", sc |-> 0] \in RowType
    BY DEF Types, RowType
  <2>2. \A q \in Rows : [rows[q] EXCEPT !.status = "terminated"] \in RowType
    BY <2>1 DEF RowType
  <2> QED BY <2>1, <2>2 DEF Create
<1> QED BY <1>1, <1>2, <1>3 DEF Create, Types, ghosts

\* Adopt keeps the types.
LEMMA AdoptTypes == ASSUME Base, NEW c \in Conns, Adopt(c) PROVE Types'
<1>1. PICK k \in BOOLEAN : Adopts(c, k)
  BY AdoptStep
<1>2. Types /\ c \in Objects /\ Conns \subseteq Objects
  BY TypesOf, Numbers DEF Base
<1>3. mapped' \subseteq Conns
  BY <1>1 DEF Adopts
<1>4. inverted' \in BOOLEAN
  BY DEF Adopt
<1>5. held' \in [Rows -> HeldType]
  <2>1. obj[c].row \in Rows
    BY <1>1 DEF Adopts, Row
  <2>2. HeldWhileConnecting(c) \in HeldType /\ NotHeld \in HeldType
    BY <1>2 DEF HeldWhileConnecting, HeldType
  <2> QED BY <2>1, <2>2, ReleasedAll DEF Adopt
<1>6. obj' \in [Objects -> ObjType]
  <2>1. obj \in [Objects -> ObjType]
    BY <1>2 DEF Types
  <2> DEFINE r       == obj[c].row
             evicted == {d \in mapped \ {c} : SupersededBy(obj[d].row, r)}
             served  == {d \in evicted : obj[d].row = r}
             prev    == IF held[r] # NotHeld THEN {held[r].by} ELSE served
             kk      == ~obj[c].resumed \/ prev # {}
             p       == IF kk THEN "answered" ELSE "closing"
             u       == obj[c].up /\ kk
             z       == ContinuedCounter(c, prev)
  <2>0. p \in Steps /\ u \in BOOLEAN
    BY DEF Steps
  <2>2. obj' = [o \in Objects |->
              IF o = c THEN [obj[c] EXCEPT !.pc = p, !.up = u, !.sc = z]
              ELSE IF o \in evicted THEN [obj[o] EXCEPT !.up = FALSE]
              ELSE obj[o]]
    <3>1. obj' = [o \in Objects |->
              IF o = c THEN [obj[c] EXCEPT !.pc = p, !.up = @ /\ kk, !.sc = z]
              ELSE IF o \in evicted THEN [obj[o] EXCEPT !.up = FALSE]
              ELSE obj[o]]
      BY DEF Adopt
    <3>2. obj[c] \in ObjType
      BY <1>2, <2>1
    <3> HIDE DEF kk, evicted, p, z
    <3> QED BY <3>1, <3>2 DEF ObjType
  <2> HIDE DEF kk, prev, evicted, p, u, z
  <2>3. z \in OpIds \cup {0}
    <3>1. Sc(c)' = z
      BY <1>2, <2>1, <2>2 DEF Sc, ObjType
    <3> QED BY <3>1, <1>1 DEF Adopts
  <2>4. [obj[c] EXCEPT !.pc = p, !.up = u, !.sc = z] \in ObjType
    BY <1>2, <2>0, <2>1, <2>3 DEF ObjType
  <2>5. \A o \in Objects : [obj[o] EXCEPT !.up = FALSE] \in ObjType
    BY <2>1 DEF ObjType
  <2> QED BY <2>1, <2>2, <2>4, <2>5
<1> QED BY <1>2, <1>3, <1>4, <1>5, <1>6 DEF Adopt, Types

\* A field of an object is set (AcComplete, GoLive, PersistResume, Break, LoseConnection,
\* PersistDisconnect).
LEMMA ObjFields ==
  ASSUME NEW o \in ObjType
  PROVE  /\ \A p \in Steps : [o EXCEPT !.pc = p] \in ObjType
         /\ [o EXCEPT !.up = FALSE] \in ObjType
         /\ [o EXCEPT !.state = "active"] \in ObjType
         /\ \A p \in Steps : [o EXCEPT !.pc = p, !.up = FALSE] \in ObjType
         /\ \A p \in Steps : [o EXCEPT !.state = "reissuing", !.pc = p] \in ObjType
         /\ \A z \in OpIds \cup {0} : [o EXCEPT !.sc = z] \in ObjType
         /\ \A A \in SUBSET FrameType : [o EXCEPT !.awaiting = A] \in ObjType
BY DEF ObjType, Steps

\* The steps of a reader are steps.
LEMMA SomeSteps == {"completing", "closing", "resuming", "reading", "losing", "gone"} \subseteq Steps
BY DEF Steps

\* AcComplete keeps the types.
LEMMA AcCompleteTypes == ASSUME Types, NEW c \in Conns, AcComplete(c) PROVE Types'
<1>1. obj[c] \in ObjType /\ obj \in [Objects -> ObjType] /\ c \in Objects
  BY Numbers DEF Types
<1>2. obj' \in [Objects -> ObjType]
  <2>1. obj' = [obj EXCEPT ![c] = [obj[c] EXCEPT !.pc = "completing"]]
    BY <1>1 DEF AcComplete
  <2> QED BY <1>1, <2>1, ObjFields, SomeSteps
<1>3. ac' \in [conn : Conns \cup {NoConn}, session : Rows \cup {NoRow}, last : OpIds \cup {0}]
  <2>1. obj[c].row \in Rows \cup {NoRow}
    BY <1>1 DEF ObjType
  <2> QED BY <2>1 DEF AcComplete, Types
<1> QED BY <1>2, <1>3 DEF AcComplete, Types, ghosts

\* GoLive keeps the types.
LEMMA GoLiveTypes == ASSUME Base, NEW c \in Conns, GoLive(c) PROVE Types'
<1>1. Types
  BY TypesOf DEF Base
<1>2. obj[c] \in ObjType /\ obj \in [Objects -> ObjType] /\ c \in Objects
  BY <1>1, Numbers DEF Types
<1>3. obj[c].row \in Rows
  BY GoLiveStep DEF GoesLive, Row
<1>4. obj' \in [Objects -> ObjType]
  <2>1. \/ obj' = [obj EXCEPT ![c] = [obj[c] EXCEPT !.pc = "closing", !.up = FALSE]]
        \/ obj' = [obj EXCEPT ![c] = [obj[c] EXCEPT !.state = "reissuing", !.pc = "resuming"]]
        \/ obj' = [obj EXCEPT ![c] = [obj[c] EXCEPT !.state = "reissuing", !.pc = "reading"]]
    BY <1>2 DEF GoLive
  <2> QED BY <1>2, <2>1, ObjFields, SomeSteps
<1>5. held' \in [Rows -> HeldType]
  <2>1. NotHeld \in HeldType /\ held \in [Rows -> HeldType]
    BY <1>1 DEF HeldType, Types
  <2> QED BY <1>3, <2>1, ReleasedAll DEF GoLive
<1>6. gate' \in [Objects -> {"open", "reissue", "send"}] /\ lifecycle' \in [Rows -> Conns \cup {NoConn}]
  BY <1>1, <1>2, <1>3 DEF GoLive, Types
<1>7. reissue' \in [Conns -> ReissueType]
  <2>1. reissue \in [Conns -> ReissueType]
    BY <1>1 DEF Types
  <2>2. [reissue EXCEPT ![c].step = "read"] \in [Conns -> ReissueType]
    BY <2>1 DEF ReissueType
  <2> QED BY <2>1, <2>2 DEF GoLive
<1> QED BY <1>1, <1>4, <1>5, <1>6, <1>7 DEF GoLive, Types, ghosts

\* A status write keeps the type of the row.
LEMMA StatusType ==
  ASSUME Types, NEW r \in Rows, NEW s \in {"active", "disconnected", "terminated"}
  PROVE  [rows EXCEPT ![r].status = s] \in [Rows -> RowType]
BY DEF Types, RowType

\* PersistResume keeps the types.
LEMMA PersistResumeTypes == ASSUME Base, NEW c \in Conns, PersistResume(c) PROVE Types'
<1>1. Types
  BY TypesOf DEF Base
<1>2. obj[c] \in ObjType /\ obj \in [Objects -> ObjType] /\ c \in Objects
  BY <1>1, Numbers DEF Types
<1>3. obj[c].row \in Rows
  BY PersistResumeStep DEF Resumes, Row
<1>4. obj' \in [Objects -> ObjType]
  <2>1. obj' = [obj EXCEPT ![c] = [obj[c] EXCEPT !.pc = "reading"]]
    BY <1>2 DEF PersistResume
  <2> QED BY <1>2, <2>1, ObjFields, SomeSteps
<1>5. rows' \in [Rows -> RowType]
  BY <1>1, <1>3, StatusType DEF PersistResume, Types
<1>6. lifecycle' \in [Rows -> Conns \cup {NoConn}]
  BY <1>1, <1>3 DEF PersistResume, Types
<1>7. reissue' \in [Conns -> ReissueType]
  BY <1>1 DEF PersistResume, Types, ReissueType
<1>8. faults' \in 0..MaxFailures
  BY <1>1, FaultType DEF PersistResume, Types
<1> QED BY <1>1, <1>4, <1>5, <1>6, <1>7, <1>8 DEF PersistResume, Types, ghosts

\* Break keeps the types.
LEMMA BreakTypes == ASSUME Types, NEW c \in Conns, Break(c) PROVE Types'
<1>1. obj[c] \in ObjType /\ obj \in [Objects -> ObjType] /\ c \in Objects
  BY Numbers DEF Types
<1>2. obj' \in [Objects -> ObjType]
  <2>1. obj' = [obj EXCEPT ![c] = [obj[c] EXCEPT !.up = FALSE]]
    BY <1>1 DEF Break
  <2> QED BY <1>1, <2>1, ObjFields
<1> QED BY <1>2 DEF Break, Types, ghosts

\* LoseConnection keeps the types.
LEMMA LoseConnectionTypes == ASSUME Base, NEW c \in Conns, LoseConnection(c) PROVE Types'
<1>1. Types
  BY TypesOf DEF Base
<1>2. obj[c] \in ObjType /\ obj \in [Objects -> ObjType] /\ c \in Objects
  BY <1>1, Numbers DEF Types
<1>3. c \in mapped => obj[c].row \in Rows
  BY DEF Base, Phases, Row
<1>4. obj' \in [Objects -> ObjType]
  <2>1. \/ obj' = [obj EXCEPT ![c] = [obj[c] EXCEPT !.pc = "losing"]]
        \/ obj' = [obj EXCEPT ![c] = [obj[c] EXCEPT !.pc = "gone"]]
    BY <1>2 DEF LoseConnection
  <2> QED BY <1>2, <2>1, ObjFields, SomeSteps
<1>5. mapped' \subseteq Conns
  BY <1>1 DEF LoseConnection, Types
<1>6. held' \in [Rows -> HeldType] /\ lifecycle' \in [Rows -> Conns \cup {NoConn}]
  <2>1. HeldOnLoss(c) \in HeldType
    BY <1>2 DEF HeldOnLoss, HeldType
  <2> QED BY <1>1, <1>3, <2>1 DEF LoseConnection, LosesSession, Types
<1>7. wire' \in [Conns -> WireType]
  BY <1>1 DEF LoseConnection, Types, WireType
<1> QED BY <1>1, <1>4, <1>5, <1>6, <1>7 DEF LoseConnection, Types, ghosts

\* PersistDisconnect keeps the types.
LEMMA PersistDisconnectTypes == ASSUME Base, NEW c \in Conns, PersistDisconnect(c) PROVE Types'
<1>1. Types
  BY TypesOf DEF Base
<1>2. obj[c] \in ObjType /\ obj \in [Objects -> ObjType] /\ c \in Objects
  BY <1>1, Numbers DEF Types
<1>3. obj[c].row \in Rows
  BY PersistDisconnectStep DEF Disconnects, Row
<1>4. obj' \in [Objects -> ObjType]
  <2>1. obj' = [obj EXCEPT ![c] = [obj[c] EXCEPT !.pc = "gone"]]
    BY <1>2 DEF PersistDisconnect
  <2> QED BY <1>2, <2>1, ObjFields, SomeSteps
<1>5. rows' \in [Rows -> RowType]
  BY <1>1, <1>3, StatusType DEF PersistDisconnect, Types
<1>6. lifecycle' \in [Rows -> Conns \cup {NoConn}]
  BY <1>1, <1>3 DEF PersistDisconnect, Types
<1>7. faults' \in 0..MaxFailures
  BY <1>1, FaultType DEF PersistDisconnect, Types
<1> QED BY <1>1, <1>4, <1>5, <1>6, <1>7 DEF PersistDisconnect, Types, ghosts

\* ReissueRead keeps the types.
LEMMA ReissueReadTypes == ASSUME Types, NEW c \in Conns, ReissueRead(c) PROVE Types'
<1>1. faults' \in 0..MaxFailures
  BY FaultType DEF ReissueRead, Types
<1>2. reissue' \in [Conns -> ReissueType]
  <2>1. ReadPending(c) \subseteq EntryType
    BY DEF ReadPending, Pending, Types
  <2>2. [step |-> "send", todo |-> ReadPending(c)] \in ReissueType
    BY <2>1 DEF ReissueType
  <2>3. [reissue EXCEPT ![c].step = "send"] \in [Conns -> ReissueType]
    BY DEF Types, ReissueType
  <2> QED BY <2>2, <2>3 DEF ReissueRead, Types
<1> QED BY <1>1, <1>2 DEF ReissueRead, Types, ghosts

\* A frame is awaited and written (sendSCOperation).
LEMMA SentType ==
  ASSUME Types, NEW o \in ObjType, NEW c \in Conns, NEW id \in OpIds, NEW m \in Msgs
  PROVE  Sent(o, id, m) \in ObjType /\ Written(c, id, m) \in [Conns -> WireType]
<1>1. [id |-> id, msg |-> m] \in FrameType
  BY DEF FrameType
<1>2. {a \in o.awaiting : a.id # id} \cup {[id |-> id, msg |-> m]} \in SUBSET FrameType
  BY <1>1 DEF ObjType
<1>3. Sent(o, id, m) \in ObjType
  BY <1>2, ObjFields DEF Sent
<1>4. Append(wire[c].frames, [id |-> id, msg |-> m]) \in Seq(FrameType)
  BY <1>1 DEF Types, WireType
<1>5. Written(c, id, m) \in [Conns -> WireType]
  BY <1>4 DEF Written, Types, WireType
<1> QED BY <1>3, <1>5

\* Reissue keeps the types.
LEMMA ReissueTypes == ASSUME Types, NEW c \in Conns, Reissue(c) PROVE Types'
<1> DEFINE todo == reissue[c].todo
           next == NextReissued(todo)
           last == Cardinality(todo) <= 1
           sent == IF todo = {} THEN obj[c] ELSE Sent(obj[c], next.id, next.msg)
<1>1. /\ obj' = [obj EXCEPT ![c] = IF last THEN [sent EXCEPT !.state = "active"] ELSE sent]
      /\ wire' = IF todo = {} THEN wire ELSE Written(c, next.id, next.msg)
      /\ reissue' = [reissue EXCEPT ![c] =
           IF last THEN [step |-> "none", todo |-> {}] ELSE [@ EXCEPT !.todo = todo \ {next}]]
      /\ gate' = IF last THEN [gate EXCEPT ![c] = "open"] ELSE gate
  BY DEF Reissue
<1>2. obj[c] \in ObjType /\ obj \in [Objects -> ObjType] /\ c \in Objects
  BY Numbers DEF Types
<1>3. todo \subseteq EntryType /\ reissue \in [Conns -> ReissueType]
  BY DEF Types, ReissueType
<1>4. todo # {} => next.id \in OpIds /\ next.msg \in Msgs
  <2>1. todo # {} => next \in EntryType
    BY <1>3, NextReissuedOf
  <2> QED BY <2>1 DEF EntryType
<1> HIDE DEF todo, next, last
<1>5. sent \in ObjType
  BY <1>2, <1>4, SentType
<1>6. wire' \in [Conns -> WireType]
  BY <1>1, <1>2, <1>4, SentType DEF Types
<1> HIDE DEF sent
<1>7. obj' \in [Objects -> ObjType]
  <2>1. [sent EXCEPT !.state = "active"] \in ObjType
    BY <1>5, ObjFields
  <2> QED BY <1>1, <1>2, <1>5, <2>1
<1>8. reissue' \in [Conns -> ReissueType]
  <2>1. [step |-> "none", todo |-> {}] \in ReissueType
    BY DEF ReissueType
  <2>2. [reissue[c] EXCEPT !.todo = todo \ {next}] \in ReissueType
    BY <1>3 DEF ReissueType
  <2> QED BY <1>1, <1>3, <2>1, <2>2
<1>9. gate' \in [Objects -> {"open", "reissue", "send"}]
  BY <1>1, <1>2 DEF Types
<1> QED BY <1>6, <1>7, <1>8, <1>9 DEF Reissue, Types, ghosts

\* A new operation has the type of one.
LEMMA EntryOf ==
  ASSUME NEW r \in Rows, NEW id \in OpIds, NEW m \in Msgs
  PROVE  Entry(r, id, m) \in EntryType
BY DEF Entry, EntryType

\* RecordHeld keeps the types.
LEMMA RecordHeldTypes ==
  ASSUME TypeOK, NEW r \in Held, NEW m \in Msgs, NEW failed \in BOOLEAN, RecordHeld(r, m, failed)
  PROVE  /\ rows' \in [Rows -> RowType] /\ log' \subseteq EntryType
         /\ held' \in [Rows -> HeldType] /\ obj' \in [Objects -> ObjType]
         /\ faults' \in 0..MaxFailures
<1> DEFINE o    == held[r].by
           n    == IF held[r].pending = NotCounted THEN Cardinality(Pending(r)) ELSE held[r].pending
           id   == obj[o].sc - 1
           counted == [held EXCEPT ![r].pending = n]
           stored == [rows EXCEPT ![r].sc = Min({@, id})]
           Reserve == obj[o].sc > 0 - MaxSc /\ obj' = [obj EXCEPT ![o].sc = id]
           Recorded == log' = log \cup {Entry(r, id, m)}
<1>1. Types
  BY TypesOf
<1>2. r \in Rows /\ held[r] # NotHeld /\ held \in [Rows -> HeldType]
  BY <1>1 DEF Held, Types
<1>3. held[r] \in [by : Objects, pending : Nat \cup {NotCounted}]
  BY <1>2 DEF HeldType
<1>4. o \in Objects /\ obj \in [Objects -> ObjType] /\ obj[o] \in ObjType /\ obj[o].sc \in OpIds \cup {0}
  BY <1>1, <1>3 DEF Types, ObjType
<1>5. n \in Nat
  <2>1. Cardinality(Pending(r)) \in Nat
    BY <1>1, PendingFinite DEF Pending, Types
  <2> QED BY <1>3, <2>1
<1>6. \A p \in Nat : [held EXCEPT ![r].pending = p] \in [Rows -> HeldType]
  <2> SUFFICES ASSUME NEW p \in Nat PROVE [held EXCEPT ![r].pending = p] \in [Rows -> HeldType]
    OBVIOUS
  <2>1. [held[r] EXCEPT !.pending = p] \in [by : Objects, pending : Nat \cup {NotCounted}]
    BY <1>3
  <2> QED BY <1>2, <2>1 DEF HeldType
<1>7. [held EXCEPT ![r] = NotHeld] \in [Rows -> HeldType]
  BY <1>2 DEF HeldType
<1>8. ASSUME Reserve
      PROVE  /\ id \in OpIds /\ obj' \in [Objects -> ObjType]
             /\ stored \in [Rows -> RowType] /\ [stored EXCEPT ![r].status = "terminated"] \in [Rows -> RowType]
             /\ log \cup {Entry(r, id, m)} \subseteq EntryType
  <2>1. id \in OpIds
    BY <1>4, <1>8, ScaciAssumption DEF OpIds
  <2>2. obj' \in [Objects -> ObjType]
    <3>1. obj' = [obj EXCEPT ![o] = [obj[o] EXCEPT !.sc = id]]
      BY <1>4, <1>8
    <3>2. [obj[o] EXCEPT !.sc = id] \in ObjType
      BY <1>4, <2>1, ObjFields
    <3> QED BY <1>4, <3>1, <3>2
  <2>3. rows[r] \in RowType /\ rows \in [Rows -> RowType] /\ rows[r].sc \in OpIds \cup {0}
    BY <1>1, <1>2 DEF Types, RowType
  <2> DEFINE z == Min({rows[r].sc, id})
  <2>4. z \in OpIds \cup {0}
    <3>1. rows[r].sc \in Int /\ id \in Int
      BY <2>1, <2>3 DEF OpIds
    <3>2. z \in {rows[r].sc, id}
      BY <3>1, MinOfTwo
    <3> QED BY <2>1, <2>3, <3>2
  <2>5. stored = [rows EXCEPT ![r] = [rows[r] EXCEPT !.sc = z]]
    BY <1>2, <2>3
  <2> HIDE DEF z, id, stored
  <2>6. stored \in [Rows -> RowType]
    BY <1>2, <2>3, <2>4, <2>5 DEF RowType
  <2>7. [stored EXCEPT ![r].status = "terminated"] \in [Rows -> RowType]
    BY <1>2, <2>6 DEF RowType
  <2>8. log \cup {Entry(r, id, m)} \subseteq EntryType
    BY <1>1, <1>2, <2>1, EntryOf DEF Types
  <2> QED BY <2>1, <2>2, <2>6, <2>7, <2>8
<1>9. faults' \in 0..MaxFailures
  BY <1>1, FaultType DEF RecordHeld, Types
<1> HIDE DEF n, id, stored, Reserve
<1>10. n + 1 \in Nat
  BY <1>5
<1>11. CASE UNCHANGED <<rows, log, held, obj>>
  BY <1>1, <1>9, <1>11 DEF Types
<1>12. CASE Reserve /\ rows' \in {rows, stored} /\ held' = counted /\ UNCHANGED log
  BY <1>1, <1>5, <1>6, <1>8, <1>9, <1>12 DEF Types
<1>13. CASE Reserve /\ Recorded /\ rows' = stored /\ held' \in {counted, [held EXCEPT ![r].pending = n + 1]}
  BY <1>1, <1>5, <1>6, <1>8, <1>9, <1>10, <1>13 DEF Types
<1>14. CASE /\ Reserve /\ Recorded
            /\ rows' = [stored EXCEPT ![r].status = "terminated"]
            /\ held' = [held EXCEPT ![r] = NotHeld]
  BY <1>1, <1>7, <1>8, <1>9, <1>14 DEF Types
<1>15. RecordHeld(r, m, failed) =>
          \/ UNCHANGED <<rows, log, held, obj>>
          \/ Reserve /\ rows' \in {rows, stored} /\ held' = counted /\ UNCHANGED log
          \/ Reserve /\ Recorded /\ rows' = stored /\ held' \in {counted, [held EXCEPT ![r].pending = n + 1]}
          \/ /\ Reserve /\ Recorded
             /\ rows' = [stored EXCEPT ![r].status = "terminated"]
             /\ held' = [held EXCEPT ![r] = NotHeld]
  BY DEF RecordHeld, n, id, stored, Reserve
<1> QED BY <1>11, <1>12, <1>13, <1>14, <1>15

\* Ended keeps the types.
LEMMA EndedTypes ==
  ASSUME Types, NEW m \in Msgs, NEW failed, Ended(m, failed)
  PROVE  sender' \in [Msgs -> SenderType] /\ accepted' \subseteq Msgs
<1>1. \A p \in {"idle", "done"} : [Idle EXCEPT !.pc = p] \in SenderType
  BY Numbers DEF Idle, SenderType
<1> QED BY <1>1 DEF Ended, Types

\* Targets keeps the types.
LEMMA TargetsTypes == ASSUME TypeOK, NEW m \in Msgs, Targets(m) PROVE Types'
<1>1. Types
  BY TypesOf
<1>2. PICK failed \in BOOLEAN :
       /\ \/ \E r \in Held : RecordHeld(r, m, failed)
          \/ Held = {} /\ ~failed /\ UNCHANGED <<rows, log, held, obj, faults>>
       /\ \/ \E c \in mapped :
               /\ Live(c)
               /\ sender' = [sender EXCEPT ![m] = [Idle EXCEPT !.pc = "targeted", !.to = c,
                                                              !.failed = failed]]
               /\ accepted' = accepted \ {m}
          \/ ~(\E c \in mapped : Live(c)) /\ Ended(m, failed)
  BY DEF Targets
<1>3. /\ rows' \in [Rows -> RowType] /\ log' \subseteq EntryType
      /\ held' \in [Rows -> HeldType] /\ obj' \in [Objects -> ObjType]
      /\ faults' \in 0..MaxFailures
  <2>1. CASE \E r \in Held : RecordHeld(r, m, failed)
    <3>1. PICK r \in Held : RecordHeld(r, m, failed)
      BY <2>1
    <3> QED BY <3>1, RecordHeldTypes
  <2>2. CASE UNCHANGED <<rows, log, held, obj, faults>>
    BY <1>1, <2>2 DEF Types
  <2> QED BY <1>2, <2>1, <2>2
<1>4. sender' \in [Msgs -> SenderType] /\ accepted' \subseteq Msgs
  <2>1. \A c \in Conns : [Idle EXCEPT !.pc = "targeted", !.to = c, !.failed = failed] \in SenderType
    BY DEF Idle, SenderType
  <2>2. mapped \subseteq Conns
    BY <1>1 DEF Types
  <2>3. CASE \E c \in mapped :
               /\ sender' = [sender EXCEPT ![m] = [Idle EXCEPT !.pc = "targeted", !.to = c,
                                                              !.failed = failed]]
               /\ accepted' = accepted \ {m}
    <3>1. PICK c \in Conns :
            sender' = [sender EXCEPT ![m] = [Idle EXCEPT !.pc = "targeted", !.to = c, !.failed = failed]]
      BY <2>2, <2>3
    <3>2. sender \in [Msgs -> SenderType] /\ accepted \subseteq Msgs
      BY <1>1 DEF Types
    <3>3. [Idle EXCEPT !.pc = "targeted", !.to = c, !.failed = failed] \in SenderType
      BY <2>1
    <3> QED BY <2>3, <3>1, <3>2, <3>3
  <2>4. CASE Ended(m, failed)
    BY <1>1, <2>4, EndedTypes
  <2> QED BY <1>2, <2>3, <2>4
<1>5. reach' \in [Msgs -> Rows \cup {NoRow}]
  BY <1>1 DEF Targets, Types
<1> QED BY <1>1, <1>3, <1>4, <1>5 DEF Targets, Types

\* Issue keeps the types.
LEMMA IssueTypes == ASSUME Base, NEW m \in Msgs, Issue(m) PROVE Types'
<1>1. Types
  BY TypesOf DEF Base
<1>2. PICK c : To(m) = c
  OBVIOUS
<1>3. c \in Conns /\ Issues(m, c) /\ sender[m].to = c
  BY <1>2, IssueStep DEF To
<1>4. c \in Objects /\ obj \in [Objects -> ObjType] /\ obj[c] \in ObjType /\ sender \in [Msgs -> SenderType]
  BY <1>1, <1>3, Numbers DEF Types
<1>5. obj[c].row \in Rows
  BY <1>3 DEF Base, BusyTarget, Busy, Issues, Row
<1> DEFINE id == obj[c].sc - 1
<1>6. /\ gate' = [gate EXCEPT ![c] = "send"]
      /\ obj' = [obj EXCEPT ![c].sc = id]
      /\ writes' = writes \cup {[row |-> obj[c].row, sc |-> id]}
      /\ sender' = [sender EXCEPT ![m].pc = "issued", ![m].id = id]
  BY <1>3 DEF Issue
<1>7. id \in OpIds
  <2>1. Sc(c)' = id
    BY <1>4, <1>6 DEF Sc, ObjType
  <2> QED BY <1>3, <2>1 DEF Issues
<1> HIDE DEF id
<1>8. obj' \in [Objects -> ObjType]
  <2>1. [obj[c] EXCEPT !.sc = id] \in ObjType
    BY <1>4, <1>7, ObjFields
  <2> QED BY <1>4, <1>6, <2>1
<1>9. writes' \subseteq [row : Rows, sc : OpIds]
  BY <1>1, <1>5, <1>6, <1>7 DEF Types
<1>10. sender' \in [Msgs -> SenderType]
  <2>1. [sender[m] EXCEPT !.pc = "issued", !.id = id] \in SenderType
    BY <1>4, <1>7 DEF SenderType
  <2>2. sender' = [sender EXCEPT ![m] = [sender[m] EXCEPT !.pc = "issued", !.id = id]]
    BY <1>4, <1>6
  <2> QED BY <1>4, <2>1, <2>2
<1>11. gate' \in [Objects -> {"open", "reissue", "send"}]
  BY <1>1, <1>4, <1>6 DEF Types
<1> QED BY <1>1, <1>8, <1>9, <1>10, <1>11 DEF Issue, Types, ghosts

\* Served keeps the types.
LEMMA ServedTypes ==
  ASSUME Types, NEW m \in Msgs, NEW failed, Served(m, failed)
  PROVE  /\ gate' \in [Objects -> {"open", "reissue", "send"}]
         /\ sender' \in [Msgs -> SenderType] /\ accepted' \subseteq Msgs
<1>1. gate' \in [Objects -> {"open", "reissue", "send"}]
  BY DEF Served, Types
<1>2. sender' \in [Msgs -> SenderType] /\ accepted' \subseteq Msgs
  BY EndedTypes DEF Served
<1> QED BY <1>1, <1>2

\* RecordOperation keeps the types.
LEMMA RecordOperationTypes == ASSUME Base, NEW m \in Msgs, RecordOperation(m) PROVE Types'
<1>1. Types
  BY TypesOf DEF Base
<1>2. PICK c : To(m) = c
  OBVIOUS
<1>3. c \in Conns /\ Records(m, c) /\ sender[m].to = c
  BY <1>2, RecordOperationStep DEF To
<1>4. Row(c) \in Rows /\ Id(m) \in OpIds
  BY <1>3 DEF Base, BusyTarget, Busy, Sending, Records
<1>5. log' \subseteq EntryType /\ late' \subseteq EntryType
  <2>1. Entry(Row(c), Id(m), m) \in EntryType
    BY <1>4, EntryOf
  <2>2. log \subseteq EntryType /\ late \subseteq EntryType
    BY <1>1 DEF Types
  <2> QED BY <1>3, <2>1, <2>2 DEF Records
<1>6. /\ gate' \in [Objects -> {"open", "reissue", "send"}]
      /\ sender' \in [Msgs -> SenderType] /\ accepted' \subseteq Msgs
  <2>1. CASE \E failed : Served(m, failed)
    BY <1>1, <2>1, ServedTypes
  <2>2. CASE sender' = [sender EXCEPT ![m].pc = "recorded"] /\ UNCHANGED <<gate, accepted>>
    BY <1>1, <2>2 DEF Types, SenderType
  <2> QED BY <2>1, <2>2 DEF RecordOperation
<1>7. faults' \in 0..MaxFailures
  BY <1>1, FaultType DEF RecordOperation, Types
<1> QED BY <1>1, <1>5, <1>6, <1>7 DEF RecordOperation, Types

\* Send keeps the types.
LEMMA SendTypes == ASSUME Base, NEW m \in Msgs, Send(m) PROVE Types'
<1>1. Types
  BY TypesOf DEF Base
<1>2. At(m) = "recorded"
  BY DEF Send, At
<1>3. sender[m].to \in Conns /\ sender[m].id \in OpIds
  BY <1>2 DEF Base, BusyTarget, Busy, Sending, To, Id
<1> DEFINE c == sender[m].to
<1>4. c \in Objects /\ obj \in [Objects -> ObjType] /\ obj[c] \in ObjType
  BY <1>1, <1>3, Numbers DEF Types
<1>5. obj' \in [Objects -> ObjType] /\ wire' \in [Conns -> WireType]
  BY <1>1, <1>3, <1>4, SentType DEF Send
<1>6. /\ gate' \in [Objects -> {"open", "reissue", "send"}]
      /\ sender' \in [Msgs -> SenderType] /\ accepted' \subseteq Msgs
  BY <1>1, ServedTypes DEF Send
<1> QED BY <1>1, <1>5, <1>6 DEF Send, Types

\* FlushCounter keeps the types.
LEMMA FlushCounterTypes == ASSUME Types, NEW w \in writes, FlushCounter(w) PROVE Types'
<1>1. w.row \in Rows /\ w.sc \in OpIds /\ rows \in [Rows -> RowType]
  BY DEF Types
<1>2. rows[w.row].sc \in OpIds \cup {0}
  BY <1>1 DEF RowType
<1> DEFINE z == Min({rows[w.row].sc, w.sc})
<1>3. z \in OpIds \cup {0}
  <2>1. rows[w.row].sc \in Int /\ w.sc \in Int
    BY <1>1, <1>2 DEF OpIds
  <2>2. z \in {rows[w.row].sc, w.sc}
    BY <2>1, MinOfTwo
  <2> QED BY <1>1, <1>2, <2>2
<1>4. rows' \in [Rows -> RowType]
  <2>1. rows' = rows \/ rows' = [rows EXCEPT ![w.row] = [rows[w.row] EXCEPT !.sc = z]]
    BY <1>1 DEF FlushCounter
  <2> HIDE DEF z
  <2> QED BY <1>1, <1>3, <2>1 DEF RowType
<1>5. faults' \in 0..MaxFailures
  BY FaultType DEF FlushCounter, Types
<1>6. writes' \subseteq [row : Rows, sc : OpIds]
  BY DEF FlushCounter, Types
<1> QED BY <1>4, <1>5, <1>6 DEF FlushCounter, Types, ghosts

\* AcReceive keeps the types.
LEMMA AcReceiveTypes == ASSUME Types, NEW c \in Conns, AcReceive(c) PROVE Types'
<1> DEFINE f == wire[c].frames[wire[c].read + 1]
<1>1. wire \in [Conns -> WireType] /\ wire[c] \in WireType
  BY DEF Types
<1>2. wire[c].frames \in Seq(FrameType) /\ wire[c].read \in Nat /\ wire[c].answers \subseteq FrameType
  BY <1>1 DEF WireType
<1>3. f \in FrameType
  BY <1>2 DEF AcReceive
<1>4. /\ \E a \in {wire[c].answers, wire[c].answers \cup {f}} :
           wire' = [wire EXCEPT ![c] = [wire[c] EXCEPT !.read = wire[c].read + 1, !.answers = a]]
      /\ ac' = [ac EXCEPT !.last = Min({ac.last, f.id})]
  <2>1. CASE obj[c].up
    BY <1>1, <2>1 DEF AcReceive, Types
  <2>2. CASE ~obj[c].up
    BY <1>1, <2>2 DEF AcReceive, Types
  <2> QED BY <2>1, <2>2
<1> HIDE DEF f
<1>5. wire' \in [Conns -> WireType]
  <2>1. PICK a \in {wire[c].answers, wire[c].answers \cup {f}} :
           wire' = [wire EXCEPT ![c] = [wire[c] EXCEPT !.read = wire[c].read + 1, !.answers = a]]
    BY <1>4
  <2>2. a \in SUBSET FrameType /\ wire[c].read + 1 \in Nat
    BY <1>2, <1>3
  <2>3. [wire[c] EXCEPT !.read = wire[c].read + 1, !.answers = a] \in WireType
    BY <1>1, <2>2 DEF WireType
  <2> QED BY <1>1, <2>1, <2>3
<1>6. ac' \in [conn : Conns \cup {NoConn}, session : Rows \cup {NoRow}, last : OpIds \cup {0}]
  <2>1. f.id \in OpIds /\ ac.last \in OpIds \cup {0}
    BY <1>3 DEF Types, FrameType
  <2>2. f.id \in Int /\ ac.last \in Int
    BY <2>1 DEF OpIds
  <2>3. Min({ac.last, f.id}) \in OpIds \cup {0}
    BY <2>1, <2>2, MinOfTwo
  <2> QED BY <1>4, <2>3 DEF Types
<1> QED BY <1>5, <1>6 DEF AcReceive, Types, ghosts

\* HandleAnswer keeps the types.
LEMMA HandleAnswerTypes == ASSUME Types, NEW c \in Conns, HandleAnswer(c) PROVE Types'
<1>1. c \in Objects /\ obj \in [Objects -> ObjType] /\ obj[c] \in ObjType
  BY Numbers DEF Types
<1>2. obj' \in [Objects -> ObjType]
  <2>1. PICK f : obj' = [obj EXCEPT ![c] = [obj[c] EXCEPT !.awaiting = obj[c].awaiting \ {f}]]
    BY <1>1 DEF HandleAnswer
  <2>2. obj[c].awaiting \ {f} \in SUBSET FrameType
    BY <1>1 DEF ObjType
  <2> QED BY <1>1, <2>1, <2>2, ObjFields
<1>3. wire' \in [Conns -> WireType]
  <2>1. wire \in [Conns -> WireType] /\ wire[c] \in WireType
    BY DEF Types
  <2>2. PICK f : wire' = [wire EXCEPT ![c] = [wire[c] EXCEPT !.answers = wire[c].answers \ {f}]]
    BY <2>1 DEF HandleAnswer
  <2>3. [wire[c] EXCEPT !.answers = wire[c].answers \ {f}] \in WireType
    BY <2>1 DEF WireType
  <2> QED BY <2>1, <2>2, <2>3
<1>4. log' \subseteq EntryType
  <2>1. \A r, id : Completed(r, id) \subseteq EntryType
    <3>1. \A e \in EntryType : [e EXCEPT !.done = TRUE] \in EntryType
      BY DEF EntryType
    <3>2. log \subseteq EntryType
      BY DEF Types
    <3> QED BY <3>1, <3>2 DEF Completed
  <2> QED BY <2>1 DEF HandleAnswer, Types
<1>5. faults' \in 0..MaxFailures
  BY FaultType DEF HandleAnswer, Types
<1> QED BY <1>2, <1>3, <1>4, <1>5 DEF HandleAnswer, Types, ghosts

\* Restart keeps the types.
LEMMA RestartTypes ==
  ASSUME Base, Restart, \A q, r \in Loaded : q = r
  PROVE  Types'
<1>1. Types
  BY TypesOf DEF Base
<1>2. rows' \in [Rows -> RowType]
  <2>1. rows \in [Rows -> RowType]
    BY <1>1 DEF Types
  <2>2. \A r \in Rows : [rows[r] EXCEPT !.status = "disconnected"] \in RowType
    BY <2>1 DEF RowType
  <2> QED BY <2>1, <2>2 DEF Restart
<1>3. held' \in [Rows -> HeldType]
  BY Numbers DEF Restart, HeldOnLoss, HeldType
<1>4. obj' \in [Objects -> ObjType]
  <2>1. Unused \in ObjType
    BY DEF Unused, ObjType, Steps
  <2>2. \A p \in Steps, w \in Rows \cup {NoRow} : [Unused EXCEPT !.pc = p, !.row = w] \in ObjType
    BY <2>1 DEF ObjType
  <2>3. \A w \in Rows \cup {NoRow}, z \in OpIds \cup {0} : [Unused EXCEPT !.row = w, !.sc = z] \in ObjType
    BY <2>1 DEF ObjType
  <2> DEFINE w == IF Loaded = {} THEN NoRow ELSE Min(Loaded)
             z == IF Loaded = {} THEN 0 ELSE rows[Min(Loaded)].sc
  <2>4. w \in Rows \cup {NoRow} /\ z \in OpIds \cup {0}
    <3>1. CASE Loaded = {}
      BY <3>1
    <3>2. CASE Loaded # {}
      <4>1. PICK r \in Rows : Loaded = {r}
        BY <3>2 DEF Loaded
      <4>2. Min(Loaded) = r
        BY <4>1, MinOfOne, Numbers
      <4>3. rows[r].sc \in OpIds \cup {0}
        BY <1>1 DEF Types, RowType
      <4> QED BY <4>1, <4>2, <4>3
    <3> QED BY <3>1, <3>2
  <2>5. \A o \in Objects : obj[o].row \in Rows \cup {NoRow}
    BY <1>1 DEF Types, ObjType
  <2>6. obj' = [o \in Objects |->
           IF o = BootObject THEN [Unused EXCEPT !.row = w, !.sc = z]
           ELSE IF obj[o].pc = "unused" THEN Unused
           ELSE [Unused EXCEPT !.pc = "gone", !.row = obj[o].row]]
    BY DEF Restart
  <2> HIDE DEF w, z
  <2>7. \A o \in Objects : [Unused EXCEPT !.pc = "gone", !.row = obj[o].row] \in ObjType
    BY <2>2, <2>5, SomeSteps
  <2>8. [Unused EXCEPT !.row = w, !.sc = z] \in ObjType
    BY <2>3, <2>4
  <2> QED BY <2>1, <2>6, <2>7, <2>8
<1>5. reissue' \in [Conns -> ReissueType]
  BY DEF Restart, ReissueType
<1>6. sender' \in [Msgs -> SenderType]
  <2>1. Idle \in SenderType /\ [Idle EXCEPT !.pc = "done"] \in SenderType
    BY DEF Idle, SenderType
  <2> QED BY <2>1 DEF Restart
<1>7. crashes' \in 0..MaxFailures
  <2>1. faults + crashes < MaxFailures /\ crashes' = crashes + 1
    BY DEF Restart
  <2>2. faults \in 0..MaxFailures /\ crashes \in 0..MaxFailures /\ MaxFailures \in Nat
    BY <1>1, ScaciAssumption DEF Types
  <2> QED BY <2>1, <2>2
<1>8. /\ gate' \in [Objects -> {"open", "reissue", "send"}]
      /\ lifecycle' \in [Rows -> Conns \cup {NoConn}]
      /\ mapped' \subseteq Conns /\ writes' \subseteq [row : Rows, sc : OpIds]
      /\ behind' \in BOOLEAN
  BY DEF Restart
<1> QED BY <1>1, <1>2, <1>3, <1>4, <1>5, <1>6, <1>7, <1>8 DEF Restart, Types

\* Next keeps the types.
LEMMA NextTypes ==
  ASSUME Base, Next, \A q, r \in Loaded : q = r
  PROVE  Types'
<1>t. TypeOK /\ Types
  BY TypesOf DEF Base
<1>1. ASSUME NEW c \in Conns, AcOpen(c) \/ Lookup(c) \/ Create(c) \/ Adopt(c) \/ AcComplete(c)
      PROVE  Types'
  BY <1>1, <1>t, AcOpenTypes, LookupTypes, CreateTypes, AdoptTypes, AcCompleteTypes
<1>2. ASSUME NEW c \in Conns,
             GoLive(c) \/ PersistResume(c) \/ Break(c) \/ LoseConnection(c) \/ PersistDisconnect(c)
      PROVE  Types'
  BY <1>2, <1>t, GoLiveTypes, PersistResumeTypes, BreakTypes, LoseConnectionTypes, PersistDisconnectTypes
<1>3. ASSUME NEW c \in Conns, ReissueRead(c) \/ Reissue(c) \/ AcReceive(c) \/ HandleAnswer(c)
      PROVE  Types'
  BY <1>3, <1>t, ReissueReadTypes, ReissueTypes, AcReceiveTypes, HandleAnswerTypes
<1>4. ASSUME NEW m \in Msgs, Targets(m) \/ Issue(m) \/ RecordOperation(m) \/ Send(m)
      PROVE  Types'
  BY <1>4, <1>t, TargetsTypes, IssueTypes, RecordOperationTypes, SendTypes
<1>5. ASSUME NEW w \in writes, FlushCounter(w) PROVE Types'
  BY <1>5, <1>t, FlushCounterTypes
<1>6. ASSUME Restart PROVE Types'
  BY <1>6, RestartTypes
<1> QED BY <1>1, <1>2, <1>3, <1>4, <1>5, <1>6 DEF Next

-----------------------------------------------------------------------------
(* The sessions: rows, connections, the registry, the holder and the       *)
(* lifecycle locks.                                                        *)

\* A step that leaves the sessions as they are, but for the reissue that ends.
SessionObjs ==
  \A o \in Objects : Stays(o) /\ (St(o)' = "connecting" <=> St(o) = "connecting")

SessionKept ==
  /\ SessionObjs /\ SameStatus /\ SameHeld
  /\ mapped' = mapped /\ lifecycle' = lifecycle
  /\ AcSession' = AcSession /\ (inverted' <=> inverted) /\ SameFaults

\* The holder ends the session it holds, past its limit.
HolderDrops ==
  /\ SessionObjs
  /\ \E r \in Rows : /\ By(r) # NoConn /\ Status(r)' = "terminated" /\ By(r)' = NoConn
                     /\ \A q \in Rows : q # r => Status(q)' = Status(q) /\ By(q)' = By(q)
  /\ mapped' = mapped /\ lifecycle' = lifecycle
  /\ AcSession' = AcSession /\ (inverted' <=> inverted) /\ SameFaults

SessionDoes ==
  \/ \E c \in Conns :
       \/ AcOpens(c) \/ Looks(c) \/ Creates(c) \/ (\E k \in BOOLEAN : Adopts(c, k)) \/ AcCompletes(c)
       \/ GoesLive(c) \/ Resumes(c) \/ Breaks(c) \/ Loses(c) \/ Disconnects(c)
  \/ SessionKept \/ HolderDrops \/ Restarts

\* The reissue of a session that went live holds its gate.
ReissueGate ==
  \A c \in Conns :
    /\ Step(c) # "none" => gate[c] = "reissue" /\ St(c) = "reissuing" /\ Row(c) \in Rows
    /\ Pc(c) = "resuming" => gate[c] = "reissue" /\ Step(c) = "none" /\ St(c) = "reissuing"
    /\ Pc(c) \in {"unused", "looking", "creating", "adopting", "answered", "completing", "closing"}
         => Step(c) = "none"
    /\ Step(c) # "send" => Todo(c) = {}

\* What the proofs about the sessions use of the types.
Small ==
  /\ Conns \subseteq Objects /\ BootObject \in Objects /\ BootObject \notin Conns
  /\ NoConn \notin Objects /\ NoRow \notin Rows
  /\ mapped \subseteq Conns /\ \A c, d \in mapped : c = d
  /\ \A o \in Objects : Row(o) \in Rows \cup {NoRow}
  /\ \A r \in Rows : /\ Status(r) \in {"absent", "active", "disconnected", "terminated"}
                     /\ By(r) \in Objects \cup {NoConn}
  /\ AcSession \in Rows \cup {NoRow}

\* The type invariant gives these facts.
LEMMA SmallOK == ASSUME TypeOK PROVE Small
<1>1. mapped \subseteq Conns /\ \A c, d \in mapped : c = d
  BY DEF TypeOK
<1> QED BY <1>1, FieldsOK, Numbers DEF Small, Fields

\* The steps of reissue, broadcast and answers leave the sessions alone, or end the held one.
LEMMA SessionSteps == ASSUME Base, ReissueGate, Does PROVE SessionDoes
<1>s. Small
  BY SmallOK DEF Base
<1>1. ASSUME SameObjs, SameStatus, SameHeld, mapped' = mapped, lifecycle' = lifecycle,
             AcSession' = AcSession, inverted' <=> inverted, SameFaults
      PROVE  SessionKept
  BY <1>1 DEF SessionKept, SessionObjs, SameObjs, SameObj, Stays
<1>2. ASSUME NEW c \in Conns, Stays(c), St(c)' = "connecting" <=> St(c) = "connecting", OthersSame(c)
      PROVE  SessionObjs
  BY <1>2 DEF SessionObjs, OthersSame, SameObj, Stays
<1>3. ASSUME NEW c \in Conns, ReissueReads(c) PROVE SessionKept
  BY <1>1, <1>3 DEF ReissueReads, SameGhosts
<1>4. ASSUME NEW c \in Conns, Reissues(c) PROVE SessionKept
  <2>1. St(c)' # "connecting" /\ St(c) # "connecting"
    BY <1>4 DEF Reissues, ReissueGate
  <2>2. SessionObjs
    BY <1>2, <1>4, <2>1 DEF Reissues
  <2> QED BY <1>4, <2>2 DEF Reissues, SessionKept, SameGhosts
<1>5. ASSUME NEW c \in Conns, NEW f \in FrameType, Settles(c, f) PROVE SessionKept
  <2>1. SessionObjs
    BY <1>2, <1>5 DEF Settles
  <2> QED BY <1>5, <2>1 DEF Settles, SessionKept, SameGhosts
<1>6. ASSUME NEW m \in Msgs, NEW c \in Conns, Issues(m, c) PROVE SessionKept
  <2>1. SessionObjs
    BY <1>2, <1>6 DEF Issues
  <2> QED BY <1>6, <2>1 DEF Issues, SessionKept, SameGhosts
<1>7. ASSUME NEW m \in Msgs, NEW c \in Conns, Records(m, c) PROVE SessionKept
  BY <1>1, <1>7 DEF Records
<1>8. ASSUME NEW m \in Msgs, NEW c \in Conns, NEW id \in OpIds, Sends(m, c, id) PROVE SessionKept
  <2>1. SessionObjs
    BY <1>2, <1>8 DEF Sends
  <2> QED BY <1>8, <2>1 DEF Sends, SessionKept
<1>9. ASSUME Quiet PROVE SessionKept
  BY <1>1, <1>9 DEF Quiet, SameGhosts
<1>10. ASSUME NEW m \in Msgs, FindsTargets(m) PROVE SessionKept \/ HolderDrops
  <2>1. mapped' = mapped /\ lifecycle' = lifecycle /\ AcSession' = AcSession
        /\ (inverted' <=> inverted) /\ SameFaults
    BY <1>10 DEF FindsTargets
  <2>2. ASSUME NEW failed \in BOOLEAN, NEW r \in Rows, NEW o \in Objects, HolderRecords(r, o, m, failed)
        PROVE  SessionKept \/ HolderDrops
    <3>1. SessionObjs
      BY <2>2 DEF HolderRecords, SessionObjs
    <3>2. \A q \in Rows : q # r => Status(q)' = Status(q) /\ By(q)' = By(q)
      BY <2>2 DEF HolderRecords
    <3>3. By(r) # NoConn
      BY <1>s, <2>2 DEF HolderRecords, Small
    <3>4. CASE Status(r)' = Status(r) /\ By(r)' = By(r)
      BY <2>1, <3>1, <3>2, <3>4 DEF SessionKept, SameStatus, SameHeld
    <3>5. CASE Status(r)' = "terminated" /\ By(r)' = NoConn
      BY <2>1, <3>1, <3>2, <3>3, <3>5 DEF HolderDrops
    <3> QED BY <2>2, <3>4, <3>5 DEF HolderRecords
  <2>3. CASE SameObjs /\ SameStatus /\ SameHeld
    BY <1>1, <2>1, <2>3
  <2> QED BY <1>10, <2>2, <2>3 DEF FindsTargets
<1> QED BY <1>3, <1>4, <1>5, <1>6, <1>7, <1>8, <1>9, <1>10 DEF Does, SessionDoes

-----------------------------------------------------------------------------
(* The inductive invariant of the sessions.                                *)

\* Rows are created in order, and a new row ends the older ones.
RowsInOrder ==
  \A q, r \in Rows : q < r /\ Status(r) # "absent" => Status(q) = "terminated"

\* Nothing knows a row that does not exist.
AbsentUnknown ==
  \A r \in Rows : Status(r) = "absent" =>
    /\ \A o \in Objects : Row(o) # r
    /\ AcSession # r /\ By(r) = NoConn

\* Nothing else knows the row of a new session that was not adopted yet.
FreshRow ==
  \A c \in Conns : Pc(c) = "adopting" /\ ~Res(c) =>
    /\ \A o \in Objects : o # c => Row(o) # Row(c)
    /\ AcSession # Row(c) /\ By(Row(c)) = NoConn

\* While a connection is in the registry only its own session is held, until it goes live.
HeldWhileMapped ==
  \A c \in mapped, r \in Rows : By(r) # NoConn =>
    r = Row(c) /\ By(r) = c /\ Pc(c) \in {"answered", "completing"}

\* The writes of resume and disconnect run under the lifecycle lock of their row.
LockHeld == \A c \in Conns : Pc(c) \in {"resuming", "losing"} => lifecycle[Row(c)] = c

\* A session in the registry whose row was written for it.
Settled(c) ==
  /\ c \in mapped
  /\ Pc(c) = "reading" \/ (Pc(c) \in {"answered", "completing"} /\ ~Res(c))
Fresh(c) == Pc(c) = "adopting" /\ ~Res(c)

\* No disconnect of its row is pending.
SettledAlone == \A c, d \in Conns : Settled(c) /\ Pc(d) = "losing" => Row(d) # Row(c)

SettledNotDisconnected ==
  faults = 0 => \A c \in Conns : Settled(c) \/ Fresh(c) => Status(Row(c)) # "disconnected"

\* A resume is written for a row the registry serves.
ResumingServed ==
  ~inverted => \A c \in Conns : Pc(c) = "resuming" /\ CanResume(Row(c)) =>
                 \E d \in mapped : Row(d) = Row(c)

ActiveServed ==
  faults = 0 /\ ~inverted => \A r \in Rows : Status(r) = "active" =>
    \E c \in Conns : Row(c) = r /\ (c \in mapped \/ Pc(c) = "losing" \/ Fresh(c))

\* A session that connects is held until it goes live.
ConnectingHeld ==
  \A c \in mapped : Pc(c) \in {"answered", "completing"} /\ CanResume(Row(c)) => By(Row(c)) # NoConn

\* The session the AC has is held or live.
AcServed ==
  ~inverted => (AcSession \in Rows /\ CanResume(AcSession) =>
    By(AcSession) # NoConn \/ \E c \in mapped : St(c) # "connecting" /\ Row(c) = AcSession)

\* An open connection past its adoption is in the registry.
UpIsMapped ==
  \A c \in Conns : Up(c) /\ Pc(c) \notin {"unused", "looking", "creating", "adopting"} =>
    c \in mapped /\ Pc(c) \in {"answered", "completing", "resuming", "reading"}

\* One row at most can be resumed: a new one ends the others (PersistConnectSync).
LEMMA RowsUnique ==
  ASSUME RowsInOrder PROVE \A q, r \in Rows : CanResume(q) /\ CanResume(r) => q = r
<1>1. \A q, r \in Rows : q = r \/ q < r \/ r < q
  BY DEF Rows
<1> QED BY <1>1 DEF RowsInOrder, CanResume

\* Rows are ordered.
LEMMA RowsOrdered == \A q, r \in Rows : q <= r => q = r \/ q < r
BY DEF Rows

\* No step lets a reader go on without a row.
LEMMA KeepsPhases ==
  ASSUME Base, SessionDoes
  PROVE  Phases'
<1>s. Small
  BY SmallOK DEF Base
<1>b. Phases /\ HolderHasRow
  BY DEF Base
<1> USE DEF OthersSame, SameObj, SameStatus, SameHeld, SameGhosts, SameFaults, SessionObjs, Stays
<1>1. ASSUME NEW c \in Conns, AcOpens(c)
      PROVE  Phases'
  BY <1>1, <1>s, <1>b DEF AcOpens, Small, Phases
<1>2. ASSUME NEW c \in Conns, Looks(c)
      PROVE  Phases'
  BY <1>2, <1>s, <1>b DEF Looks, Small, Phases
<1>3. ASSUME NEW c \in Conns, Creates(c)
      PROVE  Phases'
  BY <1>3, <1>s, <1>b DEF Creates, Small, Phases
<1>4. ASSUME NEW c \in Conns, NEW k \in BOOLEAN, Adopts(c, k)
      PROVE  Phases'
  BY <1>4, <1>s, <1>b DEF Adopts, Small, Phases
<1>5. ASSUME NEW c \in Conns, AcCompletes(c)
      PROVE  Phases'
  BY <1>5, <1>s, <1>b DEF AcCompletes, Small, Phases
<1>6. ASSUME NEW c \in Conns, GoesLive(c)
      PROVE  Phases'
  BY <1>6, <1>s, <1>b DEF GoesLive, Small, Phases
<1>7. ASSUME NEW c \in Conns, Resumes(c)
      PROVE  Phases'
  BY <1>7, <1>s, <1>b DEF Resumes, Small, Phases
<1>8. ASSUME NEW c \in Conns, Breaks(c)
      PROVE  Phases'
  BY <1>8, <1>s, <1>b DEF Breaks, Small, Phases
<1>9. ASSUME NEW c \in Conns, Loses(c)
      PROVE  Phases'
  BY <1>9, <1>s, <1>b DEF Loses, Small, Phases
<1>10. ASSUME NEW c \in Conns, Disconnects(c)
      PROVE  Phases'
  BY <1>10, <1>s, <1>b DEF Disconnects, Small, Phases
<1>11. ASSUME SessionKept
      PROVE  Phases'
  BY <1>11, <1>s, <1>b DEF SessionKept, Small, Phases
<1>12. ASSUME HolderDrops
      PROVE  Phases'
  BY <1>12, <1>s, <1>b DEF HolderDrops, Small, Phases
<1>13. ASSUME Restarts
      PROVE  Phases'
  BY <1>13, <1>s, <1>b DEF Restarts, Small, Phases
<1> QED BY <1>1, <1>2, <1>3, <1>4, <1>5, <1>6, <1>7, <1>8, <1>9, <1>10, <1>11, <1>12, <1>13 DEF
     SessionDoes

\* Only PersistConnectSync creates a row, the next one, and it ends all others.
LEMMA KeepsRowsInOrder ==
  ASSUME Base, RowsInOrder, AbsentUnknown, SessionDoes
  PROVE  RowsInOrder'
<1>s. Small
  BY SmallOK DEF Base
<1>b. Phases /\ HolderHasRow
  BY DEF Base
<1> USE DEF OthersSame, SameObj, SameStatus, SameHeld, SameGhosts, SameFaults, SessionObjs, Stays
<1>1. ASSUME NEW c \in Conns, AcOpens(c)
      PROVE  RowsInOrder'
  BY <1>1, <1>s, <1>b DEF AcOpens, Small, RowsInOrder, AbsentUnknown, Phases, CanResume
<1>2. ASSUME NEW c \in Conns, Looks(c)
      PROVE  RowsInOrder'
  BY <1>2, <1>s, <1>b DEF Looks, Small, RowsInOrder, AbsentUnknown, Phases, CanResume
<1>3. ASSUME NEW c \in Conns, Creates(c)
      PROVE  RowsInOrder'
  BY <1>3, <1>s, <1>b DEF Creates, Small, RowsInOrder, AbsentUnknown, Phases, CanResume
<1>4. ASSUME NEW c \in Conns, NEW k \in BOOLEAN, Adopts(c, k)
      PROVE  RowsInOrder'
  BY <1>4, <1>s, <1>b DEF Adopts, Small, RowsInOrder, AbsentUnknown, Phases, CanResume
<1>5. ASSUME NEW c \in Conns, AcCompletes(c)
      PROVE  RowsInOrder'
  BY <1>5, <1>s, <1>b DEF AcCompletes, Small, RowsInOrder, AbsentUnknown, Phases, CanResume
<1>6. ASSUME NEW c \in Conns, GoesLive(c)
      PROVE  RowsInOrder'
  BY <1>6, <1>s, <1>b DEF GoesLive, Small, RowsInOrder, AbsentUnknown, Phases, CanResume
<1>7. ASSUME NEW c \in Conns, Resumes(c)
      PROVE  RowsInOrder'
  BY <1>7, <1>s, <1>b DEF Resumes, Small, RowsInOrder, AbsentUnknown, Phases, CanResume
<1>8. ASSUME NEW c \in Conns, Breaks(c)
      PROVE  RowsInOrder'
  BY <1>8, <1>s, <1>b DEF Breaks, Small, RowsInOrder, AbsentUnknown, Phases, CanResume
<1>9. ASSUME NEW c \in Conns, Loses(c)
      PROVE  RowsInOrder'
  BY <1>9, <1>s, <1>b DEF Loses, Small, RowsInOrder, AbsentUnknown, Phases, CanResume
<1>10. ASSUME NEW c \in Conns, Disconnects(c)
      PROVE  RowsInOrder'
  BY <1>10, <1>s, <1>b DEF Disconnects, Small, RowsInOrder, AbsentUnknown, Phases, CanResume
<1>11. ASSUME SessionKept
      PROVE  RowsInOrder'
  BY <1>11, <1>s, <1>b DEF SessionKept, Small, RowsInOrder, AbsentUnknown, Phases, CanResume
<1>12. ASSUME HolderDrops
      PROVE  RowsInOrder'
  BY <1>12, <1>s, <1>b DEF HolderDrops, Small, RowsInOrder, AbsentUnknown, Phases, CanResume
<1>13. ASSUME Restarts
      PROVE  RowsInOrder'
  BY <1>13, <1>s, <1>b DEF Restarts, Small, RowsInOrder, AbsentUnknown, Phases, CanResume
<1> QED BY <1>1, <1>2, <1>3, <1>4, <1>5, <1>6, <1>7, <1>8, <1>9, <1>10, <1>11, <1>12, <1>13 DEF
     SessionDoes

\* A row is known only to what created it or looked it up.
LEMMA KeepsAbsentUnknown ==
  ASSUME Base, AbsentUnknown, RowsInOrder, SessionDoes
  PROVE  AbsentUnknown'
<1>s. Small
  BY SmallOK DEF Base
<1>b. Phases /\ HolderHasRow
  BY DEF Base
<1>u. \A q, r \in Rows : CanResume(q) /\ CanResume(r) => q = r
  BY RowsUnique
<1> USE DEF OthersSame, SameObj, SameStatus, SameHeld, SameGhosts, SameFaults, SessionObjs, Stays
<1>1. ASSUME NEW c \in Conns, AcOpens(c)
      PROVE  AbsentUnknown'
  BY <1>1, <1>s, <1>b, <1>u DEF AcOpens, Small, AbsentUnknown, Phases, CanResume
<1>2. ASSUME NEW c \in Conns, Looks(c)
      PROVE  AbsentUnknown'
  BY <1>2, <1>s, <1>b, <1>u DEF Looks, Small, AbsentUnknown, Phases, CanResume
<1>3. ASSUME NEW c \in Conns, Creates(c)
      PROVE  AbsentUnknown'
  BY <1>3, <1>s, <1>b, <1>u DEF Creates, Small, AbsentUnknown, Phases, CanResume
<1>4. ASSUME NEW c \in Conns, NEW k \in BOOLEAN, Adopts(c, k)
      PROVE  AbsentUnknown'
  BY <1>4, <1>s, <1>b, <1>u DEF Adopts, Small, AbsentUnknown, Phases, CanResume
<1>5. ASSUME NEW c \in Conns, AcCompletes(c)
      PROVE  AbsentUnknown'
  BY <1>5, <1>s, <1>b, <1>u DEF AcCompletes, Small, AbsentUnknown, Phases, CanResume
<1>6. ASSUME NEW c \in Conns, GoesLive(c)
      PROVE  AbsentUnknown'
  BY <1>6, <1>s, <1>b, <1>u DEF GoesLive, Small, AbsentUnknown, Phases, CanResume
<1>7. ASSUME NEW c \in Conns, Resumes(c)
      PROVE  AbsentUnknown'
  BY <1>7, <1>s, <1>b, <1>u DEF Resumes, Small, AbsentUnknown, Phases, CanResume
<1>8. ASSUME NEW c \in Conns, Breaks(c)
      PROVE  AbsentUnknown'
  BY <1>8, <1>s, <1>b, <1>u DEF Breaks, Small, AbsentUnknown, Phases, CanResume
<1>9. ASSUME NEW c \in Conns, Loses(c)
      PROVE  AbsentUnknown'
  BY <1>9, <1>s, <1>b, <1>u DEF Loses, Small, AbsentUnknown, Phases, CanResume
<1>10. ASSUME NEW c \in Conns, Disconnects(c)
      PROVE  AbsentUnknown'
  BY <1>10, <1>s, <1>b, <1>u DEF Disconnects, Small, AbsentUnknown, Phases, CanResume
<1>11. ASSUME SessionKept
      PROVE  AbsentUnknown'
  BY <1>11, <1>s, <1>b, <1>u DEF SessionKept, Small, AbsentUnknown, Phases, CanResume
<1>12. ASSUME HolderDrops
      PROVE  AbsentUnknown'
  BY <1>12, <1>s, <1>b, <1>u DEF HolderDrops, Small, AbsentUnknown, Phases, CanResume
<1>13. ASSUME Restarts
      PROVE  AbsentUnknown'
  <2> SUFFICES ASSUME NEW r \in Rows, Status(r)' = "absent"
               PROVE  /\ \A o \in Objects : Row(o)' # r
                      /\ AcSession' # r /\ By(r)' = NoConn
    BY DEF AbsentUnknown
  <2>1. Status(r) = "absent" /\ ~CanResume(r)
    BY <1>13 DEF Restarts, CanResume
  <2>2. AcSession' # r /\ By(r)' = NoConn
    BY <1>13, <2>1 DEF Restarts, AbsentUnknown
  <2>3. \A o \in Conns : Row(o)' # r
    BY <1>13, <2>1, <1>s DEF Restarts, AbsentUnknown, Small
  <2>4. Row(BootObject)' # r
    <3>1. CASE \E q \in Rows : CanResume(q)
      <4>1. PICK q \in Rows : CanResume(q)
        BY <3>1
      <4>2. Row(BootObject)' = q
        BY <1>13, <4>1, <1>u DEF Restarts
      <4> QED BY <2>1, <4>1, <4>2
    <3>2. CASE \A q \in Rows : ~CanResume(q)
      BY <1>13, <3>2, <1>s DEF Restarts, Small
    <3> QED BY <3>1, <3>2
  <2> QED BY <2>2, <2>3, <2>4 DEF Objects
<1> QED BY <1>1, <1>2, <1>3, <1>4, <1>5, <1>6, <1>7, <1>8, <1>9, <1>10, <1>11, <1>12, <1>13 DEF
     SessionDoes

\* Until registry.adopt nothing learns of a row just created.
LEMMA KeepsFreshRow ==
  ASSUME Base, FreshRow, AbsentUnknown, SessionDoes
  PROVE  FreshRow'
<1>s. Small
  BY SmallOK DEF Base
<1>b. Phases /\ HolderHasRow
  BY DEF Base
<1> USE DEF OthersSame, SameObj, SameStatus, SameHeld, SameGhosts, SameFaults, SessionObjs, Stays
<1>1. ASSUME NEW c \in Conns, AcOpens(c)
      PROVE  FreshRow'
  BY <1>1, <1>s, <1>b DEF AcOpens, Small, FreshRow, Phases, AbsentUnknown
<1>2. ASSUME NEW c \in Conns, Looks(c)
      PROVE  FreshRow'
  BY <1>2, <1>s, <1>b DEF Looks, Small, FreshRow, Phases, AbsentUnknown
<1>3. ASSUME NEW c \in Conns, Creates(c)
      PROVE  FreshRow'
  BY <1>3, <1>s, <1>b DEF Creates, Small, FreshRow, Phases, AbsentUnknown
<1>4. ASSUME NEW c \in Conns, NEW k \in BOOLEAN, Adopts(c, k)
      PROVE  FreshRow'
  BY <1>4, <1>s, <1>b DEF Adopts, Small, FreshRow, Phases, AbsentUnknown
<1>5. ASSUME NEW c \in Conns, AcCompletes(c)
      PROVE  FreshRow'
  BY <1>5, <1>s, <1>b DEF AcCompletes, Small, FreshRow, Phases, AbsentUnknown
<1>6. ASSUME NEW c \in Conns, GoesLive(c)
      PROVE  FreshRow'
  BY <1>6, <1>s, <1>b DEF GoesLive, Small, FreshRow, Phases, AbsentUnknown
<1>7. ASSUME NEW c \in Conns, Resumes(c)
      PROVE  FreshRow'
  BY <1>7, <1>s, <1>b DEF Resumes, Small, FreshRow, Phases, AbsentUnknown
<1>8. ASSUME NEW c \in Conns, Breaks(c)
      PROVE  FreshRow'
  BY <1>8, <1>s, <1>b DEF Breaks, Small, FreshRow, Phases, AbsentUnknown
<1>9. ASSUME NEW c \in Conns, Loses(c)
      PROVE  FreshRow'
  BY <1>9, <1>s, <1>b DEF Loses, Small, FreshRow, Phases, AbsentUnknown
<1>10. ASSUME NEW c \in Conns, Disconnects(c)
      PROVE  FreshRow'
  BY <1>10, <1>s, <1>b DEF Disconnects, Small, FreshRow, Phases, AbsentUnknown
<1>11. ASSUME SessionKept
      PROVE  FreshRow'
  BY <1>11, <1>s, <1>b DEF SessionKept, Small, FreshRow, Phases, AbsentUnknown
<1>12. ASSUME HolderDrops
      PROVE  FreshRow'
  BY <1>12, <1>s, <1>b DEF HolderDrops, Small, FreshRow, Phases, AbsentUnknown
<1>13. ASSUME Restarts
      PROVE  FreshRow'
  BY <1>13, <1>s, <1>b DEF Restarts, Small, FreshRow, Phases, AbsentUnknown
<1> QED BY <1>1, <1>2, <1>3, <1>4, <1>5, <1>6, <1>7, <1>8, <1>9, <1>10, <1>11, <1>12, <1>13 DEF
     SessionDoes

\* Hold, adopt and Load enter the object whose row it is.
LEMMA KeepsHolderHasRow ==
  ASSUME Base, AbsentUnknown, RowsInOrder, SessionDoes
  PROVE  HolderHasRow'
<1>s. Small
  BY SmallOK DEF Base
<1>b. Phases /\ HolderHasRow
  BY DEF Base
<1>u. \A q, r \in Rows : CanResume(q) /\ CanResume(r) => q = r
  BY RowsUnique
<1> USE DEF OthersSame, SameObj, SameStatus, SameHeld, SameGhosts, SameFaults, SessionObjs, Stays
<1>1. ASSUME NEW c \in Conns, AcOpens(c)
      PROVE  HolderHasRow'
  BY <1>1, <1>s, <1>b, <1>u DEF AcOpens, Small, HolderHasRow, Phases, AbsentUnknown, CanResume
<1>2. ASSUME NEW c \in Conns, Looks(c)
      PROVE  HolderHasRow'
  BY <1>2, <1>s, <1>b, <1>u DEF Looks, Small, HolderHasRow, Phases, AbsentUnknown, CanResume
<1>3. ASSUME NEW c \in Conns, Creates(c)
      PROVE  HolderHasRow'
  BY <1>3, <1>s, <1>b, <1>u DEF Creates, Small, HolderHasRow, Phases, AbsentUnknown, CanResume
<1>4. ASSUME NEW c \in Conns, NEW k \in BOOLEAN, Adopts(c, k)
      PROVE  HolderHasRow'
  BY <1>4, <1>s, <1>b, <1>u DEF Adopts, Small, HolderHasRow, Phases, AbsentUnknown, CanResume
<1>5. ASSUME NEW c \in Conns, AcCompletes(c)
      PROVE  HolderHasRow'
  BY <1>5, <1>s, <1>b, <1>u DEF AcCompletes, Small, HolderHasRow, Phases, AbsentUnknown, CanResume
<1>6. ASSUME NEW c \in Conns, GoesLive(c)
      PROVE  HolderHasRow'
  BY <1>6, <1>s, <1>b, <1>u DEF GoesLive, Small, HolderHasRow, Phases, AbsentUnknown, CanResume
<1>7. ASSUME NEW c \in Conns, Resumes(c)
      PROVE  HolderHasRow'
  BY <1>7, <1>s, <1>b, <1>u DEF Resumes, Small, HolderHasRow, Phases, AbsentUnknown, CanResume
<1>8. ASSUME NEW c \in Conns, Breaks(c)
      PROVE  HolderHasRow'
  BY <1>8, <1>s, <1>b, <1>u DEF Breaks, Small, HolderHasRow, Phases, AbsentUnknown, CanResume
<1>9. ASSUME NEW c \in Conns, Loses(c)
      PROVE  HolderHasRow'
  BY <1>9, <1>s, <1>b, <1>u DEF Loses, Small, HolderHasRow, Phases, AbsentUnknown, CanResume
<1>10. ASSUME NEW c \in Conns, Disconnects(c)
      PROVE  HolderHasRow'
  BY <1>10, <1>s, <1>b, <1>u DEF Disconnects, Small, HolderHasRow, Phases, AbsentUnknown,
     CanResume
<1>11. ASSUME SessionKept
      PROVE  HolderHasRow'
  BY <1>11, <1>s, <1>b, <1>u DEF SessionKept, Small, HolderHasRow, Phases, AbsentUnknown,
     CanResume
<1>12. ASSUME HolderDrops
      PROVE  HolderHasRow'
  BY <1>12, <1>s, <1>b, <1>u DEF HolderDrops, Small, HolderHasRow, Phases, AbsentUnknown,
     CanResume
<1>13. ASSUME Restarts
      PROVE  HolderHasRow'
  BY <1>13, <1>s, <1>b, <1>u DEF Restarts, Small, HolderHasRow, Phases, AbsentUnknown, CanResume
<1> QED BY <1>1, <1>2, <1>3, <1>4, <1>5, <1>6, <1>7, <1>8, <1>9, <1>10, <1>11, <1>12, <1>13 DEF
     SessionDoes

\* registry.adopt releases what was held and goLive what is held.
LEMMA KeepsHeldWhileMapped ==
  ASSUME Base, HeldWhileMapped, SessionDoes
  PROVE  HeldWhileMapped'
<1>s. Small
  BY SmallOK DEF Base
<1>b. Phases /\ HolderHasRow
  BY DEF Base
<1> USE DEF OthersSame, SameObj, SameStatus, SameHeld, SameGhosts, SameFaults, SessionObjs, Stays
<1>1. ASSUME NEW c \in Conns, AcOpens(c)
      PROVE  HeldWhileMapped'
  BY <1>1, <1>s, <1>b DEF AcOpens, Small, HeldWhileMapped, Phases
<1>2. ASSUME NEW c \in Conns, Looks(c)
      PROVE  HeldWhileMapped'
  BY <1>2, <1>s, <1>b DEF Looks, Small, HeldWhileMapped, Phases
<1>3. ASSUME NEW c \in Conns, Creates(c)
      PROVE  HeldWhileMapped'
  BY <1>3, <1>s, <1>b DEF Creates, Small, HeldWhileMapped, Phases
<1>4. ASSUME NEW c \in Conns, NEW k \in BOOLEAN, Adopts(c, k)
      PROVE  HeldWhileMapped'
  BY <1>4, <1>s, <1>b DEF Adopts, Small, HeldWhileMapped, Phases
<1>5. ASSUME NEW c \in Conns, AcCompletes(c)
      PROVE  HeldWhileMapped'
  BY <1>5, <1>s, <1>b DEF AcCompletes, Small, HeldWhileMapped, Phases
<1>6. ASSUME NEW c \in Conns, GoesLive(c)
      PROVE  HeldWhileMapped'
  BY <1>6, <1>s, <1>b DEF GoesLive, Small, HeldWhileMapped, Phases
<1>7. ASSUME NEW c \in Conns, Resumes(c)
      PROVE  HeldWhileMapped'
  BY <1>7, <1>s, <1>b DEF Resumes, Small, HeldWhileMapped, Phases
<1>8. ASSUME NEW c \in Conns, Breaks(c)
      PROVE  HeldWhileMapped'
  BY <1>8, <1>s, <1>b DEF Breaks, Small, HeldWhileMapped, Phases
<1>9. ASSUME NEW c \in Conns, Loses(c)
      PROVE  HeldWhileMapped'
  BY <1>9, <1>s, <1>b DEF Loses, Small, HeldWhileMapped, Phases
<1>10. ASSUME NEW c \in Conns, Disconnects(c)
      PROVE  HeldWhileMapped'
  BY <1>10, <1>s, <1>b DEF Disconnects, Small, HeldWhileMapped, Phases
<1>11. ASSUME SessionKept
      PROVE  HeldWhileMapped'
  BY <1>11, <1>s, <1>b DEF SessionKept, Small, HeldWhileMapped, Phases
<1>12. ASSUME HolderDrops
      PROVE  HeldWhileMapped'
  BY <1>12, <1>s, <1>b DEF HolderDrops, Small, HeldWhileMapped, Phases
<1>13. ASSUME Restarts
      PROVE  HeldWhileMapped'
  BY <1>13, <1>s, <1>b DEF Restarts, Small, HeldWhileMapped, Phases
<1> QED BY <1>1, <1>2, <1>3, <1>4, <1>5, <1>6, <1>7, <1>8, <1>9, <1>10, <1>11, <1>12, <1>13 DEF
     SessionDoes

\* goLive and loseConnection take the lifecycle lock when it is free and keep it for their write.
LEMMA KeepsLockHeld ==
  ASSUME Base, LockHeld, SessionDoes
  PROVE  LockHeld'
<1>s. Small
  BY SmallOK DEF Base
<1>b. Phases /\ HolderHasRow
  BY DEF Base
<1> USE DEF OthersSame, SameObj, SameStatus, SameHeld, SameGhosts, SameFaults, SessionObjs, Stays
<1>1. ASSUME NEW c \in Conns, AcOpens(c)
      PROVE  LockHeld'
  BY <1>1, <1>s, <1>b DEF AcOpens, Small, LockHeld, Phases
<1>2. ASSUME NEW c \in Conns, Looks(c)
      PROVE  LockHeld'
  BY <1>2, <1>s, <1>b DEF Looks, Small, LockHeld, Phases
<1>3. ASSUME NEW c \in Conns, Creates(c)
      PROVE  LockHeld'
  BY <1>3, <1>s, <1>b DEF Creates, Small, LockHeld, Phases
<1>4. ASSUME NEW c \in Conns, NEW k \in BOOLEAN, Adopts(c, k)
      PROVE  LockHeld'
  BY <1>4, <1>s, <1>b DEF Adopts, Small, LockHeld, Phases
<1>5. ASSUME NEW c \in Conns, AcCompletes(c)
      PROVE  LockHeld'
  BY <1>5, <1>s, <1>b DEF AcCompletes, Small, LockHeld, Phases
<1>6. ASSUME NEW c \in Conns, GoesLive(c)
      PROVE  LockHeld'
  BY <1>6, <1>s, <1>b DEF GoesLive, Small, LockHeld, Phases
<1>7. ASSUME NEW c \in Conns, Resumes(c)
      PROVE  LockHeld'
  BY <1>7, <1>s, <1>b DEF Resumes, Small, LockHeld, Phases
<1>8. ASSUME NEW c \in Conns, Breaks(c)
      PROVE  LockHeld'
  BY <1>8, <1>s, <1>b DEF Breaks, Small, LockHeld, Phases
<1>9. ASSUME NEW c \in Conns, Loses(c)
      PROVE  LockHeld'
  BY <1>9, <1>s, <1>b DEF Loses, Small, LockHeld, Phases
<1>10. ASSUME NEW c \in Conns, Disconnects(c)
      PROVE  LockHeld'
  BY <1>10, <1>s, <1>b DEF Disconnects, Small, LockHeld, Phases
<1>11. ASSUME SessionKept
      PROVE  LockHeld'
  BY <1>11, <1>s, <1>b DEF SessionKept, Small, LockHeld, Phases
<1>12. ASSUME HolderDrops
      PROVE  LockHeld'
  BY <1>12, <1>s, <1>b DEF HolderDrops, Small, LockHeld, Phases
<1>13. ASSUME Restarts
      PROVE  LockHeld'
  BY <1>13, <1>s, <1>b DEF Restarts, Small, LockHeld, Phases
<1> QED BY <1>1, <1>2, <1>3, <1>4, <1>5, <1>6, <1>7, <1>8, <1>9, <1>10, <1>11, <1>12, <1>13 DEF
     SessionDoes

\* A disconnect is written under the lock, so it is done before a resume of its row goes on.
LEMMA KeepsSettledAlone ==
  ASSUME Base, SettledAlone, LockHeld, FreshRow, SessionDoes
  PROVE  SettledAlone'
<1>s. Small
  BY SmallOK DEF Base
<1>b. Phases /\ HolderHasRow
  BY DEF Base
<1> USE DEF OthersSame, SameObj, SameStatus, SameHeld, SameGhosts, SameFaults, SessionObjs, Stays
<1>1. ASSUME NEW c \in Conns, AcOpens(c)
      PROVE  SettledAlone'
  BY <1>1, <1>s, <1>b DEF AcOpens, Small, SettledAlone, Phases, LockHeld, FreshRow, Settled
<1>2. ASSUME NEW c \in Conns, Looks(c)
      PROVE  SettledAlone'
  BY <1>2, <1>s, <1>b DEF Looks, Small, SettledAlone, Phases, LockHeld, FreshRow, Settled
<1>3. ASSUME NEW c \in Conns, Creates(c)
      PROVE  SettledAlone'
  BY <1>3, <1>s, <1>b DEF Creates, Small, SettledAlone, Phases, LockHeld, FreshRow, Settled
<1>4. ASSUME NEW c \in Conns, NEW k \in BOOLEAN, Adopts(c, k)
      PROVE  SettledAlone'
  BY <1>4, <1>s, <1>b DEF Adopts, Small, SettledAlone, Phases, LockHeld, FreshRow, Settled
<1>5. ASSUME NEW c \in Conns, AcCompletes(c)
      PROVE  SettledAlone'
  BY <1>5, <1>s, <1>b DEF AcCompletes, Small, SettledAlone, Phases, LockHeld, FreshRow, Settled
<1>6. ASSUME NEW c \in Conns, GoesLive(c)
      PROVE  SettledAlone'
  BY <1>6, <1>s, <1>b DEF GoesLive, Small, SettledAlone, Phases, LockHeld, FreshRow, Settled
<1>7. ASSUME NEW c \in Conns, Resumes(c)
      PROVE  SettledAlone'
  BY <1>7, <1>s, <1>b DEF Resumes, Small, SettledAlone, Phases, LockHeld, FreshRow, Settled
<1>8. ASSUME NEW c \in Conns, Breaks(c)
      PROVE  SettledAlone'
  BY <1>8, <1>s, <1>b DEF Breaks, Small, SettledAlone, Phases, LockHeld, FreshRow, Settled
<1>9. ASSUME NEW c \in Conns, Loses(c)
      PROVE  SettledAlone'
  BY <1>9, <1>s, <1>b DEF Loses, Small, SettledAlone, Phases, LockHeld, FreshRow, Settled
<1>10. ASSUME NEW c \in Conns, Disconnects(c)
      PROVE  SettledAlone'
  BY <1>10, <1>s, <1>b DEF Disconnects, Small, SettledAlone, Phases, LockHeld, FreshRow, Settled
<1>11. ASSUME SessionKept
      PROVE  SettledAlone'
  BY <1>11, <1>s, <1>b DEF SessionKept, Small, SettledAlone, Phases, LockHeld, FreshRow, Settled
<1>12. ASSUME HolderDrops
      PROVE  SettledAlone'
  BY <1>12, <1>s, <1>b DEF HolderDrops, Small, SettledAlone, Phases, LockHeld, FreshRow, Settled
<1>13. ASSUME Restarts
      PROVE  SettledAlone'
  BY <1>13, <1>s, <1>b DEF Restarts, Small, SettledAlone, Phases, LockHeld, FreshRow, Settled
<1> QED BY <1>1, <1>2, <1>3, <1>4, <1>5, <1>6, <1>7, <1>8, <1>9, <1>10, <1>11, <1>12, <1>13 DEF
     SessionDoes

\* No late disconnect overwrites the row of a session that was resumed.
LEMMA KeepsSettledNotDisconnected ==
  ASSUME Base, SettledNotDisconnected, SettledAlone, FreshRow, AbsentUnknown, SessionDoes
  PROVE  SettledNotDisconnected'
<1>s. Small
  BY SmallOK DEF Base
<1>b. Phases /\ HolderHasRow
  BY DEF Base
<1> USE DEF OthersSame, SameObj, SameStatus, SameHeld, SameGhosts, SameFaults, SessionObjs, Stays
<1>1. ASSUME NEW c \in Conns, AcOpens(c)
      PROVE  SettledNotDisconnected'
  BY <1>1, <1>s, <1>b DEF AcOpens, Small, SettledNotDisconnected, Phases, SettledAlone, FreshRow,
     AbsentUnknown, Settled, Fresh, CanResume
<1>2. ASSUME NEW c \in Conns, Looks(c)
      PROVE  SettledNotDisconnected'
  BY <1>2, <1>s, <1>b DEF Looks, Small, SettledNotDisconnected, Phases, SettledAlone, FreshRow,
     AbsentUnknown, Settled, Fresh, CanResume
<1>3. ASSUME NEW c \in Conns, Creates(c)
      PROVE  SettledNotDisconnected'
  BY <1>3, <1>s, <1>b DEF Creates, Small, SettledNotDisconnected, Phases, SettledAlone, FreshRow,
     AbsentUnknown, Settled, Fresh, CanResume
<1>4. ASSUME NEW c \in Conns, NEW k \in BOOLEAN, Adopts(c, k)
      PROVE  SettledNotDisconnected'
  BY <1>4, <1>s, <1>b DEF Adopts, Small, SettledNotDisconnected, Phases, SettledAlone, FreshRow,
     AbsentUnknown, Settled, Fresh, CanResume
<1>5. ASSUME NEW c \in Conns, AcCompletes(c)
      PROVE  SettledNotDisconnected'
  BY <1>5, <1>s, <1>b DEF AcCompletes, Small, SettledNotDisconnected, Phases, SettledAlone,
     FreshRow, AbsentUnknown, Settled, Fresh, CanResume
<1>6. ASSUME NEW c \in Conns, GoesLive(c)
      PROVE  SettledNotDisconnected'
  BY <1>6, <1>s, <1>b DEF GoesLive, Small, SettledNotDisconnected, Phases, SettledAlone, FreshRow,
     AbsentUnknown, Settled, Fresh, CanResume
<1>7. ASSUME NEW c \in Conns, Resumes(c)
      PROVE  SettledNotDisconnected'
  BY <1>7, <1>s, <1>b DEF Resumes, Small, SettledNotDisconnected, Phases, SettledAlone, FreshRow,
     AbsentUnknown, Settled, Fresh, CanResume
<1>8. ASSUME NEW c \in Conns, Breaks(c)
      PROVE  SettledNotDisconnected'
  BY <1>8, <1>s, <1>b DEF Breaks, Small, SettledNotDisconnected, Phases, SettledAlone, FreshRow,
     AbsentUnknown, Settled, Fresh, CanResume
<1>9. ASSUME NEW c \in Conns, Loses(c)
      PROVE  SettledNotDisconnected'
  BY <1>9, <1>s, <1>b DEF Loses, Small, SettledNotDisconnected, Phases, SettledAlone, FreshRow,
     AbsentUnknown, Settled, Fresh, CanResume
<1>10. ASSUME NEW c \in Conns, Disconnects(c)
      PROVE  SettledNotDisconnected'
  BY <1>10, <1>s, <1>b DEF Disconnects, Small, SettledNotDisconnected, Phases, SettledAlone,
     FreshRow, AbsentUnknown, Settled, Fresh, CanResume
<1>11. ASSUME SessionKept
      PROVE  SettledNotDisconnected'
  BY <1>11, <1>s, <1>b DEF SessionKept, Small, SettledNotDisconnected, Phases, SettledAlone,
     FreshRow, AbsentUnknown, Settled, Fresh, CanResume
<1>12. ASSUME HolderDrops
      PROVE  SettledNotDisconnected'
  BY <1>12, <1>s, <1>b DEF HolderDrops, Small, SettledNotDisconnected, Phases, SettledAlone,
     FreshRow, AbsentUnknown, Settled, Fresh, CanResume
<1>13. ASSUME Restarts
      PROVE  SettledNotDisconnected'
  BY <1>13, <1>s, <1>b DEF Restarts, Small, SettledNotDisconnected, Phases, SettledAlone,
     FreshRow, AbsentUnknown, Settled, Fresh, CanResume
<1> QED BY <1>1, <1>2, <1>3, <1>4, <1>5, <1>6, <1>7, <1>8, <1>9, <1>10, <1>11, <1>12, <1>13 DEF
     SessionDoes

\* Unless an older session took the place of a newer, a resumed row stays served until its write.
LEMMA KeepsResumingServed ==
  ASSUME Base, ResumingServed, RowsInOrder, AbsentUnknown, LockHeld, SessionDoes
  PROVE  ResumingServed'
<1>s. Small
  BY SmallOK DEF Base
<1>b. Phases /\ HolderHasRow
  BY DEF Base
<1> USE DEF OthersSame, SameObj, SameStatus, SameHeld, SameGhosts, SameFaults, SessionObjs, Stays
<1>1. ASSUME NEW c \in Conns, AcOpens(c)
      PROVE  ResumingServed'
  BY <1>1, <1>s, <1>b, RowsOrdered DEF AcOpens, Small, ResumingServed, Phases, RowsInOrder,
     AbsentUnknown, LockHeld, CanResume
<1>2. ASSUME NEW c \in Conns, Looks(c)
      PROVE  ResumingServed'
  BY <1>2, <1>s, <1>b, RowsOrdered DEF Looks, Small, ResumingServed, Phases, RowsInOrder,
     AbsentUnknown, LockHeld, CanResume
<1>3. ASSUME NEW c \in Conns, Creates(c)
      PROVE  ResumingServed'
  BY <1>3, <1>s, <1>b, RowsOrdered DEF Creates, Small, ResumingServed, Phases, RowsInOrder,
     AbsentUnknown, LockHeld, CanResume
<1>4. ASSUME NEW c \in Conns, NEW k \in BOOLEAN, Adopts(c, k)
      PROVE  ResumingServed'
  BY <1>4, <1>s, <1>b, RowsOrdered DEF Adopts, Small, ResumingServed, Phases, RowsInOrder,
     AbsentUnknown, LockHeld, CanResume
<1>5. ASSUME NEW c \in Conns, AcCompletes(c)
      PROVE  ResumingServed'
  BY <1>5, <1>s, <1>b, RowsOrdered DEF AcCompletes, Small, ResumingServed, Phases, RowsInOrder,
     AbsentUnknown, LockHeld, CanResume
<1>6. ASSUME NEW c \in Conns, GoesLive(c)
      PROVE  ResumingServed'
  BY <1>6, <1>s, <1>b, RowsOrdered DEF GoesLive, Small, ResumingServed, Phases, RowsInOrder,
     AbsentUnknown, LockHeld, CanResume
<1>7. ASSUME NEW c \in Conns, Resumes(c)
      PROVE  ResumingServed'
  BY <1>7, <1>s, <1>b, RowsOrdered DEF Resumes, Small, ResumingServed, Phases, RowsInOrder,
     AbsentUnknown, LockHeld, CanResume
<1>8. ASSUME NEW c \in Conns, Breaks(c)
      PROVE  ResumingServed'
  BY <1>8, <1>s, <1>b, RowsOrdered DEF Breaks, Small, ResumingServed, Phases, RowsInOrder,
     AbsentUnknown, LockHeld, CanResume
<1>9. ASSUME NEW c \in Conns, Loses(c)
      PROVE  ResumingServed'
  BY <1>9, <1>s, <1>b, RowsOrdered DEF Loses, Small, ResumingServed, Phases, RowsInOrder,
     AbsentUnknown, LockHeld, CanResume
<1>10. ASSUME NEW c \in Conns, Disconnects(c)
      PROVE  ResumingServed'
  BY <1>10, <1>s, <1>b, RowsOrdered DEF Disconnects, Small, ResumingServed, Phases, RowsInOrder,
     AbsentUnknown, LockHeld, CanResume
<1>11. ASSUME SessionKept
      PROVE  ResumingServed'
  BY <1>11, <1>s, <1>b, RowsOrdered DEF SessionKept, Small, ResumingServed, Phases, RowsInOrder,
     AbsentUnknown, LockHeld, CanResume
<1>12. ASSUME HolderDrops
      PROVE  ResumingServed'
  BY <1>12, <1>s, <1>b, RowsOrdered DEF HolderDrops, Small, ResumingServed, Phases, RowsInOrder,
     AbsentUnknown, LockHeld, CanResume
<1>13. ASSUME Restarts
      PROVE  ResumingServed'
  BY <1>13, <1>s, <1>b, RowsOrdered DEF Restarts, Small, ResumingServed, Phases, RowsInOrder,
     AbsentUnknown, LockHeld, CanResume
<1> QED BY <1>1, <1>2, <1>3, <1>4, <1>5, <1>6, <1>7, <1>8, <1>9, <1>10, <1>11, <1>12, <1>13 DEF
     SessionDoes

\* A row is made active for a connection and disconnected when it is lost.
LEMMA KeepsActiveServed ==
  ASSUME Base, ActiveServed, RowsInOrder, AbsentUnknown, ResumingServed, SessionDoes
  PROVE  ActiveServed'
<1>s. Small
  BY SmallOK DEF Base
<1>b. Phases /\ HolderHasRow
  BY DEF Base
<1> USE DEF OthersSame, SameObj, SameStatus, SameHeld, SameGhosts, SameFaults, SessionObjs, Stays
<1>1. ASSUME NEW c \in Conns, AcOpens(c)
      PROVE  ActiveServed'
  BY <1>1, <1>s, <1>b, RowsOrdered DEF AcOpens, Small, ActiveServed, Phases, RowsInOrder,
     AbsentUnknown, ResumingServed, Fresh, CanResume
<1>2. ASSUME NEW c \in Conns, Looks(c)
      PROVE  ActiveServed'
  BY <1>2, <1>s, <1>b, RowsOrdered DEF Looks, Small, ActiveServed, Phases, RowsInOrder,
     AbsentUnknown, ResumingServed, Fresh, CanResume
<1>3. ASSUME NEW c \in Conns, Creates(c)
      PROVE  ActiveServed'
  BY <1>3, <1>s, <1>b, RowsOrdered DEF Creates, Small, ActiveServed, Phases, RowsInOrder,
     AbsentUnknown, ResumingServed, Fresh, CanResume
<1>4. ASSUME NEW c \in Conns, NEW k \in BOOLEAN, Adopts(c, k)
      PROVE  ActiveServed'
  BY <1>4, <1>s, <1>b, RowsOrdered DEF Adopts, Small, ActiveServed, Phases, RowsInOrder,
     AbsentUnknown, ResumingServed, Fresh, CanResume
<1>5. ASSUME NEW c \in Conns, AcCompletes(c)
      PROVE  ActiveServed'
  BY <1>5, <1>s, <1>b, RowsOrdered DEF AcCompletes, Small, ActiveServed, Phases, RowsInOrder,
     AbsentUnknown, ResumingServed, Fresh, CanResume
<1>6. ASSUME NEW c \in Conns, GoesLive(c)
      PROVE  ActiveServed'
  BY <1>6, <1>s, <1>b, RowsOrdered DEF GoesLive, Small, ActiveServed, Phases, RowsInOrder,
     AbsentUnknown, ResumingServed, Fresh, CanResume
<1>7. ASSUME NEW c \in Conns, Resumes(c)
      PROVE  ActiveServed'
  BY <1>7, <1>s, <1>b, RowsOrdered DEF Resumes, Small, ActiveServed, Phases, RowsInOrder,
     AbsentUnknown, ResumingServed, Fresh, CanResume
<1>8. ASSUME NEW c \in Conns, Breaks(c)
      PROVE  ActiveServed'
  BY <1>8, <1>s, <1>b, RowsOrdered DEF Breaks, Small, ActiveServed, Phases, RowsInOrder,
     AbsentUnknown, ResumingServed, Fresh, CanResume
<1>9. ASSUME NEW c \in Conns, Loses(c)
      PROVE  ActiveServed'
  BY <1>9, <1>s, <1>b, RowsOrdered DEF Loses, Small, ActiveServed, Phases, RowsInOrder,
     AbsentUnknown, ResumingServed, Fresh, CanResume
<1>10. ASSUME NEW c \in Conns, Disconnects(c)
      PROVE  ActiveServed'
  BY <1>10, <1>s, <1>b, RowsOrdered DEF Disconnects, Small, ActiveServed, Phases, RowsInOrder,
     AbsentUnknown, ResumingServed, Fresh, CanResume
<1>11. ASSUME SessionKept
      PROVE  ActiveServed'
  BY <1>11, <1>s, <1>b, RowsOrdered DEF SessionKept, Small, ActiveServed, Phases, RowsInOrder,
     AbsentUnknown, ResumingServed, Fresh, CanResume
<1>12. ASSUME HolderDrops
      PROVE  ActiveServed'
  BY <1>12, <1>s, <1>b, RowsOrdered DEF HolderDrops, Small, ActiveServed, Phases, RowsInOrder,
     AbsentUnknown, ResumingServed, Fresh, CanResume
<1>13. ASSUME Restarts
      PROVE  ActiveServed'
  BY <1>13, <1>s, <1>b, RowsOrdered DEF Restarts, Small, ActiveServed, Phases, RowsInOrder,
     AbsentUnknown, ResumingServed, Fresh, CanResume
<1> QED BY <1>1, <1>2, <1>3, <1>4, <1>5, <1>6, <1>7, <1>8, <1>9, <1>10, <1>11, <1>12, <1>13 DEF
     SessionDoes

\* A session that connects stays held until it goes live or is replaced.
LEMMA KeepsConnectingHeld ==
  ASSUME Base, ConnectingHeld, AbsentUnknown, SessionDoes
  PROVE  ConnectingHeld'
<1>s. Small
  BY SmallOK DEF Base
<1>b. Phases /\ HolderHasRow
  BY DEF Base
<1> USE DEF OthersSame, SameObj, SameStatus, SameHeld, SameGhosts, SameFaults, SessionObjs, Stays
<1>1. ASSUME NEW c \in Conns, AcOpens(c)
      PROVE  ConnectingHeld'
  BY <1>1, <1>s, <1>b DEF AcOpens, Small, ConnectingHeld, Phases, AbsentUnknown, CanResume
<1>2. ASSUME NEW c \in Conns, Looks(c)
      PROVE  ConnectingHeld'
  BY <1>2, <1>s, <1>b DEF Looks, Small, ConnectingHeld, Phases, AbsentUnknown, CanResume
<1>3. ASSUME NEW c \in Conns, Creates(c)
      PROVE  ConnectingHeld'
  BY <1>3, <1>s, <1>b DEF Creates, Small, ConnectingHeld, Phases, AbsentUnknown, CanResume
<1>4. ASSUME NEW c \in Conns, NEW k \in BOOLEAN, Adopts(c, k)
      PROVE  ConnectingHeld'
  BY <1>4, <1>s, <1>b DEF Adopts, Small, ConnectingHeld, Phases, AbsentUnknown, CanResume
<1>5. ASSUME NEW c \in Conns, AcCompletes(c)
      PROVE  ConnectingHeld'
  BY <1>5, <1>s, <1>b DEF AcCompletes, Small, ConnectingHeld, Phases, AbsentUnknown, CanResume
<1>6. ASSUME NEW c \in Conns, GoesLive(c)
      PROVE  ConnectingHeld'
  BY <1>6, <1>s, <1>b DEF GoesLive, Small, ConnectingHeld, Phases, AbsentUnknown, CanResume
<1>7. ASSUME NEW c \in Conns, Resumes(c)
      PROVE  ConnectingHeld'
  BY <1>7, <1>s, <1>b DEF Resumes, Small, ConnectingHeld, Phases, AbsentUnknown, CanResume
<1>8. ASSUME NEW c \in Conns, Breaks(c)
      PROVE  ConnectingHeld'
  BY <1>8, <1>s, <1>b DEF Breaks, Small, ConnectingHeld, Phases, AbsentUnknown, CanResume
<1>9. ASSUME NEW c \in Conns, Loses(c)
      PROVE  ConnectingHeld'
  BY <1>9, <1>s, <1>b DEF Loses, Small, ConnectingHeld, Phases, AbsentUnknown, CanResume
<1>10. ASSUME NEW c \in Conns, Disconnects(c)
      PROVE  ConnectingHeld'
  BY <1>10, <1>s, <1>b DEF Disconnects, Small, ConnectingHeld, Phases, AbsentUnknown, CanResume
<1>11. ASSUME SessionKept
      PROVE  ConnectingHeld'
  BY <1>11, <1>s, <1>b DEF SessionKept, Small, ConnectingHeld, Phases, AbsentUnknown, CanResume
<1>12. ASSUME HolderDrops
      PROVE  ConnectingHeld'
  BY <1>12, <1>s, <1>b DEF HolderDrops, Small, ConnectingHeld, Phases, AbsentUnknown, CanResume
<1>13. ASSUME Restarts
      PROVE  ConnectingHeld'
  BY <1>13, <1>s, <1>b DEF Restarts, Small, ConnectingHeld, Phases, AbsentUnknown, CanResume
<1> QED BY <1>1, <1>2, <1>3, <1>4, <1>5, <1>6, <1>7, <1>8, <1>9, <1>10, <1>11, <1>12, <1>13 DEF
     SessionDoes

\* A connection that is evicted or refused is closed.
LEMMA KeepsUpIsMapped ==
  ASSUME Base, UpIsMapped, SessionDoes
  PROVE  UpIsMapped'
<1>s. Small
  BY SmallOK DEF Base
<1>b. Phases /\ HolderHasRow
  BY DEF Base
<1> USE DEF OthersSame, SameObj, SameStatus, SameHeld, SameGhosts, SameFaults, SessionObjs, Stays
<1>1. ASSUME NEW c \in Conns, AcOpens(c)
      PROVE  UpIsMapped'
  BY <1>1, <1>s, <1>b DEF AcOpens, Small, UpIsMapped, Phases
<1>2. ASSUME NEW c \in Conns, Looks(c)
      PROVE  UpIsMapped'
  BY <1>2, <1>s, <1>b DEF Looks, Small, UpIsMapped, Phases
<1>3. ASSUME NEW c \in Conns, Creates(c)
      PROVE  UpIsMapped'
  BY <1>3, <1>s, <1>b DEF Creates, Small, UpIsMapped, Phases
<1>4. ASSUME NEW c \in Conns, NEW k \in BOOLEAN, Adopts(c, k)
      PROVE  UpIsMapped'
  BY <1>4, <1>s, <1>b DEF Adopts, Small, UpIsMapped, Phases
<1>5. ASSUME NEW c \in Conns, AcCompletes(c)
      PROVE  UpIsMapped'
  BY <1>5, <1>s, <1>b DEF AcCompletes, Small, UpIsMapped, Phases
<1>6. ASSUME NEW c \in Conns, GoesLive(c)
      PROVE  UpIsMapped'
  BY <1>6, <1>s, <1>b DEF GoesLive, Small, UpIsMapped, Phases
<1>7. ASSUME NEW c \in Conns, Resumes(c)
      PROVE  UpIsMapped'
  BY <1>7, <1>s, <1>b DEF Resumes, Small, UpIsMapped, Phases
<1>8. ASSUME NEW c \in Conns, Breaks(c)
      PROVE  UpIsMapped'
  BY <1>8, <1>s, <1>b DEF Breaks, Small, UpIsMapped, Phases
<1>9. ASSUME NEW c \in Conns, Loses(c)
      PROVE  UpIsMapped'
  BY <1>9, <1>s, <1>b DEF Loses, Small, UpIsMapped, Phases
<1>10. ASSUME NEW c \in Conns, Disconnects(c)
      PROVE  UpIsMapped'
  BY <1>10, <1>s, <1>b DEF Disconnects, Small, UpIsMapped, Phases
<1>11. ASSUME SessionKept
      PROVE  UpIsMapped'
  BY <1>11, <1>s, <1>b DEF SessionKept, Small, UpIsMapped, Phases
<1>12. ASSUME HolderDrops
      PROVE  UpIsMapped'
  BY <1>12, <1>s, <1>b DEF HolderDrops, Small, UpIsMapped, Phases
<1>13. ASSUME Restarts
      PROVE  UpIsMapped'
  BY <1>13, <1>s, <1>b DEF Restarts, Small, UpIsMapped, Phases
<1> QED BY <1>1, <1>2, <1>3, <1>4, <1>5, <1>6, <1>7, <1>8, <1>9, <1>10, <1>11, <1>12, <1>13 DEF
     SessionDoes

\* The session the AC knows is never out of both registry and holder.
LEMMA KeepsAcServed ==
  ASSUME Base, AcServed, RowsInOrder, AbsentUnknown, HeldWhileMapped, ConnectingHeld, UpIsMapped, SessionDoes
  PROVE  AcServed'
<1>s. Small
  BY SmallOK DEF Base
<1>b. Phases /\ HolderHasRow
  BY DEF Base
<1> USE DEF OthersSame, SameObj, SameStatus, SameHeld, SameGhosts, SameFaults, SessionObjs, Stays
<1>1. ASSUME NEW c \in Conns, AcOpens(c)
      PROVE  AcServed'
  BY <1>1, <1>s, <1>b, RowsOrdered DEF AcOpens, Small, AcServed, Phases, RowsInOrder,
     AbsentUnknown, HeldWhileMapped, ConnectingHeld, UpIsMapped, CanResume
<1>2. ASSUME NEW c \in Conns, Looks(c)
      PROVE  AcServed'
  BY <1>2, <1>s, <1>b, RowsOrdered DEF Looks, Small, AcServed, Phases, RowsInOrder, AbsentUnknown,
     HeldWhileMapped, ConnectingHeld, UpIsMapped, CanResume
<1>3. ASSUME NEW c \in Conns, Creates(c)
      PROVE  AcServed'
  BY <1>3, <1>s, <1>b, RowsOrdered DEF Creates, Small, AcServed, Phases, RowsInOrder,
     AbsentUnknown, HeldWhileMapped, ConnectingHeld, UpIsMapped, CanResume
<1>4. ASSUME NEW c \in Conns, NEW k \in BOOLEAN, Adopts(c, k)
      PROVE  AcServed'
  BY <1>4, <1>s, <1>b, RowsOrdered DEF Adopts, Small, AcServed, Phases, RowsInOrder,
     AbsentUnknown, HeldWhileMapped, ConnectingHeld, UpIsMapped, CanResume
<1>5. ASSUME NEW c \in Conns, AcCompletes(c)
      PROVE  AcServed'
  BY <1>5, <1>s, <1>b, RowsOrdered DEF AcCompletes, Small, AcServed, Phases, RowsInOrder,
     AbsentUnknown, HeldWhileMapped, ConnectingHeld, UpIsMapped, CanResume
<1>6. ASSUME NEW c \in Conns, GoesLive(c)
      PROVE  AcServed'
  BY <1>6, <1>s, <1>b, RowsOrdered DEF GoesLive, Small, AcServed, Phases, RowsInOrder,
     AbsentUnknown, HeldWhileMapped, ConnectingHeld, UpIsMapped, CanResume
<1>7. ASSUME NEW c \in Conns, Resumes(c)
      PROVE  AcServed'
  BY <1>7, <1>s, <1>b, RowsOrdered DEF Resumes, Small, AcServed, Phases, RowsInOrder,
     AbsentUnknown, HeldWhileMapped, ConnectingHeld, UpIsMapped, CanResume
<1>8. ASSUME NEW c \in Conns, Breaks(c)
      PROVE  AcServed'
  BY <1>8, <1>s, <1>b, RowsOrdered DEF Breaks, Small, AcServed, Phases, RowsInOrder,
     AbsentUnknown, HeldWhileMapped, ConnectingHeld, UpIsMapped, CanResume
<1>9. ASSUME NEW c \in Conns, Loses(c)
      PROVE  AcServed'
  BY <1>9, <1>s, <1>b, RowsOrdered DEF Loses, Small, AcServed, Phases, RowsInOrder, AbsentUnknown,
     HeldWhileMapped, ConnectingHeld, UpIsMapped, CanResume
<1>10. ASSUME NEW c \in Conns, Disconnects(c)
      PROVE  AcServed'
  BY <1>10, <1>s, <1>b, RowsOrdered DEF Disconnects, Small, AcServed, Phases, RowsInOrder,
     AbsentUnknown, HeldWhileMapped, ConnectingHeld, UpIsMapped, CanResume
<1>11. ASSUME SessionKept
      PROVE  AcServed'
  BY <1>11, <1>s, <1>b, RowsOrdered DEF SessionKept, Small, AcServed, Phases, RowsInOrder,
     AbsentUnknown, HeldWhileMapped, ConnectingHeld, UpIsMapped, CanResume
<1>12. ASSUME HolderDrops
      PROVE  AcServed'
  BY <1>12, <1>s, <1>b, RowsOrdered DEF HolderDrops, Small, AcServed, Phases, RowsInOrder,
     AbsentUnknown, HeldWhileMapped, ConnectingHeld, UpIsMapped, CanResume
<1>13. ASSUME Restarts
      PROVE  AcServed'
  BY <1>13, <1>s, <1>b, RowsOrdered DEF Restarts, Small, AcServed, Phases, RowsInOrder,
     AbsentUnknown, HeldWhileMapped, ConnectingHeld, UpIsMapped, CanResume
<1> QED BY <1>1, <1>2, <1>3, <1>4, <1>5, <1>6, <1>7, <1>8, <1>9, <1>10, <1>11, <1>12, <1>13 DEF
     SessionDoes


\* The registry has one connection and the holder one session at most.
OneMapped == \A c, d \in mapped : c = d
OneHeld   == \A q, r \in Rows : By(q) # NoConn /\ By(r) # NoConn => q = r

\* registry.adopt evicts every other connection of the AC.
LEMMA KeepsOneMapped ==
  ASSUME Base, SessionDoes
  PROVE  OneMapped'
<1>s. Small
  BY SmallOK DEF Base
<1>b. Phases /\ HolderHasRow
  BY DEF Base
<1> USE DEF OthersSame, SameObj, SameStatus, SameHeld, SameGhosts, SameFaults, SessionObjs, Stays
<1>1. ASSUME NEW c \in Conns, AcOpens(c)
      PROVE  OneMapped'
  BY <1>1, <1>s DEF AcOpens, Small, OneMapped
<1>2. ASSUME NEW c \in Conns, Looks(c)
      PROVE  OneMapped'
  BY <1>2, <1>s DEF Looks, Small, OneMapped
<1>3. ASSUME NEW c \in Conns, Creates(c)
      PROVE  OneMapped'
  BY <1>3, <1>s DEF Creates, Small, OneMapped
<1>4. ASSUME NEW c \in Conns, NEW k \in BOOLEAN, Adopts(c, k)
      PROVE  OneMapped'
  BY <1>4, <1>s DEF Adopts, Small, OneMapped
<1>5. ASSUME NEW c \in Conns, AcCompletes(c)
      PROVE  OneMapped'
  BY <1>5, <1>s DEF AcCompletes, Small, OneMapped
<1>6. ASSUME NEW c \in Conns, GoesLive(c)
      PROVE  OneMapped'
  BY <1>6, <1>s DEF GoesLive, Small, OneMapped
<1>7. ASSUME NEW c \in Conns, Resumes(c)
      PROVE  OneMapped'
  BY <1>7, <1>s DEF Resumes, Small, OneMapped
<1>8. ASSUME NEW c \in Conns, Breaks(c)
      PROVE  OneMapped'
  BY <1>8, <1>s DEF Breaks, Small, OneMapped
<1>9. ASSUME NEW c \in Conns, Loses(c)
      PROVE  OneMapped'
  BY <1>9, <1>s DEF Loses, Small, OneMapped
<1>10. ASSUME NEW c \in Conns, Disconnects(c)
      PROVE  OneMapped'
  BY <1>10, <1>s DEF Disconnects, Small, OneMapped
<1>11. ASSUME SessionKept
      PROVE  OneMapped'
  BY <1>11, <1>s DEF SessionKept, Small, OneMapped
<1>12. ASSUME HolderDrops
      PROVE  OneMapped'
  BY <1>12, <1>s DEF HolderDrops, Small, OneMapped
<1>13. ASSUME Restarts
      PROVE  OneMapped'
  BY <1>13, <1>s DEF Restarts, Small, OneMapped
<1> QED BY <1>1, <1>2, <1>3, <1>4, <1>5, <1>6, <1>7, <1>8, <1>9, <1>10, <1>11, <1>12, <1>13 DEF
     SessionDoes

\* registry.adopt, Hold and Load leave one entry in the holder.
LEMMA KeepsOneHeld ==
  ASSUME Base, OneHeld, HeldWhileMapped, RowsInOrder, SessionDoes
  PROVE  OneHeld'
<1>s. Small
  BY SmallOK DEF Base
<1>b. Phases /\ HolderHasRow
  BY DEF Base
<1>u. \A q, r \in Rows : CanResume(q) /\ CanResume(r) => q = r
  BY RowsUnique
<1> USE DEF OthersSame, SameObj, SameStatus, SameHeld, SameGhosts, SameFaults, SessionObjs, Stays
<1>1. ASSUME NEW c \in Conns, AcOpens(c)
      PROVE  OneHeld'
  BY <1>1, <1>s, <1>u DEF AcOpens, Small, OneHeld, HeldWhileMapped
<1>2. ASSUME NEW c \in Conns, Looks(c)
      PROVE  OneHeld'
  BY <1>2, <1>s, <1>u DEF Looks, Small, OneHeld, HeldWhileMapped
<1>3. ASSUME NEW c \in Conns, Creates(c)
      PROVE  OneHeld'
  BY <1>3, <1>s, <1>u DEF Creates, Small, OneHeld, HeldWhileMapped
<1>4. ASSUME NEW c \in Conns, NEW k \in BOOLEAN, Adopts(c, k)
      PROVE  OneHeld'
  BY <1>4, <1>s, <1>u DEF Adopts, Small, OneHeld, HeldWhileMapped
<1>5. ASSUME NEW c \in Conns, AcCompletes(c)
      PROVE  OneHeld'
  BY <1>5, <1>s, <1>u DEF AcCompletes, Small, OneHeld, HeldWhileMapped
<1>6. ASSUME NEW c \in Conns, GoesLive(c)
      PROVE  OneHeld'
  BY <1>6, <1>s, <1>u DEF GoesLive, Small, OneHeld, HeldWhileMapped
<1>7. ASSUME NEW c \in Conns, Resumes(c)
      PROVE  OneHeld'
  BY <1>7, <1>s, <1>u DEF Resumes, Small, OneHeld, HeldWhileMapped
<1>8. ASSUME NEW c \in Conns, Breaks(c)
      PROVE  OneHeld'
  BY <1>8, <1>s, <1>u DEF Breaks, Small, OneHeld, HeldWhileMapped
<1>9. ASSUME NEW c \in Conns, Loses(c)
      PROVE  OneHeld'
  BY <1>9, <1>s, <1>u DEF Loses, Small, OneHeld, HeldWhileMapped
<1>10. ASSUME NEW c \in Conns, Disconnects(c)
      PROVE  OneHeld'
  BY <1>10, <1>s, <1>u DEF Disconnects, Small, OneHeld, HeldWhileMapped
<1>11. ASSUME SessionKept
      PROVE  OneHeld'
  BY <1>11, <1>s, <1>u DEF SessionKept, Small, OneHeld, HeldWhileMapped
<1>12. ASSUME HolderDrops
      PROVE  OneHeld'
  BY <1>12, <1>s, <1>u DEF HolderDrops, Small, OneHeld, HeldWhileMapped
<1>13. ASSUME Restarts
      PROVE  OneHeld'
  BY <1>13, <1>s, <1>u DEF Restarts, Small, OneHeld, HeldWhileMapped
<1> QED BY <1>1, <1>2, <1>3, <1>4, <1>5, <1>6, <1>7, <1>8, <1>9, <1>10, <1>11, <1>12, <1>13 DEF
     SessionDoes

\* A row is held when its entry names an object.
LEMMA HeldIs == ASSUME Types PROVE \A r \in Rows : r \in Held <=> By(r) # NoConn
<1> SUFFICES ASSUME NEW r \in Rows PROVE r \in Held <=> By(r) # NoConn
  OBVIOUS
<1>1. CASE held[r] = NotHeld
  BY <1>1 DEF Held, NotHeld, By
<1>2. CASE held[r] # NotHeld
  <2>1. held[r] \in [by : Objects, pending : Nat \cup {NotCounted}]
    BY <1>2 DEF Types, HeldType
  <2>2. By(r) \in Objects
    BY <2>1 DEF By
  <2> QED BY <1>2, <2>2, Numbers DEF Held
<1> QED BY <1>1, <1>2

\* One entry, in both forms.
LEMMA OneHeldIs == ASSUME Types PROVE OneHeld <=> \A q, r \in Held : q = r
<1>1. Held \subseteq Rows
  BY DEF Held
<1> QED BY <1>1, HeldIs DEF OneHeld

\* The same after a step.
LEMMA OneHeldNext == ASSUME Types' PROVE (OneHeld <=> \A q, r \in Held : q = r)'
BY OneHeldIs, PTL

\* The type invariant after a step, from its parts.
LEMMA TypesOfNext == ASSUME Types', OneMapped', (\A q, r \in Held : q = r)' PROVE TypeOK'
BY DEF TypeOK, Types, OneMapped

\* Load finds one session at most.
LEMMA LoadedOne == ASSUME RowsInOrder PROVE \A q, r \in Loaded : q = r
<1>1. \A r \in Loaded : r \in Rows /\ CanResume(r)
  BY DEF Loaded, Resumable, CanResume, Status
<1> QED BY <1>1, RowsUnique

\* A step keeps the type invariant.
LEMMA NextTypeOK ==
  ASSUME Base, ReissueGate, RowsInOrder, HeldWhileMapped, Next, Does
  PROVE  TypeOK'
<1>1. Types'
  BY LoadedOne, NextTypes
<1>2. SessionDoes
  BY SessionSteps
<1>3. OneHeld
  <2>1. Types /\ \A q, r \in Held : q = r
    BY TypesOf DEF Base
  <2> QED BY <2>1, OneHeldIs
<1>4. OneMapped' /\ OneHeld'
  BY <1>2, <1>3, KeepsOneMapped, KeepsOneHeld
<1> QED BY <1>1, <1>4, OneHeldNext, TypesOfNext

-----------------------------------------------------------------------------
(* The issue gates and the broadcasts.                                     *)

\* One broadcast at a time sends on a session, inside its gate.
SendGate ==
  /\ \A m \in Msgs : Sending(m) => gate[To(m)] = "send"
  /\ \A m, n \in Msgs : Sending(m) /\ Sending(n) /\ To(m) = To(n) => m = n

\* What the proofs about ids use of the types.
Numeric ==
  /\ OpIds \subseteq Int /\ (\A i \in OpIds : i < 0)
  /\ \A o \in Objects : Sc(o) \in Int
  /\ \A m \in Msgs : Id(m) \in Int /\ To(m) \in Conns \cup {NoConn}
  /\ \A e \in log : e.id \in Int /\ e.row \in Rows

\* The type invariant gives these facts.
LEMMA NumericOK == ASSUME TypeOK PROVE Numeric
<1>1. \A m \in Msgs : Id(m) \in OpIds \cup {0} /\ To(m) \in Conns \cup {NoConn}
  BY FieldsOK DEF Fields
<1>2. ASSUME NEW m \in Msgs PROVE Id(m) \in Int
  <2>1. CASE Id(m) = 0
    <3>1. 0 \in Int
      OBVIOUS
    <3> QED BY <2>1, <3>1, Zenon
  <2>2. CASE Id(m) \in OpIds
    BY <2>2, Numbers, Zenon
  <2> QED BY <1>1, <2>1, <2>2, Zenon
<1>3. \A e \in log : e.id \in Int /\ e.row \in Rows
  BY Numbers DEF TypeOK, EntryType
<1> QED BY <1>1, <1>2, <1>3, CountersOK, Numbers DEF Numeric

\* The same after a step.
LEMMA NumericNext == ASSUME TypeOK' PROVE Numeric'
BY NumericOK, PTL

\* A broadcast cannot enter the gate that a reissue holds.
LEMMA KeepsReissueGate ==
  ASSUME Base, ReissueGate, SendGate, Does
  PROVE  ReissueGate'
<1>s. Small
  BY SmallOK DEF Base
<1>b. Phases /\ BusyTarget
  BY DEF Base
<1> USE DEF OthersSame, SameObj, SameObjs, SameStatus, SameHeld, SameGhosts, SameFaults,
     SameReissue, SameSender, SameSenders, SameFrames, Stays
<1>1. ASSUME NEW c \in Conns, AcOpens(c)
      PROVE  ReissueGate'
  BY <1>1, <1>s, <1>b DEF AcOpens, Small, Phases, ReissueGate, SendGate, Sending, BusyTarget, Busy
<1>2. ASSUME NEW c \in Conns, Looks(c)
      PROVE  ReissueGate'
  BY <1>2, <1>s, <1>b DEF Looks, Small, Phases, ReissueGate, SendGate, Sending, BusyTarget, Busy
<1>3. ASSUME NEW c \in Conns, Creates(c)
      PROVE  ReissueGate'
  BY <1>3, <1>s, <1>b DEF Creates, Small, Phases, ReissueGate, SendGate, Sending, BusyTarget, Busy
<1>4. ASSUME NEW c \in Conns, NEW k \in BOOLEAN, Adopts(c, k)
      PROVE  ReissueGate'
  BY <1>4, <1>s, <1>b DEF Adopts, Small, Phases, ReissueGate, SendGate, Sending, BusyTarget, Busy
<1>5. ASSUME NEW c \in Conns, AcCompletes(c)
      PROVE  ReissueGate'
  BY <1>5, <1>s, <1>b DEF AcCompletes, Small, Phases, ReissueGate, SendGate, Sending, BusyTarget,
     Busy
<1>6. ASSUME NEW c \in Conns, GoesLive(c)
      PROVE  ReissueGate'
  BY <1>6, <1>s, <1>b DEF GoesLive, Small, Phases, ReissueGate, SendGate, Sending, BusyTarget,
     Busy
<1>7. ASSUME NEW c \in Conns, Resumes(c)
      PROVE  ReissueGate'
  BY <1>7, <1>s, <1>b DEF Resumes, Small, Phases, ReissueGate, SendGate, Sending, BusyTarget, Busy
<1>8. ASSUME NEW c \in Conns, Breaks(c)
      PROVE  ReissueGate'
  BY <1>8, <1>s, <1>b DEF Breaks, Small, Phases, ReissueGate, SendGate, Sending, BusyTarget, Busy
<1>9. ASSUME NEW c \in Conns, Loses(c)
      PROVE  ReissueGate'
  BY <1>9, <1>s, <1>b DEF Loses, Small, Phases, ReissueGate, SendGate, Sending, BusyTarget, Busy
<1>10. ASSUME NEW c \in Conns, Disconnects(c)
      PROVE  ReissueGate'
  BY <1>10, <1>s, <1>b DEF Disconnects, Small, Phases, ReissueGate, SendGate, Sending, BusyTarget,
     Busy
<1>11. ASSUME NEW c \in Conns, ReissueReads(c)
      PROVE  ReissueGate'
  BY <1>11, <1>s, <1>b DEF ReissueReads, Small, Phases, ReissueGate, SendGate, Sending,
     BusyTarget, Busy
<1>12. ASSUME NEW c \in Conns, Reissues(c)
      PROVE  ReissueGate'
  BY <1>12, <1>s, <1>b DEF Reissues, Writes, Small, Phases, ReissueGate, SendGate, Sending,
     BusyTarget, Busy
<1>13. ASSUME NEW c \in Conns, NEW f \in FrameType, Settles(c, f)
      PROVE  ReissueGate'
  BY <1>13, <1>s, <1>b DEF Settles, Small, Phases, ReissueGate, SendGate, Sending, BusyTarget,
     Busy
<1>14. ASSUME NEW m \in Msgs, FindsTargets(m)
      PROVE  ReissueGate'
  BY <1>14, <1>s, <1>b DEF FindsTargets, HolderRecords, Small, Phases, ReissueGate, SendGate,
     Sending, BusyTarget, Busy
<1>15. ASSUME NEW m \in Msgs, NEW c \in Conns, Issues(m, c)
      PROVE  ReissueGate'
  BY <1>15, <1>s, <1>b DEF Issues, Small, Phases, ReissueGate, SendGate, Sending, BusyTarget, Busy
<1>16. ASSUME NEW m \in Msgs, NEW c \in Conns, Records(m, c)
      PROVE  ReissueGate'
  BY <1>16, <1>s, <1>b DEF Records, Leaves, Small, Phases, ReissueGate, SendGate, Sending,
     BusyTarget, Busy
<1>17. ASSUME NEW m \in Msgs, NEW c \in Conns, NEW id \in OpIds, Sends(m, c, id)
      PROVE  ReissueGate'
  BY <1>17, <1>s, <1>b DEF Sends, Writes, Leaves, Small, Phases, ReissueGate, SendGate, Sending,
     BusyTarget, Busy
<1>18. ASSUME Quiet
      PROVE  ReissueGate'
  BY <1>18, <1>s, <1>b DEF Quiet, Small, Phases, ReissueGate, SendGate, Sending, BusyTarget, Busy
<1>19. ASSUME Restarts
      PROVE  ReissueGate'
  BY <1>19, <1>s, <1>b DEF Restarts, Small, Phases, ReissueGate, SendGate, Sending, BusyTarget,
     Busy
<1> QED BY <1>1, <1>2, <1>3, <1>4, <1>5, <1>6, <1>7, <1>8, <1>9, <1>10, <1>11, <1>12, <1>13,
     <1>14, <1>15, <1>16, <1>17, <1>18, <1>19 DEF Does

\* A broadcast enters a gate only when it is open.
LEMMA KeepsSendGate ==
  ASSUME Base, ReissueGate, SendGate, Does
  PROVE  SendGate'
<1>s. Small
  BY SmallOK DEF Base
<1>b. Phases /\ BusyTarget
  BY DEF Base
<1> USE DEF OthersSame, SameObj, SameObjs, SameStatus, SameHeld, SameGhosts, SameFaults,
     SameReissue, SameSender, SameSenders, SameFrames, Stays
<1>1. ASSUME NEW c \in Conns, AcOpens(c)
      PROVE  SendGate'
  BY <1>1, <1>s, <1>b DEF AcOpens, Small, Phases, ReissueGate, SendGate, Sending, BusyTarget, Busy
<1>2. ASSUME NEW c \in Conns, Looks(c)
      PROVE  SendGate'
  BY <1>2, <1>s, <1>b DEF Looks, Small, Phases, ReissueGate, SendGate, Sending, BusyTarget, Busy
<1>3. ASSUME NEW c \in Conns, Creates(c)
      PROVE  SendGate'
  BY <1>3, <1>s, <1>b DEF Creates, Small, Phases, ReissueGate, SendGate, Sending, BusyTarget, Busy
<1>4. ASSUME NEW c \in Conns, NEW k \in BOOLEAN, Adopts(c, k)
      PROVE  SendGate'
  BY <1>4, <1>s, <1>b DEF Adopts, Small, Phases, ReissueGate, SendGate, Sending, BusyTarget, Busy
<1>5. ASSUME NEW c \in Conns, AcCompletes(c)
      PROVE  SendGate'
  BY <1>5, <1>s, <1>b DEF AcCompletes, Small, Phases, ReissueGate, SendGate, Sending, BusyTarget,
     Busy
<1>6. ASSUME NEW c \in Conns, GoesLive(c)
      PROVE  SendGate'
  BY <1>6, <1>s, <1>b DEF GoesLive, Small, Phases, ReissueGate, SendGate, Sending, BusyTarget,
     Busy
<1>7. ASSUME NEW c \in Conns, Resumes(c)
      PROVE  SendGate'
  BY <1>7, <1>s, <1>b DEF Resumes, Small, Phases, ReissueGate, SendGate, Sending, BusyTarget, Busy
<1>8. ASSUME NEW c \in Conns, Breaks(c)
      PROVE  SendGate'
  BY <1>8, <1>s, <1>b DEF Breaks, Small, Phases, ReissueGate, SendGate, Sending, BusyTarget, Busy
<1>9. ASSUME NEW c \in Conns, Loses(c)
      PROVE  SendGate'
  BY <1>9, <1>s, <1>b DEF Loses, Small, Phases, ReissueGate, SendGate, Sending, BusyTarget, Busy
<1>10. ASSUME NEW c \in Conns, Disconnects(c)
      PROVE  SendGate'
  BY <1>10, <1>s, <1>b DEF Disconnects, Small, Phases, ReissueGate, SendGate, Sending, BusyTarget,
     Busy
<1>11. ASSUME NEW c \in Conns, ReissueReads(c)
      PROVE  SendGate'
  BY <1>11, <1>s, <1>b DEF ReissueReads, Small, Phases, ReissueGate, SendGate, Sending,
     BusyTarget, Busy
<1>12. ASSUME NEW c \in Conns, Reissues(c)
      PROVE  SendGate'
  BY <1>12, <1>s, <1>b DEF Reissues, Writes, Small, Phases, ReissueGate, SendGate, Sending,
     BusyTarget, Busy
<1>13. ASSUME NEW c \in Conns, NEW f \in FrameType, Settles(c, f)
      PROVE  SendGate'
  BY <1>13, <1>s, <1>b DEF Settles, Small, Phases, ReissueGate, SendGate, Sending, BusyTarget,
     Busy
<1>14. ASSUME NEW m \in Msgs, FindsTargets(m)
      PROVE  SendGate'
  BY <1>14, <1>s, <1>b DEF FindsTargets, HolderRecords, Small, Phases, ReissueGate, SendGate,
     Sending, BusyTarget, Busy
<1>15. ASSUME NEW m \in Msgs, NEW c \in Conns, Issues(m, c)
      PROVE  SendGate'
  BY <1>15, <1>s, <1>b DEF Issues, Small, Phases, ReissueGate, SendGate, Sending, BusyTarget, Busy
<1>16. ASSUME NEW m \in Msgs, NEW c \in Conns, Records(m, c)
      PROVE  SendGate'
  BY <1>16, <1>s, <1>b DEF Records, Leaves, Small, Phases, ReissueGate, SendGate, Sending,
     BusyTarget, Busy
<1>17. ASSUME NEW m \in Msgs, NEW c \in Conns, NEW id \in OpIds, Sends(m, c, id)
      PROVE  SendGate'
  BY <1>17, <1>s, <1>b DEF Sends, Writes, Leaves, Small, Phases, ReissueGate, SendGate, Sending,
     BusyTarget, Busy
<1>18. ASSUME Quiet
      PROVE  SendGate'
  BY <1>18, <1>s, <1>b DEF Quiet, Small, Phases, ReissueGate, SendGate, Sending, BusyTarget, Busy
<1>19. ASSUME Restarts
      PROVE  SendGate'
  BY <1>19, <1>s, <1>b DEF Restarts, Small, Phases, ReissueGate, SendGate, Sending, BusyTarget,
     Busy
<1> QED BY <1>1, <1>2, <1>3, <1>4, <1>5, <1>6, <1>7, <1>8, <1>9, <1>10, <1>11, <1>12, <1>13,
     <1>14, <1>15, <1>16, <1>17, <1>18, <1>19 DEF Does

\* A session that went live keeps its row, and its counter never moves back.
LEMMA KeepsBusyTarget ==
  ASSUME Base, ReissueGate, SendGate, TypeOK', Does
  PROVE  BusyTarget'
<1>s. Small
  BY SmallOK DEF Base
<1>b. Phases /\ BusyTarget
  BY DEF Base
<1>n. Numeric /\ Numeric'
  BY NumericOK, NumericNext DEF Base
<1> USE DEF OthersSame, SameObj, SameObjs, SameStatus, SameHeld, SameGhosts, SameFaults,
     SameReissue, SameSender, SameSenders, SameFrames, Stays
<1>1. ASSUME NEW c \in Conns, AcOpens(c)
      PROVE  BusyTarget'
  BY <1>1, <1>s, <1>b, <1>n DEF AcOpens, Small, Phases, SendGate, Sending, BusyTarget, Busy,
     Numeric, IsLive
<1>2. ASSUME NEW c \in Conns, Looks(c)
      PROVE  BusyTarget'
  BY <1>2, <1>s, <1>b, <1>n DEF Looks, Small, Phases, SendGate, Sending, BusyTarget, Busy,
     Numeric, IsLive
<1>3. ASSUME NEW c \in Conns, Creates(c)
      PROVE  BusyTarget'
  BY <1>3, <1>s, <1>b, <1>n DEF Creates, Small, Phases, SendGate, Sending, BusyTarget, Busy,
     Numeric, IsLive
<1>4. ASSUME NEW c \in Conns, NEW k \in BOOLEAN, Adopts(c, k)
      PROVE  BusyTarget'
  BY <1>4, <1>s, <1>b, <1>n DEF Adopts, Small, Phases, SendGate, Sending, BusyTarget, Busy,
     Numeric, IsLive
<1>5. ASSUME NEW c \in Conns, AcCompletes(c)
      PROVE  BusyTarget'
  BY <1>5, <1>s, <1>b, <1>n DEF AcCompletes, Small, Phases, SendGate, Sending, BusyTarget, Busy,
     Numeric, IsLive
<1>6. ASSUME NEW c \in Conns, GoesLive(c)
      PROVE  BusyTarget'
  BY <1>6, <1>s, <1>b, <1>n DEF GoesLive, Small, Phases, SendGate, Sending, BusyTarget, Busy,
     Numeric, IsLive
<1>7. ASSUME NEW c \in Conns, Resumes(c)
      PROVE  BusyTarget'
  BY <1>7, <1>s, <1>b, <1>n DEF Resumes, Small, Phases, SendGate, Sending, BusyTarget, Busy,
     Numeric, IsLive
<1>8. ASSUME NEW c \in Conns, Breaks(c)
      PROVE  BusyTarget'
  BY <1>8, <1>s, <1>b, <1>n DEF Breaks, Small, Phases, SendGate, Sending, BusyTarget, Busy,
     Numeric, IsLive
<1>9. ASSUME NEW c \in Conns, Loses(c)
      PROVE  BusyTarget'
  BY <1>9, <1>s, <1>b, <1>n DEF Loses, Small, Phases, SendGate, Sending, BusyTarget, Busy,
     Numeric, IsLive
<1>10. ASSUME NEW c \in Conns, Disconnects(c)
      PROVE  BusyTarget'
  BY <1>10, <1>s, <1>b, <1>n DEF Disconnects, Small, Phases, SendGate, Sending, BusyTarget, Busy,
     Numeric, IsLive
<1>11. ASSUME NEW c \in Conns, ReissueReads(c)
      PROVE  BusyTarget'
  BY <1>11, <1>s, <1>b, <1>n DEF ReissueReads, Small, Phases, SendGate, Sending, BusyTarget, Busy,
     Numeric, IsLive
<1>12. ASSUME NEW c \in Conns, Reissues(c)
      PROVE  BusyTarget'
  BY <1>12, <1>s, <1>b, <1>n DEF Reissues, Writes, Small, Phases, SendGate, Sending, BusyTarget,
     Busy, Numeric, IsLive
<1>13. ASSUME NEW c \in Conns, NEW f \in FrameType, Settles(c, f)
      PROVE  BusyTarget'
  BY <1>13, <1>s, <1>b, <1>n DEF Settles, Small, Phases, SendGate, Sending, BusyTarget, Busy,
     Numeric, IsLive
<1>14. ASSUME NEW m \in Msgs, FindsTargets(m)
      PROVE  BusyTarget'
  <2>1. \A x \in Objects : Row(x)' = Row(x) /\ St(x)' = St(x) /\ Sc(x)' <= Sc(x)
    <3>1. ASSUME NEW failed \in BOOLEAN, NEW r \in Rows, NEW o \in Objects, HolderRecords(r, o, m, failed),
                 NEW x \in Objects
          PROVE  Row(x)' = Row(x) /\ St(x)' = St(x) /\ Sc(x)' <= Sc(x)
      BY <1>n, <3>1 DEF HolderRecords, Stays, Numeric
    <3>2. CASE SameObjs
      BY <1>n, <3>2 DEF SameObjs, SameObj, Numeric
    <3> QED BY <1>14, <3>1, <3>2 DEF FindsTargets
  <2>2. ~Sending(m)'
    BY <1>14 DEF FindsTargets, Sending
  <2>3. Busy(m)' => \E c \in mapped : IsLive(c) /\ To(m)' = c
    BY <1>14 DEF FindsTargets, Sending, Busy
  <2>5. \A n \in Msgs : n # m => SameSender(n)
    BY <1>14 DEF FindsTargets
  <2> QED BY <2>1, <2>2, <2>3, <2>5, <1>s, <1>b, <1>n
         DEF BusyTarget, Busy, Sending, SameSender, Small, Phases, IsLive, Numeric
<1>15. ASSUME NEW m \in Msgs, NEW c \in Conns, Issues(m, c)
      PROVE  BusyTarget'
  BY <1>15, <1>s, <1>b, <1>n DEF Issues, Small, Phases, SendGate, Sending, BusyTarget, Busy,
     Numeric, IsLive
<1>16. ASSUME NEW m \in Msgs, NEW c \in Conns, Records(m, c)
      PROVE  BusyTarget'
  BY <1>16, <1>s, <1>b, <1>n DEF Records, Leaves, Small, Phases, SendGate, Sending, BusyTarget,
     Busy, Numeric, IsLive
<1>17. ASSUME NEW m \in Msgs, NEW c \in Conns, NEW id \in OpIds, Sends(m, c, id)
      PROVE  BusyTarget'
  BY <1>17, <1>s, <1>b, <1>n DEF Sends, Writes, Leaves, Small, Phases, SendGate, Sending,
     BusyTarget, Busy, Numeric, IsLive
<1>18. ASSUME Quiet
      PROVE  BusyTarget'
  BY <1>18, <1>s, <1>b, <1>n DEF Quiet, Small, Phases, SendGate, Sending, BusyTarget, Busy,
     Numeric, IsLive
<1>19. ASSUME Restarts
      PROVE  BusyTarget'
  BY <1>19, <1>s, <1>b, <1>n DEF Restarts, Small, Phases, SendGate, Sending, BusyTarget, Busy,
     Numeric, IsLive
<1> QED BY <1>1, <1>2, <1>3, <1>4, <1>5, <1>6, <1>7, <1>8, <1>9, <1>10, <1>11, <1>12, <1>13,
     <1>14, <1>15, <1>16, <1>17, <1>18, <1>19 DEF Does


-----------------------------------------------------------------------------
(* The operation log.                                                      *)

\* What is on record or owed is of a row that exists.
LogKnown ==
  /\ \A e \in log : Status(e.row) # "absent"
  /\ \A m \in Msgs : reach[m] \in Rows => Status(reach[m]) # "absent"

\* A new session that was not adopted yet has nothing on record.
FreshLog == \A c \in Conns : Fresh(c) => \A e \in log : e.row # Row(c)

\* The fields of a new operation.
LEMMA EntryFields ==
  ASSUME NEW r, NEW id, NEW m
  PROVE  /\ Entry(r, id, m).row = r /\ Entry(r, id, m).id = id /\ Entry(r, id, m).msg = m
         /\ ~Entry(r, id, m).done
BY DEF Entry

\* A completed operation keeps its row, its id and its message (UpdateOperationState).
LEMMA CompletedFields ==
  ASSUME TypeOK, NEW r, NEW id
  PROVE  /\ \A x \in Completed(r, id) : \E e \in log :
              /\ x.row = e.row /\ x.id = e.id /\ x.msg = e.msg
              /\ IF e.row = r /\ e.id = id THEN x.done /\ x = [e EXCEPT !.done = TRUE] ELSE x = e
         /\ \A e \in log : \E x \in Completed(r, id) :
              x.row = e.row /\ x.id = e.id /\ x.msg = e.msg
<1>1. \A e \in log : e \in EntryType
  BY DEF TypeOK
<1>2. ASSUME NEW e \in EntryType
      PROVE  LET x == [e EXCEPT !.done = TRUE]
             IN  x.row = e.row /\ x.id = e.id /\ x.msg = e.msg /\ x.done
  BY DEF EntryType
<1> QED BY <1>1, <1>2 DEF Completed

\* The steps that leave the log alone.
LEMMA SettlesLog ==
  ASSUME TypeOK, NEW c \in Conns, NEW f \in FrameType, Settles(c, f)
  PROVE  /\ \A x \in log' : \E e \in log : x.row = e.row /\ x.id = e.id /\ x.msg = e.msg
         /\ \A e \in log : \E x \in log' : x.row = e.row /\ x.id = e.id /\ x.msg = e.msg
<1>1. CASE log' = Completed(Row(c), f.id)
  BY <1>1, CompletedFields
<1>2. CASE log' = log
  BY <1>2
<1> QED BY <1>1, <1>2 DEF Settles

\* Operations are recorded only for rows the registry or the holder knows.
LEMMA KeepsLogKnown ==
  ASSUME Base, LogKnown, AbsentUnknown, TypeOK', Does
  PROVE  LogKnown'
<1>s. Small
  BY SmallOK DEF Base
<1>b. Phases /\ BusyTarget
  BY DEF Base
<1>n. Numeric /\ Numeric'
  BY NumericOK, NumericNext DEF Base
<1> USE DEF OthersSame, SameObj, SameObjs, SameStatus, SameHeld, SameGhosts, SameFaults,
     SameReissue, SameSender, SameSenders, SameFrames, Stays
<1>1. ASSUME NEW c \in Conns, AcOpens(c)
      PROVE  LogKnown'
  BY <1>1, <1>s, <1>n, EntryFields DEF AcOpens, Small, Numeric, LogKnown
<1>2. ASSUME NEW c \in Conns, Looks(c)
      PROVE  LogKnown'
  BY <1>2, <1>s, <1>n, EntryFields DEF Looks, Small, Numeric, LogKnown
<1>3. ASSUME NEW c \in Conns, Creates(c)
      PROVE  LogKnown'
  BY <1>3, <1>s, <1>n, EntryFields DEF Creates, Small, Numeric, LogKnown
<1>4. ASSUME NEW c \in Conns, NEW k \in BOOLEAN, Adopts(c, k)
      PROVE  LogKnown'
  BY <1>4, <1>s, <1>n, EntryFields DEF Adopts, Small, Numeric, LogKnown
<1>5. ASSUME NEW c \in Conns, AcCompletes(c)
      PROVE  LogKnown'
  BY <1>5, <1>s, <1>n, EntryFields DEF AcCompletes, Small, Numeric, LogKnown
<1>6. ASSUME NEW c \in Conns, GoesLive(c)
      PROVE  LogKnown'
  BY <1>6, <1>s, <1>n, EntryFields DEF GoesLive, Small, Numeric, LogKnown
<1>7. ASSUME NEW c \in Conns, Resumes(c)
      PROVE  LogKnown'
  BY <1>7, <1>s, <1>n, EntryFields DEF Resumes, Small, Numeric, LogKnown
<1>8. ASSUME NEW c \in Conns, Breaks(c)
      PROVE  LogKnown'
  BY <1>8, <1>s, <1>n, EntryFields DEF Breaks, Small, Numeric, LogKnown
<1>9. ASSUME NEW c \in Conns, Loses(c)
      PROVE  LogKnown'
  BY <1>9, <1>s, <1>n, EntryFields DEF Loses, Small, Numeric, LogKnown
<1>10. ASSUME NEW c \in Conns, Disconnects(c)
      PROVE  LogKnown'
  BY <1>10, <1>s, <1>n, EntryFields DEF Disconnects, Small, Numeric, LogKnown
<1>11. ASSUME NEW c \in Conns, ReissueReads(c)
      PROVE  LogKnown'
  BY <1>11, <1>s, <1>n, EntryFields DEF ReissueReads, Small, Numeric, LogKnown
<1>12. ASSUME NEW c \in Conns, Reissues(c)
      PROVE  LogKnown'
  BY <1>12, <1>s, <1>n, EntryFields DEF Reissues, Writes, Small, Numeric, LogKnown
<1>13. ASSUME NEW c \in Conns, NEW f \in FrameType, Settles(c, f)
      PROVE  LogKnown'
  <2>1. \A r \in Rows : Status(r)' = Status(r)
    BY <1>13 DEF Settles, SameStatus
  <2>2. reach' = reach
    BY <1>13 DEF Settles, SameGhosts
  <2>3. \A x \in log' : \E e \in log : x.row = e.row
    BY <1>13, SettlesLog DEF Base
  <2> QED BY <1>n, <2>1, <2>2, <2>3 DEF LogKnown, Numeric
<1>14. ASSUME NEW m \in Msgs, FindsTargets(m)
      PROVE  LogKnown'
  <2>1. \A n \in Msgs : reach'[n] \in {reach[n], AcSession}
    BY <1>14 DEF FindsTargets
  <2>2. ASSUME NEW failed \in BOOLEAN, NEW r \in Rows, NEW o \in Objects, HolderRecords(r, o, m, failed)
        PROVE  LogKnown'
    <3>1. By(r) # NoConn
      BY <1>s, <2>2 DEF HolderRecords, Small
    <3>2. \A q \in Rows : Status(q) # "absent" => Status(q)' # "absent"
      BY <2>2 DEF HolderRecords
    <3>3. \A x \in log' : x \in log \/ x.row = r
      BY <2>2, EntryFields DEF HolderRecords
    <3> QED BY <1>s, <1>n, <2>1, <3>1, <3>2, <3>3 DEF LogKnown, AbsentUnknown, Numeric, Small
  <2>3. CASE SameStatus /\ log' = log
    BY <1>s, <1>n, <2>1, <2>3 DEF LogKnown, AbsentUnknown, Numeric, Small, SameStatus
  <2> QED BY <1>14, <2>2, <2>3 DEF FindsTargets
<1>15. ASSUME NEW m \in Msgs, NEW c \in Conns, Issues(m, c)
      PROVE  LogKnown'
  BY <1>15, <1>s, <1>n, EntryFields DEF Issues, Small, Numeric, LogKnown
<1>16. ASSUME NEW m \in Msgs, NEW c \in Conns, Records(m, c)
      PROVE  LogKnown'
  <2>1. Row(c) \in Rows /\ c \in Objects
    BY <1>16, <1>s, <1>b DEF Records, BusyTarget, Busy, Sending, Small
  <2>2. \A x \in log' : x \in log \/ x.row = Row(c)
    <3>1. log' = log \/ log' = log \cup {Entry(Row(c), Id(m), m)}
      BY <1>16 DEF Records
    <3> QED BY <3>1, EntryFields
  <2> QED BY <1>16, <1>n, <2>1, <2>2 DEF Records, LogKnown, AbsentUnknown, Numeric, SameStatus
<1>17. ASSUME NEW m \in Msgs, NEW c \in Conns, NEW id \in OpIds, Sends(m, c, id)
      PROVE  LogKnown'
  BY <1>17, <1>s, <1>n, EntryFields DEF Sends, Writes, Leaves, Small, Numeric, LogKnown
<1>18. ASSUME Quiet
      PROVE  LogKnown'
  BY <1>18, <1>s, <1>n, EntryFields DEF Quiet, Small, Numeric, LogKnown
<1>19. ASSUME Restarts
      PROVE  LogKnown'
  BY <1>19, <1>s, <1>n, EntryFields DEF Restarts, Small, Numeric, LogKnown
<1> QED BY <1>1, <1>2, <1>3, <1>4, <1>5, <1>6, <1>7, <1>8, <1>9, <1>10, <1>11, <1>12, <1>13,
     <1>14, <1>15, <1>16, <1>17, <1>18, <1>19 DEF Does

\* Nothing is recorded for a row before it is adopted.
LEMMA KeepsFreshLog ==
  ASSUME Base, LogKnown, FreshLog, FreshRow, TypeOK', Does
  PROVE  FreshLog'
<1>s. Small
  BY SmallOK DEF Base
<1>b. Phases /\ BusyTarget
  BY DEF Base
<1>n. Numeric /\ Numeric'
  BY NumericOK, NumericNext DEF Base
<1> USE DEF OthersSame, SameObj, SameObjs, SameStatus, SameHeld, SameGhosts, SameFaults,
     SameReissue, SameSender, SameSenders, SameFrames, Stays
<1>1. ASSUME NEW c \in Conns, AcOpens(c)
      PROVE  FreshLog'
  BY <1>1, <1>s, <1>b, <1>n, EntryFields DEF AcOpens, Small, Numeric, FreshLog, Fresh, LogKnown,
     Phases
<1>2. ASSUME NEW c \in Conns, Looks(c)
      PROVE  FreshLog'
  BY <1>2, <1>s, <1>b, <1>n, EntryFields DEF Looks, Small, Numeric, FreshLog, Fresh, LogKnown,
     Phases
<1>3. ASSUME NEW c \in Conns, Creates(c)
      PROVE  FreshLog'
  BY <1>3, <1>s, <1>b, <1>n, EntryFields DEF Creates, Small, Numeric, FreshLog, Fresh, LogKnown,
     Phases
<1>4. ASSUME NEW c \in Conns, NEW k \in BOOLEAN, Adopts(c, k)
      PROVE  FreshLog'
  BY <1>4, <1>s, <1>b, <1>n, EntryFields DEF Adopts, Small, Numeric, FreshLog, Fresh, LogKnown,
     Phases
<1>5. ASSUME NEW c \in Conns, AcCompletes(c)
      PROVE  FreshLog'
  BY <1>5, <1>s, <1>b, <1>n, EntryFields DEF AcCompletes, Small, Numeric, FreshLog, Fresh,
     LogKnown, Phases
<1>6. ASSUME NEW c \in Conns, GoesLive(c)
      PROVE  FreshLog'
  BY <1>6, <1>s, <1>b, <1>n, EntryFields DEF GoesLive, Small, Numeric, FreshLog, Fresh, LogKnown,
     Phases
<1>7. ASSUME NEW c \in Conns, Resumes(c)
      PROVE  FreshLog'
  BY <1>7, <1>s, <1>b, <1>n, EntryFields DEF Resumes, Small, Numeric, FreshLog, Fresh, LogKnown,
     Phases
<1>8. ASSUME NEW c \in Conns, Breaks(c)
      PROVE  FreshLog'
  BY <1>8, <1>s, <1>b, <1>n, EntryFields DEF Breaks, Small, Numeric, FreshLog, Fresh, LogKnown,
     Phases
<1>9. ASSUME NEW c \in Conns, Loses(c)
      PROVE  FreshLog'
  BY <1>9, <1>s, <1>b, <1>n, EntryFields DEF Loses, Small, Numeric, FreshLog, Fresh, LogKnown,
     Phases
<1>10. ASSUME NEW c \in Conns, Disconnects(c)
      PROVE  FreshLog'
  BY <1>10, <1>s, <1>b, <1>n, EntryFields DEF Disconnects, Small, Numeric, FreshLog, Fresh,
     LogKnown, Phases
<1>11. ASSUME NEW c \in Conns, ReissueReads(c)
      PROVE  FreshLog'
  BY <1>11, <1>s, <1>b, <1>n, EntryFields DEF ReissueReads, Small, Numeric, FreshLog, Fresh,
     LogKnown, Phases
<1>12. ASSUME NEW c \in Conns, Reissues(c)
      PROVE  FreshLog'
  BY <1>12, <1>s, <1>b, <1>n, EntryFields DEF Reissues, Writes, Small, Numeric, FreshLog, Fresh,
     LogKnown, Phases
<1>13. ASSUME NEW c \in Conns, NEW f \in FrameType, Settles(c, f)
      PROVE  FreshLog'
  <2>1. \A d \in Conns : Row(d)' = Row(d) /\ Pc(d)' = Pc(d) /\ (Res(d)' <=> Res(d))
    BY <1>13, <1>s DEF Settles, Stays, OthersSame, SameObj, Small
  <2>3. \A x \in log' : \E e \in log : x.row = e.row
    BY <1>13, SettlesLog DEF Base
  <2> QED BY <2>1, <2>3 DEF FreshLog, Fresh
<1>14. ASSUME NEW m \in Msgs, FindsTargets(m)
      PROVE  FreshLog'
  <2>2. ASSUME NEW failed \in BOOLEAN, NEW r \in Rows, NEW o \in Objects, HolderRecords(r, o, m, failed)
        PROVE  FreshLog'
    <3>1. By(r) # NoConn
      BY <1>s, <2>2 DEF HolderRecords, Small
    <3>2. \A d \in Conns : Row(d)' = Row(d) /\ Pc(d)' = Pc(d) /\ (Res(d)' <=> Res(d))
      BY <2>2, <1>s DEF HolderRecords, Stays, Small
    <3>3. \A x \in log' : x \in log \/ x.row = r
      BY <2>2, EntryFields DEF HolderRecords
    <3> QED BY <3>1, <3>2, <3>3 DEF FreshLog, FreshRow, Fresh
  <2>3. CASE SameObjs /\ log' = log
    BY <2>3, <1>s DEF FreshLog, Fresh, SameObjs, SameObj, Small
  <2> QED BY <1>14, <2>2, <2>3 DEF FindsTargets
<1>15. ASSUME NEW m \in Msgs, NEW c \in Conns, Issues(m, c)
      PROVE  FreshLog'
  BY <1>15, <1>s, <1>b, <1>n, EntryFields DEF Issues, Small, Numeric, FreshLog, Fresh, LogKnown,
     Phases
<1>16. ASSUME NEW m \in Msgs, NEW c \in Conns, Records(m, c)
      PROVE  FreshLog'
  <2>1. Row(c) \in Rows /\ c \in Objects /\ St(c) # "connecting"
    BY <1>16, <1>s, <1>b DEF Records, BusyTarget, Busy, Sending, Small
  <2>2. \A x \in log' : x \in log \/ x.row = Row(c)
    <3>1. log' = log \/ log' = log \cup {Entry(Row(c), Id(m), m)}
      BY <1>16 DEF Records
    <3> QED BY <3>1, EntryFields
  <2>3. \A d \in Conns : Row(d)' = Row(d) /\ Pc(d)' = Pc(d) /\ (Res(d)' <=> Res(d))
    BY <1>16, <1>s DEF Records, SameObjs, SameObj, Small
  <2> QED BY <1>b, <2>1, <2>2, <2>3 DEF FreshLog, FreshRow, Fresh, Phases
<1>17. ASSUME NEW m \in Msgs, NEW c \in Conns, NEW id \in OpIds, Sends(m, c, id)
      PROVE  FreshLog'
  BY <1>17, <1>s, <1>b, <1>n, EntryFields DEF Sends, Writes, Leaves, Small, Numeric, FreshLog,
     Fresh, LogKnown, Phases
<1>18. ASSUME Quiet
      PROVE  FreshLog'
  BY <1>18, <1>s, <1>b, <1>n, EntryFields DEF Quiet, Small, Numeric, FreshLog, Fresh, LogKnown,
     Phases
<1>19. ASSUME Restarts
      PROVE  FreshLog'
  BY <1>19, <1>s, <1>b, <1>n, EntryFields DEF Restarts, Small, Numeric, FreshLog, Fresh, LogKnown,
     Phases
<1> QED BY <1>1, <1>2, <1>3, <1>4, <1>5, <1>6, <1>7, <1>8, <1>9, <1>10, <1>11, <1>12, <1>13,
     <1>14, <1>15, <1>16, <1>17, <1>18, <1>19 DEF Does


-----------------------------------------------------------------------------
(* The operation ids.                                                      *)

\* An operation recorded through an object that lost its row has the id.
LateId(i) == \E l \in late : l.id = i

\* The object that owns a row issues below everything on record for it.
CountersBelow ==
  ~behind => \A e \in log, o \in Objects :
    Owner(o) /\ Row(o) = e.row /\ ~LateId(e.id) => Sc(o) <= e.id

\* The id an owner issued is not on record.
IssuedUnused ==
  ~behind => \A m \in Msgs : At(m) = "issued" /\ Owner(To(m)) =>
    \A e \in log : e.row = Row(To(m)) /\ ~LateId(e.id) => e.id # Id(m)

IdsOnce ==
  ~behind => \A e, f \in log : e.row = f.row /\ e.id = f.id /\ ~LateId(e.id) => e = f

\* A row has one owner.
LEMMA OwnerUnique ==
  ASSUME Small, HeldWhileMapped
  PROVE  /\ \A x, y \in Objects : Owner(x) /\ Owner(y) /\ Row(x) = Row(y) => x = y
         /\ \A r \in Rows, x \in Objects : Owner(x) /\ Row(x) = r /\ By(r) # NoConn => x = By(r)
<1>1. \A r \in Rows, x \in Objects : Owner(x) /\ Row(x) = r /\ By(r) # NoConn => x = By(r)
  BY DEF Small, HeldWhileMapped, Owner
<1>2. \A x, y \in Objects : Owner(x) /\ Owner(y) /\ Row(x) = Row(y) => x = y
  BY <1>1 DEF Small, HeldWhileMapped, Owner
<1> QED BY <1>1, <1>2

\* A connection that went live never becomes the owner of its row again.
LEMMA OwnerShrinks ==
  ASSUME Base, SessionDoes
  PROVE  \A o \in Conns : Owner(o)' /\ St(o) # "connecting" => Owner(o) /\ Row(o)' = Row(o)
<1>s. Small
  BY SmallOK DEF Base
<1>b. Phases /\ HolderHasRow
  BY DEF Base
<1> USE DEF OthersSame, SameObj, SameStatus, SameHeld, SameGhosts, SameFaults, SessionObjs, Stays
<1>1. ASSUME NEW c \in Conns, AcOpens(c)
      PROVE  \A o \in Conns : Owner(o)' /\ St(o) # "connecting" => Owner(o) /\ Row(o)' = Row(o)
  BY <1>1, <1>s, <1>b DEF AcOpens, Small, Phases, Owner
<1>2. ASSUME NEW c \in Conns, Looks(c)
      PROVE  \A o \in Conns : Owner(o)' /\ St(o) # "connecting" => Owner(o) /\ Row(o)' = Row(o)
  BY <1>2, <1>s, <1>b DEF Looks, Small, Phases, Owner
<1>3. ASSUME NEW c \in Conns, Creates(c)
      PROVE  \A o \in Conns : Owner(o)' /\ St(o) # "connecting" => Owner(o) /\ Row(o)' = Row(o)
  BY <1>3, <1>s, <1>b DEF Creates, Small, Phases, Owner
<1>4. ASSUME NEW c \in Conns, NEW k \in BOOLEAN, Adopts(c, k)
      PROVE  \A o \in Conns : Owner(o)' /\ St(o) # "connecting" => Owner(o) /\ Row(o)' = Row(o)
  BY <1>4, <1>s, <1>b DEF Adopts, Small, Phases, Owner
<1>5. ASSUME NEW c \in Conns, AcCompletes(c)
      PROVE  \A o \in Conns : Owner(o)' /\ St(o) # "connecting" => Owner(o) /\ Row(o)' = Row(o)
  BY <1>5, <1>s, <1>b DEF AcCompletes, Small, Phases, Owner
<1>6. ASSUME NEW c \in Conns, GoesLive(c)
      PROVE  \A o \in Conns : Owner(o)' /\ St(o) # "connecting" => Owner(o) /\ Row(o)' = Row(o)
  BY <1>6, <1>s, <1>b DEF GoesLive, Small, Phases, Owner
<1>7. ASSUME NEW c \in Conns, Resumes(c)
      PROVE  \A o \in Conns : Owner(o)' /\ St(o) # "connecting" => Owner(o) /\ Row(o)' = Row(o)
  BY <1>7, <1>s, <1>b DEF Resumes, Small, Phases, Owner
<1>8. ASSUME NEW c \in Conns, Breaks(c)
      PROVE  \A o \in Conns : Owner(o)' /\ St(o) # "connecting" => Owner(o) /\ Row(o)' = Row(o)
  BY <1>8, <1>s, <1>b DEF Breaks, Small, Phases, Owner
<1>9. ASSUME NEW c \in Conns, Loses(c)
      PROVE  \A o \in Conns : Owner(o)' /\ St(o) # "connecting" => Owner(o) /\ Row(o)' = Row(o)
  BY <1>9, <1>s, <1>b DEF Loses, Small, Phases, Owner
<1>10. ASSUME NEW c \in Conns, Disconnects(c)
      PROVE  \A o \in Conns : Owner(o)' /\ St(o) # "connecting" => Owner(o) /\ Row(o)' = Row(o)
  BY <1>10, <1>s, <1>b DEF Disconnects, Small, Phases, Owner
<1>11. ASSUME SessionKept
      PROVE  \A o \in Conns : Owner(o)' /\ St(o) # "connecting" => Owner(o) /\ Row(o)' = Row(o)
  BY <1>11, <1>s, <1>b DEF SessionKept, Small, Phases, Owner
<1>12. ASSUME HolderDrops
      PROVE  \A o \in Conns : Owner(o)' /\ St(o) # "connecting" => Owner(o) /\ Row(o)' = Row(o)
  BY <1>12, <1>s, <1>b DEF HolderDrops, Small, Phases, Owner
<1>13. ASSUME Restarts
      PROVE  \A o \in Conns : Owner(o)' /\ St(o) # "connecting" => Owner(o) /\ Row(o)' = Row(o)
  BY <1>13, <1>s, <1>b DEF Restarts, Small, Phases, Owner
<1> QED BY <1>1, <1>2, <1>3, <1>4, <1>5, <1>6, <1>7, <1>8, <1>9, <1>10, <1>11, <1>12, <1>13 DEF
     SessionDoes

\* A resumed object continues below the one that served or held its row (continueFrom).
LEMMA KeepsCountersBelow ==
  ASSUME Base, HeldWhileMapped, FreshLog, RowsInOrder, CountersBelow, TypeOK', Does
  PROVE  CountersBelow'
<1>s. Small
  BY SmallOK DEF Base
<1>b. Phases /\ HolderHasRow /\ BusyTarget
  BY DEF Base
<1>n. Numeric /\ Numeric'
  BY NumericOK, NumericNext DEF Base
<1>o. /\ \A x, y \in Objects : Owner(x) /\ Owner(y) /\ Row(x) = Row(y) => x = y
      /\ \A r \in Rows, x \in Objects : Owner(x) /\ Row(x) = r /\ By(r) # NoConn => x = By(r)
  BY <1>s, OwnerUnique
<1> USE DEF OthersSame, SameObj, SameObjs, SameStatus, SameHeld, SameGhosts, SameFaults,
     SameReissue, SameSender, SameSenders, SameFrames, Stays
<1>1. ASSUME NEW c \in Conns, AcOpens(c)
      PROVE  CountersBelow'
  BY <1>1, <1>s, <1>b, <1>n DEF AcOpens, Small, Phases, HolderHasRow, Numeric, CountersBelow,
     Owner, LateId
<1>2. ASSUME NEW c \in Conns, Looks(c)
      PROVE  CountersBelow'
  BY <1>2, <1>s, <1>b, <1>n DEF Looks, Small, Phases, HolderHasRow, Numeric, CountersBelow, Owner,
     LateId
<1>3. ASSUME NEW c \in Conns, Creates(c)
      PROVE  CountersBelow'
  BY <1>3, <1>s, <1>b, <1>n DEF Creates, Small, Phases, HolderHasRow, Numeric, CountersBelow,
     Owner, LateId
<1>4. ASSUME NEW c \in Conns, NEW k \in BOOLEAN, Adopts(c, k)
      PROVE  CountersBelow'
  <2> SUFFICES ASSUME ~behind, NEW e \in log, NEW o \in Objects, Owner(o)', Row(o)' = e.row, ~LateId(e.id)
               PROVE  Sc(o)' <= e.id
    BY <1>4 DEF Adopts, CountersBelow, LateId
  <2>1. o = c /\ k /\ Row(o)' = Row(o)
    BY <1>4, <1>s DEF Adopts, Owner, Small
  <2>2. Res(c)
    BY <1>4, <2>1 DEF Adopts, FreshLog, Fresh
  <2>3. PICK x \in Objects : Owner(x) /\ Row(x) = Row(c) /\ Sc(c)' <= Sc(x)
    BY <1>4, <2>1, <2>2 DEF Adopts
  <2>4. Sc(x) <= e.id
    BY <2>1, <2>3 DEF CountersBelow
  <2>5. Sc(c)' \in Int /\ Sc(x) \in Int /\ e.id \in Int
    BY <1>n, <1>s DEF Numeric, Small
  <2> QED BY <2>1, <2>3, <2>4, <2>5
<1>5. ASSUME NEW c \in Conns, AcCompletes(c)
      PROVE  CountersBelow'
  BY <1>5, <1>s, <1>b, <1>n DEF AcCompletes, Small, Phases, HolderHasRow, Numeric, CountersBelow,
     Owner, LateId
<1>6. ASSUME NEW c \in Conns, GoesLive(c)
      PROVE  CountersBelow'
  BY <1>6, <1>s, <1>b, <1>n DEF GoesLive, Small, Phases, HolderHasRow, Numeric, CountersBelow,
     Owner, LateId
<1>7. ASSUME NEW c \in Conns, Resumes(c)
      PROVE  CountersBelow'
  BY <1>7, <1>s, <1>b, <1>n DEF Resumes, Small, Phases, HolderHasRow, Numeric, CountersBelow,
     Owner, LateId
<1>8. ASSUME NEW c \in Conns, Breaks(c)
      PROVE  CountersBelow'
  BY <1>8, <1>s, <1>b, <1>n DEF Breaks, Small, Phases, HolderHasRow, Numeric, CountersBelow,
     Owner, LateId
<1>9. ASSUME NEW c \in Conns, Loses(c)
      PROVE  CountersBelow'
  BY <1>9, <1>s, <1>b, <1>n DEF Loses, Small, Phases, HolderHasRow, Numeric, CountersBelow, Owner,
     LateId
<1>10. ASSUME NEW c \in Conns, Disconnects(c)
      PROVE  CountersBelow'
  BY <1>10, <1>s, <1>b, <1>n DEF Disconnects, Small, Phases, HolderHasRow, Numeric, CountersBelow,
     Owner, LateId
<1>11. ASSUME NEW c \in Conns, ReissueReads(c)
      PROVE  CountersBelow'
  BY <1>11, <1>s, <1>b, <1>n DEF ReissueReads, Small, Phases, HolderHasRow, Numeric,
     CountersBelow, Owner, LateId
<1>12. ASSUME NEW c \in Conns, Reissues(c)
      PROVE  CountersBelow'
  BY <1>12, <1>s, <1>b, <1>n DEF Reissues, Writes, Small, Phases, HolderHasRow, Numeric,
     CountersBelow, Owner, LateId
<1>13. ASSUME NEW c \in Conns, NEW f \in FrameType, Settles(c, f)
      PROVE  CountersBelow'
  <2>1. \A o \in Objects : Row(o)' = Row(o) /\ Sc(o)' = Sc(o) /\ (Owner(o)' => Owner(o))
    BY <1>13, <1>s DEF Settles, Stays, OthersSame, SameObj, SameHeld, Small, Owner
  <2>2. \A x \in log' : \E e \in log : x.row = e.row /\ x.id = e.id
    BY <1>13, SettlesLog DEF Base
  <2>3. late' = late /\ (behind' <=> behind)
    BY <1>13 DEF Settles, SameGhosts
  <2> QED BY <2>1, <2>2, <2>3 DEF CountersBelow, LateId
<1>14. ASSUME NEW m \in Msgs, FindsTargets(m)
      PROVE  CountersBelow'
  <2>1. late' = late /\ (behind' <=> behind) /\ mapped' = mapped
    BY <1>14 DEF FindsTargets
  <2>2. ASSUME NEW failed \in BOOLEAN, NEW r \in Rows, NEW o \in Objects, HolderRecords(r, o, m, failed)
        PROVE  CountersBelow'
    <3>1. By(r) = o /\ By(r) # NoConn
      BY <1>s, <2>2 DEF HolderRecords, Small
    <3>2. \A x \in Objects : Row(x)' = Row(x) /\ (x # o => Sc(x)' = Sc(x)) /\ (Owner(x)' => Owner(x))
      BY <2>1, <2>2, <1>s DEF HolderRecords, Stays, Small, Owner
    <3>3. \A x \in log' : x \in log \/ (x.row = r /\ x.id = Sc(o)')
      BY <2>2, EntryFields DEF HolderRecords
    <3>4. Sc(o)' <= Sc(o) /\ Sc(o)' \in Int
      BY <2>2, <1>n DEF HolderRecords, Numeric
    <3> SUFFICES ASSUME ~behind', NEW e \in log', NEW x \in Objects, Owner(x)', Row(x)' = e.row, ~LateId(e.id)'
                 PROVE  Sc(x)' <= e.id
      BY DEF CountersBelow
    <3>5. Owner(x) /\ Row(x) = e.row /\ ~LateId(e.id) /\ ~behind
      BY <2>1, <3>2 DEF LateId
    <3>6. CASE e \in log
      <4>1. Sc(x) <= e.id
        BY <3>5, <3>6 DEF CountersBelow
      <4> QED BY <3>2, <3>4, <3>6, <4>1, <1>n DEF Numeric
    <3>7. CASE e.row = r /\ e.id = Sc(o)'
      <4>1. x = o
        BY <1>o, <3>1, <3>5, <3>7
      <4> QED BY <3>4, <3>7, <4>1
    <3> QED BY <3>3, <3>6, <3>7
  <2>3. CASE SameObjs /\ SameHeld /\ log' = log
    BY <1>s, <2>1, <2>3 DEF CountersBelow, SameObjs, SameObj, SameHeld, Owner, LateId, Small
  <2> QED BY <1>14, <2>2, <2>3 DEF FindsTargets
<1>15. ASSUME NEW m \in Msgs, NEW c \in Conns, Issues(m, c)
      PROVE  CountersBelow'
  <2>1. \A x \in Objects : Row(x)' = Row(x) /\ Sc(x)' <= Sc(x) /\ (Owner(x)' => Owner(x))
    BY <1>15, <1>s, <1>n DEF Issues, Stays, OthersSame, SameObj, SameHeld, Small, Owner, Numeric
  <2>2. late' = late /\ (behind' <=> behind) /\ log' = log
    BY <1>15 DEF Issues, SameGhosts
  <2> QED BY <2>1, <2>2, <1>n DEF CountersBelow, LateId, Numeric
<1>16. ASSUME NEW m \in Msgs, NEW c \in Conns, Records(m, c)
      PROVE  CountersBelow'
  <2>l. log' = log \/ log' = log \cup {Entry(Row(c), Id(m), m)}
    BY <1>16 DEF Records
  <2>k. \A i : LateId(i) => LateId(i)'
    BY <1>16 DEF Records, LateId
  <2>i. PICK i : i = Id(m)
    OBVIOUS
  <2>m. log' # log => LateId(i)' \/ Owner(c)
    <3>1. CASE log' = log \cup {Entry(Row(c), Id(m), m)} /\ late' = late \cup {Entry(Row(c), Id(m), m)}
      BY <2>i, <3>1, EntryFields DEF LateId
    <3> QED BY <1>16, <3>1 DEF Records
  <2>1. \A x \in Objects : Row(x)' = Row(x) /\ Sc(x)' = Sc(x) /\ (Owner(x)' => Owner(x))
    BY <1>16, <1>s DEF Records, SameObjs, SameObj, SameHeld, Small, Owner
  <2>2. behind' <=> behind
    BY <1>16 DEF Records
  <2>3. Sc(c) <= Id(m) /\ c \in Objects
    BY <1>16, <1>b, <1>s DEF Records, BusyTarget, Busy, Sending, Small
  <2> SUFFICES ASSUME ~behind', NEW e \in log', NEW x \in Objects, Owner(x)', Row(x)' = e.row, ~LateId(e.id)'
               PROVE  Sc(x)' <= e.id
    BY DEF CountersBelow
  <2>4. Owner(x) /\ Row(x) = e.row /\ ~LateId(e.id) /\ ~behind
    BY <2>1, <2>2, <2>k
  <2>5. CASE e \in log
    BY <2>1, <2>4, <2>5 DEF CountersBelow
  <2>6. CASE log' # log /\ e.row = Row(c) /\ e.id = Id(m)
    <3>1. Owner(c)
      BY <2>i, <2>m, <2>6 DEF LateId
    <3>2. x = c
      BY <1>o, <2>3, <2>4, <2>6, <3>1
    <3> QED BY <2>1, <2>3, <2>6, <3>2
  <2> QED BY <2>5, <2>6, <2>l, EntryFields
<1>17. ASSUME NEW m \in Msgs, NEW c \in Conns, NEW id \in OpIds, Sends(m, c, id)
      PROVE  CountersBelow'
  BY <1>17, <1>s, <1>b, <1>n DEF Sends, Writes, Leaves, Small, Phases, HolderHasRow, Numeric,
     CountersBelow, Owner, LateId
<1>18. ASSUME Quiet
      PROVE  CountersBelow'
  BY <1>18, <1>s, <1>b, <1>n DEF Quiet, Small, Phases, HolderHasRow, Numeric, CountersBelow,
     Owner, LateId
<1>19. ASSUME Restarts
      PROVE  CountersBelow'
  <2> SUFFICES ASSUME ~behind', NEW e \in log, NEW x \in Objects, Owner(x)', Row(x)' = e.row
               PROVE  Sc(x)' <= e.id
    BY <1>19 DEF CountersBelow, Restarts
  <2>1. PICK r \in Rows : Row(x)' = r /\ By(r)' = x
    BY <1>19 DEF Restarts, Owner
  <2>2. CanResume(r) /\ x = BootObject
    BY <1>19, <1>s, <2>1 DEF Restarts, Small
  <2>3. Row(BootObject)' = r /\ Sc(BootObject)' = rows[r].sc
    BY <1>19, <2>2, RowsUnique DEF Restarts
  <2>4. ~(e.id < rows[e.row].sc)
    BY <1>19 DEF Restarts
  <2>5. e.id \in Int /\ Sc(x)' \in Int
    BY <1>n DEF Numeric
  <2> QED BY <2>1, <2>2, <2>3, <2>4, <2>5
<1> QED BY <1>1, <1>2, <1>3, <1>4, <1>5, <1>6, <1>7, <1>8, <1>9, <1>10, <1>11, <1>12, <1>13,
     <1>14, <1>15, <1>16, <1>17, <1>18, <1>19 DEF Does

\* The id an owner issues is below all on record, and no one else records for its row.
LEMMA KeepsIssuedUnused ==
  ASSUME Base, HeldWhileMapped, ReissueGate, SendGate, CountersBelow, IssuedUnused, TypeOK', Does
  PROVE  IssuedUnused'
<1>s. Small
  BY SmallOK DEF Base
<1>b. Phases /\ HolderHasRow /\ BusyTarget
  BY DEF Base
<1>n. Numeric /\ Numeric'
  BY NumericOK, NumericNext DEF Base
<1>o. /\ \A x, y \in Objects : Owner(x) /\ Owner(y) /\ Row(x) = Row(y) => x = y
      /\ \A r \in Rows, x \in Objects : Owner(x) /\ Row(x) = r /\ By(r) # NoConn => x = By(r)
  BY <1>s, OwnerUnique
<1>d. \A o \in Conns : Owner(o)' /\ St(o) # "connecting" => Owner(o) /\ Row(o)' = Row(o)
  <2>1. SessionDoes
    BY SessionSteps
  <2> QED BY <2>1, OwnerShrinks
<1> USE DEF OthersSame, SameObj, SameObjs, SameStatus, SameHeld, SameGhosts, SameFaults,
     SameReissue, SameSender, SameSenders, SameFrames, Stays
<1>1. ASSUME NEW c \in Conns, AcOpens(c)
      PROVE  IssuedUnused'
  BY <1>1, <1>s, <1>b, <1>n, <1>d DEF AcOpens, Small, BusyTarget, Busy, Sending, Numeric,
     IssuedUnused, LateId
<1>2. ASSUME NEW c \in Conns, Looks(c)
      PROVE  IssuedUnused'
  BY <1>2, <1>s, <1>b, <1>n, <1>d DEF Looks, Small, BusyTarget, Busy, Sending, Numeric,
     IssuedUnused, LateId
<1>3. ASSUME NEW c \in Conns, Creates(c)
      PROVE  IssuedUnused'
  BY <1>3, <1>s, <1>b, <1>n, <1>d DEF Creates, Small, BusyTarget, Busy, Sending, Numeric,
     IssuedUnused, LateId
<1>4. ASSUME NEW c \in Conns, NEW k \in BOOLEAN, Adopts(c, k)
      PROVE  IssuedUnused'
  BY <1>4, <1>s, <1>b, <1>n, <1>d DEF Adopts, Small, BusyTarget, Busy, Sending, Numeric,
     IssuedUnused, LateId
<1>5. ASSUME NEW c \in Conns, AcCompletes(c)
      PROVE  IssuedUnused'
  BY <1>5, <1>s, <1>b, <1>n, <1>d DEF AcCompletes, Small, BusyTarget, Busy, Sending, Numeric,
     IssuedUnused, LateId
<1>6. ASSUME NEW c \in Conns, GoesLive(c)
      PROVE  IssuedUnused'
  BY <1>6, <1>s, <1>b, <1>n, <1>d DEF GoesLive, Small, BusyTarget, Busy, Sending, Numeric,
     IssuedUnused, LateId
<1>7. ASSUME NEW c \in Conns, Resumes(c)
      PROVE  IssuedUnused'
  BY <1>7, <1>s, <1>b, <1>n, <1>d DEF Resumes, Small, BusyTarget, Busy, Sending, Numeric,
     IssuedUnused, LateId
<1>8. ASSUME NEW c \in Conns, Breaks(c)
      PROVE  IssuedUnused'
  BY <1>8, <1>s, <1>b, <1>n, <1>d DEF Breaks, Small, BusyTarget, Busy, Sending, Numeric,
     IssuedUnused, LateId
<1>9. ASSUME NEW c \in Conns, Loses(c)
      PROVE  IssuedUnused'
  BY <1>9, <1>s, <1>b, <1>n, <1>d DEF Loses, Small, BusyTarget, Busy, Sending, Numeric,
     IssuedUnused, LateId
<1>10. ASSUME NEW c \in Conns, Disconnects(c)
      PROVE  IssuedUnused'
  BY <1>10, <1>s, <1>b, <1>n, <1>d DEF Disconnects, Small, BusyTarget, Busy, Sending, Numeric,
     IssuedUnused, LateId
<1>11. ASSUME NEW c \in Conns, ReissueReads(c)
      PROVE  IssuedUnused'
  BY <1>11, <1>s, <1>b, <1>n, <1>d DEF ReissueReads, Small, BusyTarget, Busy, Sending, Numeric,
     IssuedUnused, LateId
<1>12. ASSUME NEW c \in Conns, Reissues(c)
      PROVE  IssuedUnused'
  BY <1>12, <1>s, <1>b, <1>n, <1>d DEF Reissues, Writes, Small, BusyTarget, Busy, Sending,
     Numeric, IssuedUnused, LateId
<1>13. ASSUME NEW c \in Conns, NEW f \in FrameType, Settles(c, f)
      PROVE  IssuedUnused'
  <2>1. \A x \in log' : \E e \in log : x.row = e.row /\ x.id = e.id
    BY <1>13, SettlesLog DEF Base
  <2>2. late' = late /\ (behind' <=> behind) /\ SameSenders
    BY <1>13 DEF Settles, SameGhosts
  <2> QED BY <1>b, <1>d, <2>1, <2>2 DEF IssuedUnused, LateId, SameSenders, SameSender, BusyTarget, Busy, Sending
<1>14. ASSUME NEW m \in Msgs, FindsTargets(m)
      PROVE  IssuedUnused'
  <2>1. late' = late /\ (behind' <=> behind) /\ At(m)' # "issued" /\ \A n \in Msgs : n # m => SameSender(n)
    BY <1>14 DEF FindsTargets
  <2> SUFFICES ASSUME ~behind', NEW n \in Msgs, At(n)' = "issued", Owner(To(n))',
                      NEW e \in log', e.row = Row(To(n))', ~LateId(e.id)'
               PROVE  e.id # Id(n)'
    BY DEF IssuedUnused
  <2>2. At(n) = "issued" /\ To(n)' = To(n) /\ Id(n)' = Id(n) /\ ~LateId(e.id) /\ ~behind
    BY <2>1 DEF SameSender, LateId
  <2>c. PICK c : c = To(n)
    OBVIOUS
  <2>3. c \in Conns /\ c \in Objects /\ St(c) # "connecting" /\ Sc(c) <= Id(n)
    BY <1>b, <1>s, <2>2, <2>c DEF BusyTarget, Busy, Sending, Small
  <2>4. Owner(c)' <=> Owner(To(n))'
    BY <2>2, <2>c DEF Owner, Row, By
  <2>5. Row(c)' = Row(To(n))'
    BY <2>2, <2>c DEF Row
  <2>6. Owner(c) /\ Row(c) = e.row
    BY <1>d, <2>3, <2>4, <2>5
  <2>7. CASE e \in log
    BY <2>2, <2>6, <2>7, <2>c DEF IssuedUnused
  <2>8. ASSUME NEW failed \in BOOLEAN, NEW r \in Rows, NEW o \in Objects, HolderRecords(r, o, m, failed), e \notin log
        PROVE  e.id # Id(n)'
    <3>1. By(r) = o /\ By(r) # NoConn
      BY <1>s, <2>8 DEF HolderRecords, Small
    <3>2. e.row = r /\ e.id = Sc(o) - 1
      BY <2>8, EntryFields DEF HolderRecords
    <3>3. c = o
      BY <1>o, <2>3, <2>6, <3>1, <3>2
    <3> QED BY <1>n, <2>2, <2>3, <2>c, <3>2, <3>3 DEF Numeric
  <2> QED BY <1>14, <2>7, <2>8 DEF FindsTargets
<1>15. ASSUME NEW m \in Msgs, NEW c \in Conns, Issues(m, c)
      PROVE  IssuedUnused'
  <2>1. \A n \in Msgs : n # m => SameSender(n)
    BY <1>15 DEF Issues
  <2>2. late' = late /\ (behind' <=> behind) /\ log' = log /\ To(m)' = c /\ Id(m)' = Sc(c) - 1
    BY <1>15 DEF Issues, SameGhosts
  <2>3. ASSUME ~behind, Owner(c)', NEW e \in log, e.row = Row(c)', ~LateId(e.id) PROVE e.id # Sc(c) - 1
    <3>1. Owner(c) /\ Row(c)' = Row(c) /\ c \in Objects
      BY <1>15, <1>b, <1>d, <1>s, <2>3 DEF Issues, BusyTarget, Busy, Small
    <3>2. Sc(c) <= e.id
      BY <2>3, <3>1 DEF CountersBelow
    <3> QED BY <1>n, <3>1, <3>2 DEF Numeric
  <2> SUFFICES ASSUME ~behind', NEW n \in Msgs, At(n)' = "issued", Owner(To(n))',
                      NEW e \in log', e.row = Row(To(n))', ~LateId(e.id)'
               PROVE  e.id # Id(n)'
    BY DEF IssuedUnused
  <2>4. e \in log /\ ~LateId(e.id) /\ ~behind
    BY <2>2 DEF LateId
  <2>5. CASE n = m
    <3>1. Owner(c)' /\ e.row = Row(c)'
      BY <2>2, <2>5 DEF Owner, Row, By
    <3> QED BY <2>2, <2>3, <2>4, <2>5, <3>1
  <2>6. CASE n # m
    <3>1. At(n) = "issued" /\ To(n)' = To(n) /\ Id(n)' = Id(n)
      BY <2>1, <2>6 DEF SameSender
    <3>2. Owner(To(n)) /\ Row(To(n)) = e.row
      <4>d. PICK d : d = To(n)
        OBVIOUS
      <4>1. d \in Conns /\ St(d) # "connecting"
        BY <1>b, <3>1, <4>d DEF BusyTarget, Busy, Sending
      <4>2. Owner(d)' /\ Row(d)' = e.row
        BY <3>1, <4>d DEF Owner, Row, By
      <4> QED BY <1>d, <4>1, <4>2, <4>d
    <3> QED BY <2>4, <3>1, <3>2 DEF IssuedUnused
  <2> QED BY <2>5, <2>6
<1>16. ASSUME NEW m \in Msgs, NEW c \in Conns, Records(m, c)
      PROVE  IssuedUnused'
  <2>l. log' = log \/ log' = log \cup {Entry(Row(c), Id(m), m)}
    BY <1>16 DEF Records
  <2>k. \A i : LateId(i) => LateId(i)'
    BY <1>16 DEF Records, LateId
  <2>i. PICK i : i = Id(m)
    OBVIOUS
  <2>m. log' # log => LateId(i)' \/ Owner(c)
    <3>1. CASE log' = log \cup {Entry(Row(c), Id(m), m)} /\ late' = late \cup {Entry(Row(c), Id(m), m)}
      BY <2>i, <3>1, EntryFields DEF LateId
    <3> QED BY <1>16, <3>1 DEF Records
  <2>1. \A x \in Objects : Row(x)' = Row(x) /\ (Owner(x)' => Owner(x))
    BY <1>16, <1>s DEF Records, SameObjs, SameObj, SameHeld, Small, Owner
  <2>2. (behind' <=> behind) /\ (\A n \in Msgs : n # m => SameSender(n)) /\ At(m)' # "issued"
    BY <1>16 DEF Records, Leaves
  <2>3. c \in Objects
    BY <1>16, <1>s DEF Small
  <2> SUFFICES ASSUME ~behind', NEW n \in Msgs, At(n)' = "issued", Owner(To(n))',
                      NEW e \in log', e.row = Row(To(n))', ~LateId(e.id)'
               PROVE  e.id # Id(n)'
    BY DEF IssuedUnused
  <2>d. PICK d : d = To(n)
    OBVIOUS
  <2>4. n # m /\ At(n) = "issued" /\ To(n)' = d /\ Id(n)' = Id(n) /\ ~LateId(e.id) /\ ~behind
    BY <2>2, <2>d, <2>k DEF SameSender
  <2>5. d \in Conns /\ d \in Objects
    BY <1>b, <1>s, <2>4, <2>d DEF BusyTarget, Busy, Sending, Small
  <2>6. Owner(d)' /\ Row(d)' = e.row
    BY <2>4, <2>d DEF Owner, Row, By
  <2>7. Owner(d) /\ Row(d) = e.row
    BY <2>1, <2>5, <2>6
  <2>8. CASE e \in log
    BY <2>4, <2>7, <2>8, <2>d DEF IssuedUnused
  <2>9. CASE log' # log /\ e.row = Row(c) /\ e.id = Id(m)
    <3>1. Owner(c)
      BY <2>i, <2>m, <2>9 DEF LateId
    <3>2. d = c
      BY <1>o, <2>3, <2>5, <2>7, <2>9, <3>1
    <3> QED BY <1>16, <2>4, <2>d, <3>2 DEF Records, SendGate, Sending
  <2> QED BY <2>8, <2>9, <2>l, EntryFields
<1>17. ASSUME NEW m \in Msgs, NEW c \in Conns, NEW id \in OpIds, Sends(m, c, id)
      PROVE  IssuedUnused'
  BY <1>17, <1>s, <1>b, <1>n, <1>d DEF Sends, Writes, Leaves, Small, BusyTarget, Busy, Sending,
     Numeric, IssuedUnused, LateId
<1>18. ASSUME Quiet
      PROVE  IssuedUnused'
  BY <1>18, <1>s, <1>b, <1>n, <1>d DEF Quiet, Small, BusyTarget, Busy, Sending, Numeric,
     IssuedUnused, LateId
<1>19. ASSUME Restarts
      PROVE  IssuedUnused'
  BY <1>19, <1>s, <1>b, <1>n, <1>d DEF Restarts, Small, BusyTarget, Busy, Sending, Numeric,
     IssuedUnused, LateId
<1> QED BY <1>1, <1>2, <1>3, <1>4, <1>5, <1>6, <1>7, <1>8, <1>9, <1>10, <1>11, <1>12, <1>13,
     <1>14, <1>15, <1>16, <1>17, <1>18, <1>19 DEF Does

\* A new record of an owner has a new id.
LEMMA KeepsIdsOnce ==
  ASSUME Base, HeldWhileMapped, CountersBelow, IssuedUnused, IdsOnce, TypeOK', Does
  PROVE  IdsOnce'
<1>s. Small
  BY SmallOK DEF Base
<1>b. Phases /\ HolderHasRow /\ BusyTarget
  BY DEF Base
<1>n. Numeric /\ Numeric'
  BY NumericOK, NumericNext DEF Base
<1> USE DEF OthersSame, SameObj, SameObjs, SameStatus, SameHeld, SameGhosts, SameFaults,
     SameReissue, SameSender, SameSenders, SameFrames, Stays
<1>1. ASSUME NEW c \in Conns, AcOpens(c)
      PROVE  IdsOnce'
  BY <1>1, <1>s, <1>n DEF AcOpens, IdsOnce, LateId
<1>2. ASSUME NEW c \in Conns, Looks(c)
      PROVE  IdsOnce'
  BY <1>2, <1>s, <1>n DEF Looks, IdsOnce, LateId
<1>3. ASSUME NEW c \in Conns, Creates(c)
      PROVE  IdsOnce'
  BY <1>3, <1>s, <1>n DEF Creates, IdsOnce, LateId
<1>4. ASSUME NEW c \in Conns, NEW k \in BOOLEAN, Adopts(c, k)
      PROVE  IdsOnce'
  BY <1>4, <1>s, <1>n DEF Adopts, IdsOnce, LateId
<1>5. ASSUME NEW c \in Conns, AcCompletes(c)
      PROVE  IdsOnce'
  BY <1>5, <1>s, <1>n DEF AcCompletes, IdsOnce, LateId
<1>6. ASSUME NEW c \in Conns, GoesLive(c)
      PROVE  IdsOnce'
  BY <1>6, <1>s, <1>n DEF GoesLive, IdsOnce, LateId
<1>7. ASSUME NEW c \in Conns, Resumes(c)
      PROVE  IdsOnce'
  BY <1>7, <1>s, <1>n DEF Resumes, IdsOnce, LateId
<1>8. ASSUME NEW c \in Conns, Breaks(c)
      PROVE  IdsOnce'
  BY <1>8, <1>s, <1>n DEF Breaks, IdsOnce, LateId
<1>9. ASSUME NEW c \in Conns, Loses(c)
      PROVE  IdsOnce'
  BY <1>9, <1>s, <1>n DEF Loses, IdsOnce, LateId
<1>10. ASSUME NEW c \in Conns, Disconnects(c)
      PROVE  IdsOnce'
  BY <1>10, <1>s, <1>n DEF Disconnects, IdsOnce, LateId
<1>11. ASSUME NEW c \in Conns, ReissueReads(c)
      PROVE  IdsOnce'
  BY <1>11, <1>s, <1>n DEF ReissueReads, IdsOnce, LateId
<1>12. ASSUME NEW c \in Conns, Reissues(c)
      PROVE  IdsOnce'
  BY <1>12, <1>s, <1>n DEF Reissues, Writes, IdsOnce, LateId
<1>13. ASSUME NEW c \in Conns, NEW f \in FrameType, Settles(c, f)
      PROVE  IdsOnce'
  <2>2. late' = late /\ (behind' <=> behind)
    BY <1>13 DEF Settles, SameGhosts
  <2>3. CASE log' = log
    BY <2>2, <2>3 DEF IdsOnce, LateId
  <2>4. CASE log' = Completed(Row(c), f.id)
    <3> SUFFICES ASSUME ~behind, NEW x \in log', NEW y \in log', x.row = y.row, x.id = y.id, ~LateId(x.id)
                 PROVE  x = y
      BY <2>2 DEF IdsOnce, LateId
    <3>1. PICK e \in log :
             /\ x.row = e.row /\ x.id = e.id
             /\ IF e.row = Row(c) /\ e.id = f.id THEN x.done /\ x = [e EXCEPT !.done = TRUE] ELSE x = e
      BY <2>4, CompletedFields DEF Base
    <3>2. PICK g \in log :
             /\ y.row = g.row /\ y.id = g.id
             /\ IF g.row = Row(c) /\ g.id = f.id THEN y.done /\ y = [g EXCEPT !.done = TRUE] ELSE y = g
      BY <2>4, CompletedFields DEF Base
    <3>3. e = g
      BY <3>1, <3>2 DEF IdsOnce
    <3>4. CASE e.row = Row(c) /\ e.id = f.id
      <4>1. x = [e EXCEPT !.done = TRUE] /\ y = [g EXCEPT !.done = TRUE]
        BY <3>1, <3>2, <3>3, <3>4
      <4> QED BY <3>3, <4>1
    <3>5. CASE ~(e.row = Row(c) /\ e.id = f.id)
      <4>1. x = e /\ y = g
        BY <3>1, <3>2, <3>3, <3>5
      <4> QED BY <3>3, <4>1
    <3> QED BY <3>4, <3>5
  <2> QED BY <1>13, <2>3, <2>4 DEF Settles
<1>14. ASSUME NEW m \in Msgs, FindsTargets(m)
      PROVE  IdsOnce'
  <2>1. late' = late /\ (behind' <=> behind)
    BY <1>14 DEF FindsTargets
  <2>2. ASSUME NEW failed \in BOOLEAN, NEW r \in Rows, NEW o \in Objects, HolderRecords(r, o, m, failed) PROVE IdsOnce'
    <3>1. Owner(o) /\ Row(o) = r
      BY <1>s, <1>b, <2>2 DEF HolderRecords, Small, HolderHasRow, Owner
    <3>2. CASE log' = log
      BY <2>1, <3>2 DEF IdsOnce, LateId
    <3>3. CASE log' = log \cup {Entry(r, Sc(o) - 1, m)}
      <4> DEFINE n == Entry(r, Sc(o) - 1, m)
      <4>1. n.row = r /\ n.id = Sc(o) - 1
        BY EntryFields
      <4> HIDE DEF n
      <4>2. ~behind => \A e \in log : e.row = r /\ ~LateId(e.id) => e.id # n.id
        BY <3>1, <4>1, <1>n DEF CountersBelow, Numeric
      <4> QED BY <2>1, <3>3, <4>1, <4>2 DEF IdsOnce, LateId, n
    <3> QED BY <2>2, <3>2, <3>3 DEF HolderRecords
  <2> QED BY <1>14, <2>1, <2>2 DEF FindsTargets, IdsOnce, LateId
<1>15. ASSUME NEW m \in Msgs, NEW c \in Conns, Issues(m, c)
      PROVE  IdsOnce'
  BY <1>15, <1>s, <1>n DEF Issues, IdsOnce, LateId
<1>16. ASSUME NEW m \in Msgs, NEW c \in Conns, Records(m, c)
      PROVE  IdsOnce'
  <2>l. log' = log \/ log' = log \cup {Entry(Row(c), Id(m), m)}
    BY <1>16 DEF Records
  <2>k. \A i : LateId(i) => LateId(i)'
    BY <1>16 DEF Records, LateId
  <2>i. PICK i : i = Id(m)
    OBVIOUS
  <2>m. log' # log => LateId(i)' \/ Owner(c)
    <3>1. CASE log' = log \cup {Entry(Row(c), Id(m), m)} /\ late' = late \cup {Entry(Row(c), Id(m), m)}
      BY <2>i, <3>1, EntryFields DEF LateId
    <3> QED BY <1>16, <3>1 DEF Records
  <2>2. behind' <=> behind
    BY <1>16 DEF Records
  <2>3. CASE log' = log
    BY <2>2, <2>3, <2>k DEF IdsOnce
  <2>4. CASE log' # log
    <3> DEFINE n == Entry(Row(c), Id(m), m)
    <3>1. n.row = Row(c) /\ n.id = Id(m) /\ log' = log \cup {n}
      BY <2>4, <2>l, EntryFields
    <3> HIDE DEF n
    <3>2. ASSUME ~behind, ~LateId(i)', NEW e \in log, e.row = Row(c) PROVE e.id # i
      <4>1. Owner(c) /\ ~LateId(i)
        BY <2>4, <2>k, <2>m, <3>2
      <4>2. At(m) = "issued" /\ To(m) = c
        BY <1>16 DEF Records
      <4> QED BY <2>i, <3>2, <4>1, <4>2 DEF IssuedUnused
    <3> SUFFICES ASSUME ~behind, NEW x \in log', NEW y \in log', x.row = y.row, x.id = y.id, ~LateId(x.id)'
                 PROVE  x = y
      BY <2>2 DEF IdsOnce
    <3>3. ~LateId(x.id)
      BY <2>k
    <3>4. x.id = i => ~LateId(i)'
      BY DEF LateId
    <3> QED BY <2>i, <3>1, <3>2, <3>3, <3>4 DEF IdsOnce
  <2> QED BY <2>3, <2>4
<1>17. ASSUME NEW m \in Msgs, NEW c \in Conns, NEW id \in OpIds, Sends(m, c, id)
      PROVE  IdsOnce'
  BY <1>17, <1>s, <1>n DEF Sends, Writes, Leaves, IdsOnce, LateId
<1>18. ASSUME Quiet
      PROVE  IdsOnce'
  BY <1>18, <1>s, <1>n DEF Quiet, IdsOnce, LateId
<1>19. ASSUME Restarts
      PROVE  IdsOnce'
  BY <1>19, <1>s, <1>n DEF Restarts, IdsOnce, LateId
<1> QED BY <1>1, <1>2, <1>3, <1>4, <1>5, <1>6, <1>7, <1>8, <1>9, <1>10, <1>11, <1>12, <1>13,
     <1>14, <1>15, <1>16, <1>17, <1>18, <1>19 DEF Does


-----------------------------------------------------------------------------
(* The frames of a connection.                                             *)

\* The ids of the frames written to a connection.
FrameIds(c) == {Frames(c)[i].id : i \in DOMAIN Frames(c)}

\* No operation was recorded late and no restart found the counter behind.
Fine == late = {} /\ ~behind

\* Nothing is written before the reissue.
NoEarlyFrame ==
  \A c \in Conns :
    \/ Pc(c) \in {"unused", "looking", "creating", "adopting", "answered", "completing", "resuming"}
    \/ Step(c) = "read"
    => Frames(c) = <<>>

\* An open connection has written nothing below its counter.
FramesAboveCounter == Fine => \A c \in Conns : Up(c) => \A i \in FrameIds(c) : i >= Sc(c)

\* What is issued on an open connection is below what was written to it.
FramesAboveIssued ==
  Fine => \A m \in Msgs, c \in Conns : Sending(m) /\ To(m) = c /\ Up(c) => \A i \in FrameIds(c) : i > Id(m)

\* What is left to reissue has different ids, below what was written.
FramesAboveTodo ==
  Fine => \A c \in Conns : Up(c) => \A e \in Todo(c) :
    /\ e.id >= Sc(c) /\ \A i \in FrameIds(c) : i > e.id
    /\ \A f \in Todo(c) : e.id = f.id => e = f

Decrements ==
  Fine => \A c \in Conns : \A i, j \in DOMAIN Frames(c) : i < j => Frames(c)[j].id < Frames(c)[i].id

\* Frame ids are integers, and what is left to reissue names ids and messages.
LEMMA FrameFacts ==
  ASSUME TypeOK
  PROVE  \A c \in Conns : /\ FrameIds(c) \subseteq Int /\ (Frames(c) = <<>> => FrameIds(c) = {})
                          /\ \A e \in Todo(c) : e.id \in OpIds /\ e.msg \in Msgs
<1> SUFFICES ASSUME NEW c \in Conns
             PROVE  /\ FrameIds(c) \subseteq Int /\ (Frames(c) = <<>> => FrameIds(c) = {})
                    /\ \A e \in Todo(c) : e.id \in OpIds /\ e.msg \in Msgs
  OBVIOUS
<1>1. Frames(c) \in Seq(FrameType) /\ Todo(c) \subseteq EntryType
  BY FieldsOK DEF Fields
<1>2. \A i \in DOMAIN Frames(c) : Frames(c)[i] \in FrameType
  BY <1>1
<1>3. \A f \in FrameType : f.id \in Int
  BY Numbers DEF FrameType
<1>4. \A e \in EntryType : e.id \in OpIds /\ e.msg \in Msgs
  BY DEF EntryType
<1>5. Frames(c) = <<>> => FrameIds(c) = {}
  BY DEF FrameIds
<1> QED BY <1>1, <1>2, <1>3, <1>4, <1>5 DEF FrameIds

\* A frame is written last.
LEMMA AppendedFrame ==
  ASSUME NEW s \in Seq(FrameType), NEW x \in FrameType
  PROVE  /\ DOMAIN s = 1..Len(s) /\ Len(s) \in Nat
         /\ DOMAIN Append(s, x) = 1..(Len(s) + 1)
         /\ \A i \in 1..Len(s) : Append(s, x)[i] = s[i]
         /\ Append(s, x)[Len(s) + 1] = x
OBVIOUS

\* A frame below all others keeps the ids decrementing.
LEMMA WrittenIds ==
  ASSUME TypeOK, NEW c \in Conns, NEW id \in OpIds, NEW m \in Msgs, Writes(c, id, m)
  PROVE  /\ ~Up(c) => Frames(c)' = Frames(c)
         /\ Up(c) => \A i \in FrameIds(c)' : i \in FrameIds(c) \/ i = id
         /\ Up(c) /\ (\A i \in FrameIds(c) : i > id)
            /\ (\A i, j \in DOMAIN Frames(c) : i < j => Frames(c)[j].id < Frames(c)[i].id)
            => (\A i, j \in DOMAIN Frames(c) : i < j => Frames(c)[j].id < Frames(c)[i].id)'
<1> DEFINE s == Frames(c)
           x == [id |-> id, msg |-> m]
<1>1. s \in Seq(FrameType)
  BY FieldsOK DEF Fields
<1>2. x \in FrameType /\ x.id = id
  BY DEF FrameType
<1>3. ~Up(c) => Frames(c)' = s
  BY DEF Writes
<1>4. ASSUME Up(c) PROVE Frames(c)' = Append(s, x)
  BY <1>4 DEF Writes
<1>5. PICK t : t = Append(s, x)
  OBVIOUS
<1>6. PICK n \in Nat : n = Len(s)
  BY <1>1
<1>7. /\ DOMAIN s = 1..n /\ DOMAIN t = 1..(n + 1)
      /\ \A i \in 1..n : t[i] = s[i]
      /\ t[n + 1].id = id
  BY <1>1, <1>2, <1>5, <1>6, AppendedFrame
<1>8. ASSUME Up(c), NEW i \in FrameIds(c)' PROVE i \in FrameIds(c) \/ i = id
  <2>1. PICK k \in DOMAIN t : i = t[k].id
    BY <1>4, <1>5, <1>8 DEF FrameIds
  <2>2. k = n + 1 \/ k \in 1..n
    BY <1>7, <2>1
  <2>3. CASE k \in 1..n
    BY <1>7, <2>1, <2>3 DEF FrameIds
  <2> QED BY <1>7, <2>1, <2>2, <2>3
<1>9. ASSUME Up(c), \A i \in FrameIds(c) : i > id,
             \A i, j \in DOMAIN s : i < j => s[j].id < s[i].id
      PROVE  (\A i, j \in DOMAIN Frames(c) : i < j => Frames(c)[j].id < Frames(c)[i].id)'
  <2>1. Frames(c)' = t
    BY <1>4, <1>5, <1>9
  <2>2. ASSUME NEW i \in DOMAIN t, NEW j \in DOMAIN t, i < j PROVE t[j].id < t[i].id
    <3>1. i \in 1..n
      BY <1>7, <2>2
    <3>2. CASE j \in 1..n
      BY <1>7, <1>9, <2>2, <3>1, <3>2
    <3>3. CASE j = n + 1
      <4>1. s[i].id \in FrameIds(c)
        BY <1>7, <3>1 DEF FrameIds
      <4>2. s[i].id > id
        BY <1>9, <4>1
      <4>3. id \in Int /\ s[i].id \in Int
        BY <4>1, FrameFacts, Numbers
      <4> QED BY <1>7, <3>1, <3>3, <4>2, <4>3
    <3> QED BY <1>7, <2>2, <3>2, <3>3
  <2> QED BY <2>1, <2>2
<1> QED BY <1>3, <1>8, <1>9

\* What a reissue and a send do to the frames and what they depend on.
FramesReissued(c) ==
  /\ \A d \in Conns : /\ (Up(d)' <=> Up(d)) /\ Sc(d)' = Sc(d)
                      /\ d # c => Frames(d)' = Frames(d) /\ Todo(d)' = Todo(d)
  /\ (Fine' <=> Fine) /\ SameSenders
FramesSent(m, c, id) ==
  /\ \A d \in Conns : /\ (Up(d)' <=> Up(d)) /\ Sc(d)' = Sc(d) /\ Todo(d)' = Todo(d)
                      /\ d # c => Frames(d)' = Frames(d)
  /\ (Fine' <=> Fine) /\ (\A n \in Msgs : n # m => SameSender(n)) /\ ~Sending(m)'
  /\ Sending(m) /\ To(m) = c /\ Id(m) = id /\ Writes(c, id, m) /\ Todo(c) = {} /\ Sc(c) <= id

\* A reissue writes the operation with the largest id that is left.
LEMMA ReissuesFrames ==
  ASSUME Base, NEW c \in Conns, Reissues(c)
  PROVE  /\ FramesReissued(c)
         /\ \/ Todo(c) = {} /\ Todo(c)' = {} /\ Frames(c)' = Frames(c)
            \/ \E e \in Todo(c) : /\ \A f \in Todo(c) : e.id >= f.id
                                  /\ Writes(c, e.id, e.msg) /\ Todo(c)' = Todo(c) \ {e}
<1>s. Small
  BY SmallOK DEF Base
<1>1. \A d \in Conns : /\ (Up(d)' <=> Up(d)) /\ Sc(d)' = Sc(d)
                       /\ d # c => Frames(d)' = Frames(d) /\ Todo(d)' = Todo(d)
  BY <1>s DEF Reissues, Stays, OthersSame, SameObj, Small
<1>2. (Fine' <=> Fine) /\ SameSenders
  BY DEF Reissues, SameGhosts, Fine
<1>3. CASE Todo(c) = {} /\ Frames(c)' = Frames(c) /\ Step(c)' = "none"
  BY <1>1, <1>2, <1>3 DEF Reissues, FramesReissued
<1>4. ASSUME NEW e \in Todo(c), \A f \in Todo(c) : e.id >= f.id, Writes(c, e.id, e.msg),
             \/ Todo(c) = {e} /\ Step(c)' = "none"
             \/ Step(c)' = "send" /\ Todo(c)' = Todo(c) \ {e}
      PROVE  \E x \in Todo(c) : /\ \A f \in Todo(c) : x.id >= f.id
                                /\ Writes(c, x.id, x.msg) /\ Todo(c)' = Todo(c) \ {x}
  <2>1. CASE Todo(c) = {e} /\ Step(c)' = "none"
    <3>1. Todo(c)' = {}
      BY <2>1 DEF Reissues
    <3>2. Todo(c)' = Todo(c) \ {e}
      BY <2>1, <3>1
    <3> QED BY <1>4, <3>2
  <2> QED BY <1>4, <2>1
<1> QED BY <1>1, <1>2, <1>3, <1>4 DEF Reissues, FramesReissued

\* A send writes its own id, on a session with nothing left to reissue.
LEMMA SendsFrames ==
  ASSUME Base, ReissueGate, SendGate, NEW m \in Msgs, NEW c \in Conns, NEW id \in OpIds, Sends(m, c, id)
  PROVE  FramesSent(m, c, id)
<1>s. Small
  BY SmallOK DEF Base
<1>1. \A d \in Conns : /\ (Up(d)' <=> Up(d)) /\ Sc(d)' = Sc(d) /\ Todo(d)' = Todo(d)
                       /\ d # c => Frames(d)' = Frames(d)
  BY <1>s DEF Sends, Stays, OthersSame, SameObj, SameReissue, Small
<1>2. (Fine' <=> Fine) /\ (\A n \in Msgs : n # m => SameSender(n)) /\ ~Sending(m)'
  BY DEF Sends, Leaves, Fine, Sending
<1>3. Sending(m) /\ To(m) = c /\ Id(m) = id /\ Writes(c, id, m) /\ Sc(c) <= id
  BY DEF Sends, Sending, Base, BusyTarget
<1>4. gate[c] = "send"
  BY <1>3 DEF SendGate
<1>5. Todo(c) = {}
  BY <1>4 DEF ReissueGate
<1> QED BY <1>1, <1>2, <1>3, <1>5 DEF FramesSent

\* Only the reissue, and the broadcasts after it, write to a connection.
LEMMA KeepsNoEarlyFrame ==
  ASSUME Base, ReissueGate, SendGate, NoEarlyFrame, Does
  PROVE  NoEarlyFrame'
<1>s. Small
  BY SmallOK DEF Base
<1>b. Phases /\ BusyTarget
  BY DEF Base
<1> USE DEF OthersSame, SameObj, SameObjs, SameStatus, SameHeld, SameGhosts, SameFaults,
     SameReissue, SameSender, SameSenders, SameFrames, Stays
<1>1. ASSUME NEW c \in Conns, AcOpens(c)
      PROVE  NoEarlyFrame'
  BY <1>1, <1>s, <1>b DEF AcOpens, Small, Phases, ReissueGate, NoEarlyFrame
<1>2. ASSUME NEW c \in Conns, Looks(c)
      PROVE  NoEarlyFrame'
  BY <1>2, <1>s, <1>b DEF Looks, Small, Phases, ReissueGate, NoEarlyFrame
<1>3. ASSUME NEW c \in Conns, Creates(c)
      PROVE  NoEarlyFrame'
  BY <1>3, <1>s, <1>b DEF Creates, Small, Phases, ReissueGate, NoEarlyFrame
<1>4. ASSUME NEW c \in Conns, NEW k \in BOOLEAN, Adopts(c, k)
      PROVE  NoEarlyFrame'
  BY <1>4, <1>s, <1>b DEF Adopts, Small, Phases, ReissueGate, NoEarlyFrame
<1>5. ASSUME NEW c \in Conns, AcCompletes(c)
      PROVE  NoEarlyFrame'
  BY <1>5, <1>s, <1>b DEF AcCompletes, Small, Phases, ReissueGate, NoEarlyFrame
<1>6. ASSUME NEW c \in Conns, GoesLive(c)
      PROVE  NoEarlyFrame'
  BY <1>6, <1>s, <1>b DEF GoesLive, Small, Phases, ReissueGate, NoEarlyFrame
<1>7. ASSUME NEW c \in Conns, Resumes(c)
      PROVE  NoEarlyFrame'
  BY <1>7, <1>s, <1>b DEF Resumes, Small, Phases, ReissueGate, NoEarlyFrame
<1>8. ASSUME NEW c \in Conns, Breaks(c)
      PROVE  NoEarlyFrame'
  BY <1>8, <1>s, <1>b DEF Breaks, Small, Phases, ReissueGate, NoEarlyFrame
<1>9. ASSUME NEW c \in Conns, Loses(c)
      PROVE  NoEarlyFrame'
  BY <1>9, <1>s, <1>b DEF Loses, Small, Phases, ReissueGate, NoEarlyFrame
<1>10. ASSUME NEW c \in Conns, Disconnects(c)
      PROVE  NoEarlyFrame'
  BY <1>10, <1>s, <1>b DEF Disconnects, Small, Phases, ReissueGate, NoEarlyFrame
<1>11. ASSUME NEW c \in Conns, ReissueReads(c)
      PROVE  NoEarlyFrame'
  BY <1>11, <1>s, <1>b DEF ReissueReads, Small, Phases, ReissueGate, NoEarlyFrame
<1>12. ASSUME NEW c \in Conns, Reissues(c)
      PROVE  NoEarlyFrame'
  BY <1>12, <1>s, <1>b DEF Reissues, Writes, Small, Phases, ReissueGate, NoEarlyFrame
<1>13. ASSUME NEW c \in Conns, NEW f \in FrameType, Settles(c, f)
      PROVE  NoEarlyFrame'
  BY <1>13, <1>s, <1>b DEF Settles, Small, Phases, ReissueGate, NoEarlyFrame
<1>14. ASSUME NEW m \in Msgs, FindsTargets(m)
      PROVE  NoEarlyFrame'
  BY <1>14, <1>s, <1>b DEF FindsTargets, HolderRecords, Small, Phases, ReissueGate, NoEarlyFrame
<1>15. ASSUME NEW m \in Msgs, NEW c \in Conns, Issues(m, c)
      PROVE  NoEarlyFrame'
  BY <1>15, <1>s, <1>b DEF Issues, Small, Phases, ReissueGate, NoEarlyFrame
<1>16. ASSUME NEW m \in Msgs, NEW c \in Conns, Records(m, c)
      PROVE  NoEarlyFrame'
  BY <1>16, <1>s, <1>b DEF Records, Leaves, Small, Phases, ReissueGate, NoEarlyFrame
<1>17. ASSUME NEW m \in Msgs, NEW c \in Conns, NEW id \in OpIds, Sends(m, c, id)
      PROVE  NoEarlyFrame'
  <2>1. St(c) # "connecting" /\ gate[c] = "send"
    BY <1>17, <1>b DEF Sends, BusyTarget, Busy, Sending, SendGate
  <2>2. Step(c) = "none" /\ Pc(c) # "resuming"
    BY <2>1 DEF ReissueGate
  <2>3. \A d \in Conns : Pc(d)' = Pc(d) /\ Step(d)' = Step(d) /\ (d # c => Frames(d)' = Frames(d))
    BY <1>17, <1>s DEF Sends, Stays, OthersSame, SameObj, SameReissue, Small
  <2> QED BY <1>b, <2>1, <2>2, <2>3 DEF NoEarlyFrame, Phases
<1>18. ASSUME Quiet
      PROVE  NoEarlyFrame'
  BY <1>18, <1>s, <1>b DEF Quiet, Small, Phases, ReissueGate, NoEarlyFrame
<1>19. ASSUME Restarts
      PROVE  NoEarlyFrame'
  BY <1>19, <1>s, <1>b DEF Restarts, Small, Phases, ReissueGate, NoEarlyFrame
<1> QED BY <1>1, <1>2, <1>3, <1>4, <1>5, <1>6, <1>7, <1>8, <1>9, <1>10, <1>11, <1>12, <1>13,
     <1>14, <1>15, <1>16, <1>17, <1>18, <1>19 DEF Does

\* What is written was issued at or above the counter.
LEMMA KeepsFramesAboveCounter ==
  ASSUME Base, ReissueGate, SendGate, NoEarlyFrame, TypeOK', FramesAboveCounter, FramesAboveTodo, Does
  PROVE  FramesAboveCounter'
<1>s. Small
  BY SmallOK DEF Base
<1>b. Phases /\ BusyTarget
  BY DEF Base
<1>n. Numeric /\ Numeric'
  BY NumericOK, NumericNext DEF Base
<1>f. /\ \A c \in Conns : Frames(c)' = Frames(c) => FrameIds(c)' = FrameIds(c)
      /\ \A c \in Conns : /\ FrameIds(c) \subseteq Int /\ (Frames(c) = <<>> => FrameIds(c) = {})
                          /\ \A e \in Todo(c) : e.id \in OpIds /\ e.msg \in Msgs
  BY FrameFacts DEF FrameIds, Base
<1> USE DEF OthersSame, SameObj, SameObjs, SameStatus, SameHeld, SameGhosts, SameFaults,
     SameReissue, SameSender, SameSenders, SameFrames, Stays
<1>1. ASSUME NEW c \in Conns, AcOpens(c)
      PROVE  FramesAboveCounter'
  BY <1>1, <1>s, <1>b, <1>n, <1>f DEF AcOpens, Small, Phases, Numeric, Fine, NoEarlyFrame,
     FramesAboveCounter
<1>2. ASSUME NEW c \in Conns, Looks(c)
      PROVE  FramesAboveCounter'
  BY <1>2, <1>s, <1>b, <1>n, <1>f DEF Looks, Small, Phases, Numeric, Fine, NoEarlyFrame,
     FramesAboveCounter
<1>3. ASSUME NEW c \in Conns, Creates(c)
      PROVE  FramesAboveCounter'
  BY <1>3, <1>s, <1>b, <1>n, <1>f DEF Creates, Small, Phases, Numeric, Fine, NoEarlyFrame,
     FramesAboveCounter
<1>4. ASSUME NEW c \in Conns, NEW k \in BOOLEAN, Adopts(c, k)
      PROVE  FramesAboveCounter'
  BY <1>4, <1>s, <1>b, <1>n, <1>f DEF Adopts, Small, Phases, Numeric, Fine, NoEarlyFrame,
     FramesAboveCounter
<1>5. ASSUME NEW c \in Conns, AcCompletes(c)
      PROVE  FramesAboveCounter'
  BY <1>5, <1>s, <1>b, <1>n, <1>f DEF AcCompletes, Small, Phases, Numeric, Fine, NoEarlyFrame,
     FramesAboveCounter
<1>6. ASSUME NEW c \in Conns, GoesLive(c)
      PROVE  FramesAboveCounter'
  BY <1>6, <1>s, <1>b, <1>n, <1>f DEF GoesLive, Small, Phases, Numeric, Fine, NoEarlyFrame,
     FramesAboveCounter
<1>7. ASSUME NEW c \in Conns, Resumes(c)
      PROVE  FramesAboveCounter'
  BY <1>7, <1>s, <1>b, <1>n, <1>f DEF Resumes, Small, Phases, Numeric, Fine, NoEarlyFrame,
     FramesAboveCounter
<1>8. ASSUME NEW c \in Conns, Breaks(c)
      PROVE  FramesAboveCounter'
  BY <1>8, <1>s, <1>b, <1>n, <1>f DEF Breaks, Small, Phases, Numeric, Fine, NoEarlyFrame,
     FramesAboveCounter
<1>9. ASSUME NEW c \in Conns, Loses(c)
      PROVE  FramesAboveCounter'
  BY <1>9, <1>s, <1>b, <1>n, <1>f DEF Loses, Small, Phases, Numeric, Fine, NoEarlyFrame,
     FramesAboveCounter
<1>10. ASSUME NEW c \in Conns, Disconnects(c)
      PROVE  FramesAboveCounter'
  BY <1>10, <1>s, <1>b, <1>n, <1>f DEF Disconnects, Small, Phases, Numeric, Fine, NoEarlyFrame,
     FramesAboveCounter
<1>11. ASSUME NEW c \in Conns, ReissueReads(c)
      PROVE  FramesAboveCounter'
  BY <1>11, <1>s, <1>b, <1>n, <1>f DEF ReissueReads, Small, Phases, Numeric, Fine, NoEarlyFrame,
     FramesAboveCounter
<1>12. ASSUME NEW c \in Conns, Reissues(c)
      PROVE  FramesAboveCounter'
  <2>1. FramesReissued(c)
    BY <1>12, ReissuesFrames
  <2>2. CASE Todo(c) = {} /\ Todo(c)' = {} /\ Frames(c)' = Frames(c)
    BY <1>f, <2>1, <2>2 DEF FramesAboveCounter, FramesReissued
  <2>3. ASSUME NEW e \in Todo(c), \A f \in Todo(c) : e.id >= f.id, Writes(c, e.id, e.msg),
               Todo(c)' = Todo(c) \ {e}
        PROVE  FramesAboveCounter'
    <3>1. e.id \in OpIds /\ e.msg \in Msgs /\ e.id \in Int
      BY <1>f, Numbers
    <3>2. /\ ~Up(c) => Frames(c)' = Frames(c)
          /\ Up(c) => \A i \in FrameIds(c)' : i \in FrameIds(c) \/ i = e.id
      BY <2>3, <3>1, WrittenIds DEF Base
    <3>3. Fine /\ Up(c) => e.id >= Sc(c)
      BY DEF FramesAboveTodo
    <3> QED BY <1>f, <2>1, <3>2, <3>3 DEF FramesAboveCounter, FramesReissued
  <2> QED BY <1>12, <2>2, <2>3, ReissuesFrames
<1>13. ASSUME NEW c \in Conns, NEW f \in FrameType, Settles(c, f)
      PROVE  FramesAboveCounter'
  BY <1>13, <1>s, <1>b, <1>n, <1>f DEF Settles, Small, Phases, Numeric, Fine, NoEarlyFrame,
     FramesAboveCounter
<1>14. ASSUME NEW m \in Msgs, FindsTargets(m)
      PROVE  FramesAboveCounter'
  BY <1>14, <1>s, <1>b, <1>n, <1>f DEF FindsTargets, HolderRecords, Small, Phases, Numeric, Fine,
     NoEarlyFrame, FramesAboveCounter
<1>15. ASSUME NEW m \in Msgs, NEW c \in Conns, Issues(m, c)
      PROVE  FramesAboveCounter'
  BY <1>15, <1>s, <1>b, <1>n, <1>f DEF Issues, Small, Phases, Numeric, Fine, NoEarlyFrame,
     FramesAboveCounter
<1>16. ASSUME NEW m \in Msgs, NEW c \in Conns, Records(m, c)
      PROVE  FramesAboveCounter'
  BY <1>16, <1>s, <1>b, <1>n, <1>f DEF Records, Leaves, Small, Phases, Numeric, Fine,
     NoEarlyFrame, FramesAboveCounter
<1>17. ASSUME NEW m \in Msgs, NEW c \in Conns, NEW id \in OpIds, Sends(m, c, id)
      PROVE  FramesAboveCounter'
  <2>1. FramesSent(m, c, id)
    BY <1>17, SendsFrames
  <2>2. /\ ~Up(c) => Frames(c)' = Frames(c)
        /\ Up(c) => \A i \in FrameIds(c)' : i \in FrameIds(c) \/ i = id
    BY <2>1, WrittenIds DEF Base, FramesSent
  <2> QED BY <1>f, <1>s, <1>n, <2>1, <2>2 DEF FramesAboveCounter, Numeric, Small, FramesSent
<1>18. ASSUME Quiet
      PROVE  FramesAboveCounter'
  BY <1>18, <1>s, <1>b, <1>n, <1>f DEF Quiet, Small, Phases, Numeric, Fine, NoEarlyFrame,
     FramesAboveCounter
<1>19. ASSUME Restarts
      PROVE  FramesAboveCounter'
  BY <1>19, <1>s, <1>b, <1>n, <1>f DEF Restarts, Small, Phases, Numeric, Fine, NoEarlyFrame,
     FramesAboveCounter
<1> QED BY <1>1, <1>2, <1>3, <1>4, <1>5, <1>6, <1>7, <1>8, <1>9, <1>10, <1>11, <1>12, <1>13,
     <1>14, <1>15, <1>16, <1>17, <1>18, <1>19 DEF Does

\* A new id is below the counter, so below all that was written.
LEMMA KeepsFramesAboveIssued ==
  ASSUME Base, ReissueGate, SendGate, NoEarlyFrame, TypeOK', FramesAboveCounter, FramesAboveIssued, Does
  PROVE  FramesAboveIssued'
<1>s. Small
  BY SmallOK DEF Base
<1>b. Phases /\ BusyTarget
  BY DEF Base
<1>n. Numeric /\ Numeric'
  BY NumericOK, NumericNext DEF Base
<1>f. /\ \A c \in Conns : Frames(c)' = Frames(c) => FrameIds(c)' = FrameIds(c)
      /\ \A c \in Conns : /\ FrameIds(c) \subseteq Int /\ (Frames(c) = <<>> => FrameIds(c) = {})
                          /\ \A e \in Todo(c) : e.id \in OpIds /\ e.msg \in Msgs
  BY FrameFacts DEF FrameIds, Base
<1> USE DEF OthersSame, SameObj, SameObjs, SameStatus, SameHeld, SameGhosts, SameFaults,
     SameReissue, SameSender, SameSenders, SameFrames, Stays
<1>1. ASSUME NEW c \in Conns, AcOpens(c)
      PROVE  FramesAboveIssued'
  BY <1>1, <1>s, <1>b, <1>n, <1>f DEF AcOpens, Small, Phases, Numeric, Fine, BusyTarget, Busy,
     Sending, FramesAboveIssued
<1>2. ASSUME NEW c \in Conns, Looks(c)
      PROVE  FramesAboveIssued'
  BY <1>2, <1>s, <1>b, <1>n, <1>f DEF Looks, Small, Phases, Numeric, Fine, BusyTarget, Busy,
     Sending, FramesAboveIssued
<1>3. ASSUME NEW c \in Conns, Creates(c)
      PROVE  FramesAboveIssued'
  BY <1>3, <1>s, <1>b, <1>n, <1>f DEF Creates, Small, Phases, Numeric, Fine, BusyTarget, Busy,
     Sending, FramesAboveIssued
<1>4. ASSUME NEW c \in Conns, NEW k \in BOOLEAN, Adopts(c, k)
      PROVE  FramesAboveIssued'
  BY <1>4, <1>s, <1>b, <1>n, <1>f DEF Adopts, Small, Phases, Numeric, Fine, BusyTarget, Busy,
     Sending, FramesAboveIssued
<1>5. ASSUME NEW c \in Conns, AcCompletes(c)
      PROVE  FramesAboveIssued'
  BY <1>5, <1>s, <1>b, <1>n, <1>f DEF AcCompletes, Small, Phases, Numeric, Fine, BusyTarget, Busy,
     Sending, FramesAboveIssued
<1>6. ASSUME NEW c \in Conns, GoesLive(c)
      PROVE  FramesAboveIssued'
  BY <1>6, <1>s, <1>b, <1>n, <1>f DEF GoesLive, Small, Phases, Numeric, Fine, BusyTarget, Busy,
     Sending, FramesAboveIssued
<1>7. ASSUME NEW c \in Conns, Resumes(c)
      PROVE  FramesAboveIssued'
  BY <1>7, <1>s, <1>b, <1>n, <1>f DEF Resumes, Small, Phases, Numeric, Fine, BusyTarget, Busy,
     Sending, FramesAboveIssued
<1>8. ASSUME NEW c \in Conns, Breaks(c)
      PROVE  FramesAboveIssued'
  BY <1>8, <1>s, <1>b, <1>n, <1>f DEF Breaks, Small, Phases, Numeric, Fine, BusyTarget, Busy,
     Sending, FramesAboveIssued
<1>9. ASSUME NEW c \in Conns, Loses(c)
      PROVE  FramesAboveIssued'
  BY <1>9, <1>s, <1>b, <1>n, <1>f DEF Loses, Small, Phases, Numeric, Fine, BusyTarget, Busy,
     Sending, FramesAboveIssued
<1>10. ASSUME NEW c \in Conns, Disconnects(c)
      PROVE  FramesAboveIssued'
  BY <1>10, <1>s, <1>b, <1>n, <1>f DEF Disconnects, Small, Phases, Numeric, Fine, BusyTarget,
     Busy, Sending, FramesAboveIssued
<1>11. ASSUME NEW c \in Conns, ReissueReads(c)
      PROVE  FramesAboveIssued'
  BY <1>11, <1>s, <1>b, <1>n, <1>f DEF ReissueReads, Small, Phases, Numeric, Fine, BusyTarget,
     Busy, Sending, FramesAboveIssued
<1>12. ASSUME NEW c \in Conns, Reissues(c)
      PROVE  FramesAboveIssued'
  <2>1. FramesReissued(c)
    BY <1>12, ReissuesFrames
  <2>2. \A n \in Msgs : Sending(n) => To(n) # c
    BY <1>12 DEF Reissues, ReissueGate, SendGate
  <2> QED BY <1>f, <2>1, <2>2 DEF FramesAboveIssued, SameSenders, SameSender, Sending, FramesReissued
<1>13. ASSUME NEW c \in Conns, NEW f \in FrameType, Settles(c, f)
      PROVE  FramesAboveIssued'
  BY <1>13, <1>s, <1>b, <1>n, <1>f DEF Settles, Small, Phases, Numeric, Fine, BusyTarget, Busy,
     Sending, FramesAboveIssued
<1>14. ASSUME NEW m \in Msgs, FindsTargets(m)
      PROVE  FramesAboveIssued'
  BY <1>14, <1>s, <1>b, <1>n, <1>f DEF FindsTargets, HolderRecords, Small, Phases, Numeric, Fine,
     BusyTarget, Busy, Sending, FramesAboveIssued
<1>15. ASSUME NEW m \in Msgs, NEW c \in Conns, Issues(m, c)
      PROVE  FramesAboveIssued'
  <2>1. /\ \A d \in Conns : (Up(d)' <=> Up(d)) /\ Frames(d)' = Frames(d)
        /\ (Fine' <=> Fine) /\ (\A n \in Msgs : n # m => SameSender(n))
    BY <1>15, <1>s DEF Issues, Stays, OthersSame, SameObj, SameFrames, SameGhosts, Fine, Small
  <2>2. To(m)' = c /\ Id(m)' = Sc(c) - 1 /\ Sc(c) \in Int
    BY <1>15, <1>s, <1>n DEF Issues, Numeric, Small
  <2>3. Fine /\ Up(c) => \A i \in FrameIds(c) : i > Sc(c) - 1
    BY <1>f, <2>2 DEF FramesAboveCounter
  <2> QED BY <1>f, <2>1, <2>2, <2>3 DEF FramesAboveIssued, SameSender, Sending
<1>16. ASSUME NEW m \in Msgs, NEW c \in Conns, Records(m, c)
      PROVE  FramesAboveIssued'
  BY <1>16, <1>s, <1>b, <1>n, <1>f DEF Records, Leaves, Small, Phases, Numeric, Fine, BusyTarget,
     Busy, Sending, FramesAboveIssued
<1>17. ASSUME NEW m \in Msgs, NEW c \in Conns, NEW id \in OpIds, Sends(m, c, id)
      PROVE  FramesAboveIssued'
  <2>1. FramesSent(m, c, id)
    BY <1>17, SendsFrames
  <2> QED BY <1>f, <2>1 DEF FramesAboveIssued, SameSender, Sending, SendGate, FramesSent
<1>18. ASSUME Quiet
      PROVE  FramesAboveIssued'
  BY <1>18, <1>s, <1>b, <1>n, <1>f DEF Quiet, Small, Phases, Numeric, Fine, BusyTarget, Busy,
     Sending, FramesAboveIssued
<1>19. ASSUME Restarts
      PROVE  FramesAboveIssued'
  BY <1>19, <1>s, <1>b, <1>n, <1>f DEF Restarts, Small, Phases, Numeric, Fine, BusyTarget, Busy,
     Sending, FramesAboveIssued
<1> QED BY <1>1, <1>2, <1>3, <1>4, <1>5, <1>6, <1>7, <1>8, <1>9, <1>10, <1>11, <1>12, <1>13,
     <1>14, <1>15, <1>16, <1>17, <1>18, <1>19 DEF Does

\* The reissue goes from the largest id to the smallest.
LEMMA KeepsFramesAboveTodo ==
  ASSUME Base, ReissueGate, SendGate, NoEarlyFrame, TypeOK', UpIsMapped, CountersBelow, IdsOnce, FramesAboveTodo, Does
  PROVE  FramesAboveTodo'
<1>s. Small
  BY SmallOK DEF Base
<1>b. Phases /\ BusyTarget
  BY DEF Base
<1>n. Numeric /\ Numeric'
  BY NumericOK, NumericNext DEF Base
<1>f. /\ \A c \in Conns : Frames(c)' = Frames(c) => FrameIds(c)' = FrameIds(c)
      /\ \A c \in Conns : /\ FrameIds(c) \subseteq Int /\ (Frames(c) = <<>> => FrameIds(c) = {})
                          /\ \A e \in Todo(c) : e.id \in OpIds /\ e.msg \in Msgs
  BY FrameFacts DEF FrameIds, Base
<1> USE DEF OthersSame, SameObj, SameObjs, SameStatus, SameHeld, SameGhosts, SameFaults,
     SameReissue, SameSender, SameSenders, SameFrames, Stays
<1>1. ASSUME NEW c \in Conns, AcOpens(c)
      PROVE  FramesAboveTodo'
  BY <1>1, <1>s, <1>b, <1>n, <1>f DEF AcOpens, Small, Phases, Numeric, Fine, ReissueGate,
     FramesAboveTodo
<1>2. ASSUME NEW c \in Conns, Looks(c)
      PROVE  FramesAboveTodo'
  BY <1>2, <1>s, <1>b, <1>n, <1>f DEF Looks, Small, Phases, Numeric, Fine, ReissueGate,
     FramesAboveTodo
<1>3. ASSUME NEW c \in Conns, Creates(c)
      PROVE  FramesAboveTodo'
  BY <1>3, <1>s, <1>b, <1>n, <1>f DEF Creates, Small, Phases, Numeric, Fine, ReissueGate,
     FramesAboveTodo
<1>4. ASSUME NEW c \in Conns, NEW k \in BOOLEAN, Adopts(c, k)
      PROVE  FramesAboveTodo'
  BY <1>4, <1>s, <1>b, <1>n, <1>f DEF Adopts, Small, Phases, Numeric, Fine, ReissueGate,
     FramesAboveTodo
<1>5. ASSUME NEW c \in Conns, AcCompletes(c)
      PROVE  FramesAboveTodo'
  BY <1>5, <1>s, <1>b, <1>n, <1>f DEF AcCompletes, Small, Phases, Numeric, Fine, ReissueGate,
     FramesAboveTodo
<1>6. ASSUME NEW c \in Conns, GoesLive(c)
      PROVE  FramesAboveTodo'
  BY <1>6, <1>s, <1>b, <1>n, <1>f DEF GoesLive, Small, Phases, Numeric, Fine, ReissueGate,
     FramesAboveTodo
<1>7. ASSUME NEW c \in Conns, Resumes(c)
      PROVE  FramesAboveTodo'
  BY <1>7, <1>s, <1>b, <1>n, <1>f DEF Resumes, Small, Phases, Numeric, Fine, ReissueGate,
     FramesAboveTodo
<1>8. ASSUME NEW c \in Conns, Breaks(c)
      PROVE  FramesAboveTodo'
  BY <1>8, <1>s, <1>b, <1>n, <1>f DEF Breaks, Small, Phases, Numeric, Fine, ReissueGate,
     FramesAboveTodo
<1>9. ASSUME NEW c \in Conns, Loses(c)
      PROVE  FramesAboveTodo'
  BY <1>9, <1>s, <1>b, <1>n, <1>f DEF Loses, Small, Phases, Numeric, Fine, ReissueGate,
     FramesAboveTodo
<1>10. ASSUME NEW c \in Conns, Disconnects(c)
      PROVE  FramesAboveTodo'
  BY <1>10, <1>s, <1>b, <1>n, <1>f DEF Disconnects, Small, Phases, Numeric, Fine, ReissueGate,
     FramesAboveTodo
<1>11. ASSUME NEW c \in Conns, ReissueReads(c)
      PROVE  FramesAboveTodo'
  <2>1. /\ \A d \in Conns : (Up(d)' <=> Up(d)) /\ Sc(d)' = Sc(d) /\ Frames(d)' = Frames(d)
        /\ (Fine' <=> Fine) /\ \A d \in Conns : d # c => Todo(d)' = Todo(d)
    BY <1>11, <1>s DEF ReissueReads, SameObjs, SameObj, SameFrames, SameGhosts, Fine, Small
  <2>2. Step(c) = "read" /\ Todo(c) = {} /\ FrameIds(c) = {}
    BY <1>11, <1>f DEF ReissueReads, ReissueGate, NoEarlyFrame
  <2>3. Todo(c)' \subseteq Pending(Row(c))
    BY <1>11, <2>2 DEF ReissueReads
  <2>4. ASSUME Fine, Up(c) PROVE \A e, f \in Pending(Row(c)) : e.id >= Sc(c) /\ (e.id = f.id => e = f)
    <3>1. Owner(c) /\ c \in Objects
      BY <1>s, <2>2, <2>4 DEF UpIsMapped, ReissueGate, Owner, Small
    <3>2. \A e \in Pending(Row(c)) : e \in log /\ e.row = Row(c) /\ ~LateId(e.id)
      BY <2>4 DEF Pending, Fine, LateId
    <3>3. \A e \in Pending(Row(c)) : Sc(c) <= e.id
      BY <2>4, <3>1, <3>2 DEF CountersBelow, Fine
    <3>4. \A e \in Pending(Row(c)) : e.id \in Int /\ Sc(c) \in Int
      BY <1>n, <3>1, <3>2 DEF Numeric
    <3>5. \A e, f \in Pending(Row(c)) : e.id = f.id => e = f
      BY <2>4, <3>2 DEF IdsOnce, Fine
    <3> QED BY <3>3, <3>4, <3>5
  <2> QED BY <1>f, <2>1, <2>2, <2>3, <2>4 DEF FramesAboveTodo
<1>12. ASSUME NEW c \in Conns, Reissues(c)
      PROVE  FramesAboveTodo'
  <2>1. FramesReissued(c)
    BY <1>12, ReissuesFrames
  <2>2. CASE Todo(c) = {} /\ Todo(c)' = {} /\ Frames(c)' = Frames(c)
    BY <1>f, <2>1, <2>2 DEF FramesAboveTodo, FramesReissued
  <2>3. ASSUME NEW e \in Todo(c), \A f \in Todo(c) : e.id >= f.id, Writes(c, e.id, e.msg),
               Todo(c)' = Todo(c) \ {e}
        PROVE  FramesAboveTodo'
    <3>1. e.id \in OpIds /\ e.msg \in Msgs /\ e.id \in Int
      BY <1>f, Numbers
    <3>2. /\ ~Up(c) => Frames(c)' = Frames(c)
          /\ Up(c) => \A i \in FrameIds(c)' : i \in FrameIds(c) \/ i = e.id
      BY <2>3, <3>1, WrittenIds DEF Base
    <3>3. ASSUME Fine, Up(c), NEW f \in Todo(c)' PROVE f \in Todo(c) /\ f.id < e.id
      <4>1. f \in Todo(c) /\ f # e
        BY <2>3, <3>3
      <4>2. f.id # e.id /\ e.id >= f.id
        BY <2>3, <3>3, <4>1 DEF FramesAboveTodo
      <4>3. f.id \in Int
        BY <1>f, <4>1, Numbers
      <4> QED BY <3>1, <4>1, <4>2, <4>3
    <3>4. ASSUME Fine, Up(c), NEW f \in Todo(c)'
          PROVE  /\ f.id >= Sc(c)' /\ \A i \in FrameIds(c)' : i > f.id
                 /\ \A g \in Todo(c)' : f.id = g.id => f = g
      <4>1. f \in Todo(c) /\ f.id < e.id /\ f.id \in Int
        BY <1>f, <3>3, <3>4, Numbers
      <4>2. \A i \in FrameIds(c)' : i > f.id
        BY <3>1, <3>2, <3>4, <4>1 DEF FramesAboveTodo
      <4> QED BY <2>1, <2>3, <3>4, <4>1, <4>2 DEF FramesAboveTodo, FramesReissued
    <3>5. \A d \in Conns : d # c => FrameIds(d)' = FrameIds(d)
      BY <1>f, <2>1 DEF FramesReissued
    <3> QED BY <2>1, <3>4, <3>5 DEF FramesAboveTodo, FramesReissued
  <2> QED BY <1>12, <2>2, <2>3, ReissuesFrames
<1>13. ASSUME NEW c \in Conns, NEW f \in FrameType, Settles(c, f)
      PROVE  FramesAboveTodo'
  BY <1>13, <1>s, <1>b, <1>n, <1>f DEF Settles, Small, Phases, Numeric, Fine, ReissueGate,
     FramesAboveTodo
<1>14. ASSUME NEW m \in Msgs, FindsTargets(m)
      PROVE  FramesAboveTodo'
  <2>1. /\ \A d \in Conns : Frames(d)' = Frames(d) /\ Todo(d)' = Todo(d)
        /\ Fine' <=> Fine
    BY <1>14 DEF FindsTargets, SameFrames, SameReissue, Fine
  <2>2. \A d \in Conns : (Up(d)' <=> Up(d)) /\ Sc(d)' <= Sc(d)
    <3>1. ASSUME NEW failed \in BOOLEAN, NEW r \in Rows, NEW o \in Objects, HolderRecords(r, o, m, failed),
                 NEW x \in Objects
          PROVE  (Up(x)' <=> Up(x)) /\ Sc(x)' <= Sc(x)
      BY <1>n, <3>1 DEF HolderRecords, Stays, Numeric
    <3>2. CASE SameObjs
      BY <1>n, <1>s, <3>2 DEF SameObjs, SameObj, Numeric, Small
    <3> QED BY <1>14, <1>s, <3>1, <3>2 DEF FindsTargets, Small
  <2>3. \A d \in Conns : /\ Sc(d) \in Int /\ Sc(d)' \in Int
                         /\ \A e \in Todo(d) : e.id \in Int
    BY <1>n, <1>s, <1>f, Numbers DEF Numeric, Small
  <2>4. \A d \in Conns : \A e \in Todo(d) : e.id >= Sc(d) => e.id >= Sc(d)'
    BY <2>2, <2>3
  <2> QED BY <1>f, <2>1, <2>2, <2>4 DEF FramesAboveTodo
<1>15. ASSUME NEW m \in Msgs, NEW c \in Conns, Issues(m, c)
      PROVE  FramesAboveTodo'
  BY <1>15, <1>s, <1>b, <1>n, <1>f DEF Issues, Small, Phases, Numeric, Fine, ReissueGate,
     FramesAboveTodo
<1>16. ASSUME NEW m \in Msgs, NEW c \in Conns, Records(m, c)
      PROVE  FramesAboveTodo'
  BY <1>16, <1>s, <1>b, <1>n, <1>f DEF Records, Leaves, Small, Phases, Numeric, Fine, ReissueGate,
     FramesAboveTodo
<1>17. ASSUME NEW m \in Msgs, NEW c \in Conns, NEW id \in OpIds, Sends(m, c, id)
      PROVE  FramesAboveTodo'
  <2>1. FramesSent(m, c, id)
    BY <1>17, SendsFrames
  <2> QED BY <1>f, <2>1 DEF FramesAboveTodo, FramesSent
<1>18. ASSUME Quiet
      PROVE  FramesAboveTodo'
  BY <1>18, <1>s, <1>b, <1>n, <1>f DEF Quiet, Small, Phases, Numeric, Fine, ReissueGate,
     FramesAboveTodo
<1>19. ASSUME Restarts
      PROVE  FramesAboveTodo'
  BY <1>19, <1>s, <1>b, <1>n, <1>f DEF Restarts, Small, Phases, Numeric, Fine, ReissueGate,
     FramesAboveTodo
<1> QED BY <1>1, <1>2, <1>3, <1>4, <1>5, <1>6, <1>7, <1>8, <1>9, <1>10, <1>11, <1>12, <1>13,
     <1>14, <1>15, <1>16, <1>17, <1>18, <1>19 DEF Does

\* Every frame is below those before it.
LEMMA KeepsDecrements ==
  ASSUME Base, ReissueGate, SendGate, NoEarlyFrame, TypeOK', FramesAboveIssued, FramesAboveTodo, Decrements, Does
  PROVE  Decrements'
<1>s. Small
  BY SmallOK DEF Base
<1>b. Phases /\ BusyTarget
  BY DEF Base
<1>f. /\ \A c \in Conns : Frames(c)' = Frames(c) => FrameIds(c)' = FrameIds(c)
      /\ \A c \in Conns : /\ FrameIds(c) \subseteq Int /\ (Frames(c) = <<>> => FrameIds(c) = {})
                          /\ \A e \in Todo(c) : e.id \in OpIds /\ e.msg \in Msgs
  BY FrameFacts DEF FrameIds, Base
<1> USE DEF OthersSame, SameObj, SameObjs, SameStatus, SameHeld, SameGhosts, SameFaults,
     SameReissue, SameSender, SameSenders, SameFrames, Stays
<1>1. ASSUME NEW c \in Conns, AcOpens(c)
      PROVE  Decrements'
  BY <1>1, <1>s DEF AcOpens, Small, Fine, Decrements
<1>2. ASSUME NEW c \in Conns, Looks(c)
      PROVE  Decrements'
  BY <1>2, <1>s DEF Looks, Small, Fine, Decrements
<1>3. ASSUME NEW c \in Conns, Creates(c)
      PROVE  Decrements'
  BY <1>3, <1>s DEF Creates, Small, Fine, Decrements
<1>4. ASSUME NEW c \in Conns, NEW k \in BOOLEAN, Adopts(c, k)
      PROVE  Decrements'
  BY <1>4, <1>s DEF Adopts, Small, Fine, Decrements
<1>5. ASSUME NEW c \in Conns, AcCompletes(c)
      PROVE  Decrements'
  BY <1>5, <1>s DEF AcCompletes, Small, Fine, Decrements
<1>6. ASSUME NEW c \in Conns, GoesLive(c)
      PROVE  Decrements'
  BY <1>6, <1>s DEF GoesLive, Small, Fine, Decrements
<1>7. ASSUME NEW c \in Conns, Resumes(c)
      PROVE  Decrements'
  BY <1>7, <1>s DEF Resumes, Small, Fine, Decrements
<1>8. ASSUME NEW c \in Conns, Breaks(c)
      PROVE  Decrements'
  BY <1>8, <1>s DEF Breaks, Small, Fine, Decrements
<1>9. ASSUME NEW c \in Conns, Loses(c)
      PROVE  Decrements'
  BY <1>9, <1>s DEF Loses, Small, Fine, Decrements
<1>10. ASSUME NEW c \in Conns, Disconnects(c)
      PROVE  Decrements'
  BY <1>10, <1>s DEF Disconnects, Small, Fine, Decrements
<1>11. ASSUME NEW c \in Conns, ReissueReads(c)
      PROVE  Decrements'
  BY <1>11, <1>s DEF ReissueReads, Small, Fine, Decrements
<1>12. ASSUME NEW c \in Conns, Reissues(c)
      PROVE  Decrements'
  <2>1. FramesReissued(c)
    BY <1>12, ReissuesFrames
  <2>2. CASE Todo(c) = {} /\ Todo(c)' = {} /\ Frames(c)' = Frames(c)
    BY <2>1, <2>2 DEF Decrements, FramesReissued
  <2>3. ASSUME NEW e \in Todo(c), \A f \in Todo(c) : e.id >= f.id, Writes(c, e.id, e.msg),
               Todo(c)' = Todo(c) \ {e}
        PROVE  Decrements'
    <3>1. e.id \in OpIds /\ e.msg \in Msgs /\ e.id \in Int
      BY <1>f, Numbers
    <3>2. /\ ~Up(c) => Frames(c)' = Frames(c)
          /\ Up(c) /\ (\A i \in FrameIds(c) : i > e.id)
             /\ (\A i, j \in DOMAIN Frames(c) : i < j => Frames(c)[j].id < Frames(c)[i].id)
             => (\A i, j \in DOMAIN Frames(c) : i < j => Frames(c)[j].id < Frames(c)[i].id)'
      BY <2>3, <3>1, WrittenIds DEF Base
    <3>3. Fine /\ Up(c) => \A i \in FrameIds(c) : i > e.id
      BY DEF FramesAboveTodo
    <3> QED BY <2>1, <3>2, <3>3 DEF Decrements, FramesReissued
  <2> QED BY <1>12, <2>2, <2>3, ReissuesFrames
<1>13. ASSUME NEW c \in Conns, NEW f \in FrameType, Settles(c, f)
      PROVE  Decrements'
  BY <1>13, <1>s DEF Settles, Small, Fine, Decrements
<1>14. ASSUME NEW m \in Msgs, FindsTargets(m)
      PROVE  Decrements'
  BY <1>14, <1>s DEF FindsTargets, HolderRecords, Small, Fine, Decrements
<1>15. ASSUME NEW m \in Msgs, NEW c \in Conns, Issues(m, c)
      PROVE  Decrements'
  BY <1>15, <1>s DEF Issues, Small, Fine, Decrements
<1>16. ASSUME NEW m \in Msgs, NEW c \in Conns, Records(m, c)
      PROVE  Decrements'
  BY <1>16, <1>s DEF Records, Leaves, Small, Fine, Decrements
<1>17. ASSUME NEW m \in Msgs, NEW c \in Conns, NEW id \in OpIds, Sends(m, c, id)
      PROVE  Decrements'
  <2>1. FramesSent(m, c, id)
    BY <1>17, SendsFrames
  <2>2. /\ ~Up(c) => Frames(c)' = Frames(c)
        /\ Up(c) /\ (\A i \in FrameIds(c) : i > id)
           /\ (\A i, j \in DOMAIN Frames(c) : i < j => Frames(c)[j].id < Frames(c)[i].id)
           => (\A i, j \in DOMAIN Frames(c) : i < j => Frames(c)[j].id < Frames(c)[i].id)'
    BY <2>1, WrittenIds DEF Base, FramesSent
  <2>3. Fine /\ Up(c) => \A i \in FrameIds(c) : i > id
    BY <2>1 DEF FramesAboveIssued, FramesSent
  <2> QED BY <2>1, <2>2, <2>3 DEF Decrements, FramesSent
<1>18. ASSUME Quiet
      PROVE  Decrements'
  BY <1>18, <1>s DEF Quiet, Small, Fine, Decrements
<1>19. ASSUME Restarts
      PROVE  Decrements'
  BY <1>19, <1>s DEF Restarts, Small, Fine, Decrements
<1> QED BY <1>1, <1>2, <1>3, <1>4, <1>5, <1>6, <1>7, <1>8, <1>9, <1>10, <1>11, <1>12, <1>13,
     <1>14, <1>15, <1>16, <1>17, <1>18, <1>19 DEF Does


-----------------------------------------------------------------------------
(* What the log covers.                                                    *)

\* A step keeps what is on record, the rows of live sessions, and makes no
\* session resumable again.
LEMMA LogGrows ==
  ASSUME Base, Does
  PROVE  \A e \in log : \E x \in log' : x.row = e.row /\ x.id = e.id /\ x.msg = e.msg
<1> USE DEF OthersSame, SameObj, SameObjs, SameStatus, SameHeld, SameGhosts, SameFaults,
     SameReissue, SameSender, SameSenders, SameFrames, Stays
<1>1. ASSUME NEW c \in Conns, AcOpens(c)
      PROVE  \A e \in log : \E x \in log' : x.row = e.row /\ x.id = e.id /\ x.msg = e.msg
  BY <1>1 DEF AcOpens
<1>2. ASSUME NEW c \in Conns, Looks(c)
      PROVE  \A e \in log : \E x \in log' : x.row = e.row /\ x.id = e.id /\ x.msg = e.msg
  BY <1>2 DEF Looks
<1>3. ASSUME NEW c \in Conns, Creates(c)
      PROVE  \A e \in log : \E x \in log' : x.row = e.row /\ x.id = e.id /\ x.msg = e.msg
  BY <1>3 DEF Creates
<1>4. ASSUME NEW c \in Conns, NEW k \in BOOLEAN, Adopts(c, k)
      PROVE  \A e \in log : \E x \in log' : x.row = e.row /\ x.id = e.id /\ x.msg = e.msg
  BY <1>4 DEF Adopts
<1>5. ASSUME NEW c \in Conns, AcCompletes(c)
      PROVE  \A e \in log : \E x \in log' : x.row = e.row /\ x.id = e.id /\ x.msg = e.msg
  BY <1>5 DEF AcCompletes
<1>6. ASSUME NEW c \in Conns, GoesLive(c)
      PROVE  \A e \in log : \E x \in log' : x.row = e.row /\ x.id = e.id /\ x.msg = e.msg
  BY <1>6 DEF GoesLive
<1>7. ASSUME NEW c \in Conns, Resumes(c)
      PROVE  \A e \in log : \E x \in log' : x.row = e.row /\ x.id = e.id /\ x.msg = e.msg
  BY <1>7 DEF Resumes
<1>8. ASSUME NEW c \in Conns, Breaks(c)
      PROVE  \A e \in log : \E x \in log' : x.row = e.row /\ x.id = e.id /\ x.msg = e.msg
  BY <1>8 DEF Breaks
<1>9. ASSUME NEW c \in Conns, Loses(c)
      PROVE  \A e \in log : \E x \in log' : x.row = e.row /\ x.id = e.id /\ x.msg = e.msg
  BY <1>9 DEF Loses
<1>10. ASSUME NEW c \in Conns, Disconnects(c)
      PROVE  \A e \in log : \E x \in log' : x.row = e.row /\ x.id = e.id /\ x.msg = e.msg
  BY <1>10 DEF Disconnects
<1>11. ASSUME NEW c \in Conns, ReissueReads(c)
      PROVE  \A e \in log : \E x \in log' : x.row = e.row /\ x.id = e.id /\ x.msg = e.msg
  BY <1>11 DEF ReissueReads
<1>12. ASSUME NEW c \in Conns, Reissues(c)
      PROVE  \A e \in log : \E x \in log' : x.row = e.row /\ x.id = e.id /\ x.msg = e.msg
  BY <1>12 DEF Reissues, Writes
<1>13. ASSUME NEW c \in Conns, NEW f \in FrameType, Settles(c, f)
      PROVE  \A e \in log : \E x \in log' : x.row = e.row /\ x.id = e.id /\ x.msg = e.msg
  BY <1>13, SettlesLog DEF Base
<1>14. ASSUME NEW m \in Msgs, FindsTargets(m)
      PROVE  \A e \in log : \E x \in log' : x.row = e.row /\ x.id = e.id /\ x.msg = e.msg
  BY <1>14 DEF FindsTargets, HolderRecords
<1>15. ASSUME NEW m \in Msgs, NEW c \in Conns, Issues(m, c)
      PROVE  \A e \in log : \E x \in log' : x.row = e.row /\ x.id = e.id /\ x.msg = e.msg
  BY <1>15 DEF Issues
<1>16. ASSUME NEW m \in Msgs, NEW c \in Conns, Records(m, c)
      PROVE  \A e \in log : \E x \in log' : x.row = e.row /\ x.id = e.id /\ x.msg = e.msg
  BY <1>16 DEF Records, Leaves
<1>17. ASSUME NEW m \in Msgs, NEW c \in Conns, NEW id \in OpIds, Sends(m, c, id)
      PROVE  \A e \in log : \E x \in log' : x.row = e.row /\ x.id = e.id /\ x.msg = e.msg
  BY <1>17 DEF Sends, Writes, Leaves
<1>18. ASSUME Quiet
      PROVE  \A e \in log : \E x \in log' : x.row = e.row /\ x.id = e.id /\ x.msg = e.msg
  BY <1>18 DEF Quiet
<1>19. ASSUME Restarts
      PROVE  \A e \in log : \E x \in log' : x.row = e.row /\ x.id = e.id /\ x.msg = e.msg
  BY <1>19 DEF Restarts
<1> QED BY <1>1, <1>2, <1>3, <1>4, <1>5, <1>6, <1>7, <1>8, <1>9, <1>10, <1>11, <1>12, <1>13,
     <1>14, <1>15, <1>16, <1>17, <1>18, <1>19 DEF Does

\* A session that went live keeps its row.
LEMMA RowKept ==
  ASSUME Base, SessionDoes
  PROVE  \A d \in Conns : St(d) # "connecting" => Row(d)' = Row(d)
<1>s. Small
  BY SmallOK DEF Base
<1>b. Phases /\ BusyTarget /\ HolderHasRow
  BY DEF Base
<1> USE DEF OthersSame, SameObj, SameStatus, SameHeld, SameGhosts, SameFaults, SessionObjs, Stays
<1>1. ASSUME NEW c \in Conns, AcOpens(c)
      PROVE  \A d \in Conns : St(d) # "connecting" => Row(d)' = Row(d)
  BY <1>1, <1>s, <1>b DEF AcOpens, Small, Phases
<1>2. ASSUME NEW c \in Conns, Looks(c)
      PROVE  \A d \in Conns : St(d) # "connecting" => Row(d)' = Row(d)
  BY <1>2, <1>s, <1>b DEF Looks, Small, Phases
<1>3. ASSUME NEW c \in Conns, Creates(c)
      PROVE  \A d \in Conns : St(d) # "connecting" => Row(d)' = Row(d)
  BY <1>3, <1>s, <1>b DEF Creates, Small, Phases
<1>4. ASSUME NEW c \in Conns, NEW k \in BOOLEAN, Adopts(c, k)
      PROVE  \A d \in Conns : St(d) # "connecting" => Row(d)' = Row(d)
  BY <1>4, <1>s, <1>b DEF Adopts, Small, Phases
<1>5. ASSUME NEW c \in Conns, AcCompletes(c)
      PROVE  \A d \in Conns : St(d) # "connecting" => Row(d)' = Row(d)
  BY <1>5, <1>s, <1>b DEF AcCompletes, Small, Phases
<1>6. ASSUME NEW c \in Conns, GoesLive(c)
      PROVE  \A d \in Conns : St(d) # "connecting" => Row(d)' = Row(d)
  BY <1>6, <1>s, <1>b DEF GoesLive, Small, Phases
<1>7. ASSUME NEW c \in Conns, Resumes(c)
      PROVE  \A d \in Conns : St(d) # "connecting" => Row(d)' = Row(d)
  BY <1>7, <1>s, <1>b DEF Resumes, Small, Phases
<1>8. ASSUME NEW c \in Conns, Breaks(c)
      PROVE  \A d \in Conns : St(d) # "connecting" => Row(d)' = Row(d)
  BY <1>8, <1>s, <1>b DEF Breaks, Small, Phases
<1>9. ASSUME NEW c \in Conns, Loses(c)
      PROVE  \A d \in Conns : St(d) # "connecting" => Row(d)' = Row(d)
  BY <1>9, <1>s, <1>b DEF Loses, Small, Phases
<1>10. ASSUME NEW c \in Conns, Disconnects(c)
      PROVE  \A d \in Conns : St(d) # "connecting" => Row(d)' = Row(d)
  BY <1>10, <1>s, <1>b DEF Disconnects, Small, Phases
<1>11. ASSUME SessionKept
      PROVE  \A d \in Conns : St(d) # "connecting" => Row(d)' = Row(d)
  BY <1>11, <1>s, <1>b DEF SessionKept, Small, Phases
<1>12. ASSUME HolderDrops
      PROVE  \A d \in Conns : St(d) # "connecting" => Row(d)' = Row(d)
  BY <1>12, <1>s, <1>b DEF HolderDrops, Small, Phases
<1>13. ASSUME Restarts
      PROVE  \A d \in Conns : St(d) # "connecting" => Row(d)' = Row(d)
  BY <1>13, <1>s, <1>b DEF Restarts, Small, Phases
<1> QED BY <1>1, <1>2, <1>3, <1>4, <1>5, <1>6, <1>7, <1>8, <1>9, <1>10, <1>11, <1>12, <1>13 DEF
     SessionDoes

\* No existing row becomes resumable again.
LEMMA ResumableBack ==
  ASSUME Base, SessionDoes
  PROVE  \A r \in Rows : CanResume(r)' /\ Status(r) # "absent" => CanResume(r)
<1> USE DEF OthersSame, SameObj, SameStatus, SameHeld, SameGhosts, SameFaults, SessionObjs, Stays
<1>1. ASSUME NEW c \in Conns, AcOpens(c)
      PROVE  \A r \in Rows : CanResume(r)' /\ Status(r) # "absent" => CanResume(r)
  BY <1>1 DEF AcOpens, CanResume
<1>2. ASSUME NEW c \in Conns, Looks(c)
      PROVE  \A r \in Rows : CanResume(r)' /\ Status(r) # "absent" => CanResume(r)
  BY <1>2 DEF Looks, CanResume
<1>3. ASSUME NEW c \in Conns, Creates(c)
      PROVE  \A r \in Rows : CanResume(r)' /\ Status(r) # "absent" => CanResume(r)
  BY <1>3 DEF Creates, CanResume
<1>4. ASSUME NEW c \in Conns, NEW k \in BOOLEAN, Adopts(c, k)
      PROVE  \A r \in Rows : CanResume(r)' /\ Status(r) # "absent" => CanResume(r)
  BY <1>4 DEF Adopts, CanResume
<1>5. ASSUME NEW c \in Conns, AcCompletes(c)
      PROVE  \A r \in Rows : CanResume(r)' /\ Status(r) # "absent" => CanResume(r)
  BY <1>5 DEF AcCompletes, CanResume
<1>6. ASSUME NEW c \in Conns, GoesLive(c)
      PROVE  \A r \in Rows : CanResume(r)' /\ Status(r) # "absent" => CanResume(r)
  BY <1>6 DEF GoesLive, CanResume
<1>7. ASSUME NEW c \in Conns, Resumes(c)
      PROVE  \A r \in Rows : CanResume(r)' /\ Status(r) # "absent" => CanResume(r)
  BY <1>7 DEF Resumes, CanResume
<1>8. ASSUME NEW c \in Conns, Breaks(c)
      PROVE  \A r \in Rows : CanResume(r)' /\ Status(r) # "absent" => CanResume(r)
  BY <1>8 DEF Breaks, CanResume
<1>9. ASSUME NEW c \in Conns, Loses(c)
      PROVE  \A r \in Rows : CanResume(r)' /\ Status(r) # "absent" => CanResume(r)
  BY <1>9 DEF Loses, CanResume
<1>10. ASSUME NEW c \in Conns, Disconnects(c)
      PROVE  \A r \in Rows : CanResume(r)' /\ Status(r) # "absent" => CanResume(r)
  BY <1>10 DEF Disconnects, CanResume
<1>11. ASSUME SessionKept
      PROVE  \A r \in Rows : CanResume(r)' /\ Status(r) # "absent" => CanResume(r)
  BY <1>11 DEF SessionKept, CanResume
<1>12. ASSUME HolderDrops
      PROVE  \A r \in Rows : CanResume(r)' /\ Status(r) # "absent" => CanResume(r)
  BY <1>12 DEF HolderDrops, CanResume
<1>13. ASSUME Restarts
      PROVE  \A r \in Rows : CanResume(r)' /\ Status(r) # "absent" => CanResume(r)
  BY <1>13 DEF Restarts, CanResume
<1> QED BY <1>1, <1>2, <1>3, <1>4, <1>5, <1>6, <1>7, <1>8, <1>9, <1>10, <1>11, <1>12, <1>13 DEF
     SessionDoes

\* A recorded operation is on record.
RecordedOnLog ==
  \A m \in Msgs, c \in Conns : At(m) = "recorded" /\ To(m) = c =>
    \E x \in log : x.row = Row(c) /\ x.id = Id(m) /\ x.msg = m

\* What is left to reissue is on record.
TodoOnLog ==
  \A c \in Conns : \A e \in Todo(c) :
    /\ e.row = Row(c)
    /\ \E x \in log : x.row = Row(c) /\ x.id = e.id /\ x.msg = e.msg

\* The answer of e is awaited.
Awaited(c, e) == [id |-> e.id, msg |-> e.msg] \in Aw(c)

\* A session that reissues has what is on record awaited or left to reissue.
ReissuesAll ==
  faults = 0 /\ ~behind => \A c \in mapped : Step(c) = "send" =>
    \A e \in log : e.row = Row(c) /\ ~e.done /\ ~LateId(e.id) => Awaited(c, e) \/ e \in Todo(c)

\* An active session has what is on record awaited or about to be sent.
AwaitsAll ==
  faults = 0 /\ ~behind => \A c \in mapped : St(c) = "active" =>
    \A e \in log : e.row = Row(c) /\ ~e.done /\ ~LateId(e.id) =>
      Awaited(c, e) \/ (At(e.msg) = "recorded" /\ To(e.msg) = c /\ Id(e.msg) = e.id)

\* No step removes an operation from the log.
LEMMA KeepsRecordedOnLog ==
  ASSUME Base, ReissueGate, SendGate, RecordedOnLog, Does
  PROVE  RecordedOnLog'
<1>s. Small
  BY SmallOK DEF Base
<1>b. Phases /\ BusyTarget /\ HolderHasRow
  BY DEF Base
<1>k. /\ \A e \in log : \E x \in log' : x.row = e.row /\ x.id = e.id /\ x.msg = e.msg
      /\ \A c \in Conns : St(c) # "connecting" => Row(c)' = Row(c)
  <2>1. SessionDoes
    BY SessionSteps
  <2> QED BY <2>1, LogGrows, RowKept
<1> USE DEF OthersSame, SameObj, SameObjs, SameStatus, SameHeld, SameGhosts, SameFaults,
     SameReissue, SameSender, SameSenders, SameFrames, Stays
<1>1. ASSUME NEW c \in Conns, AcOpens(c)
      PROVE  RecordedOnLog'
  BY <1>1, <1>s, <1>b, <1>k DEF AcOpens, BusyTarget, Busy, Sending, RecordedOnLog
<1>2. ASSUME NEW c \in Conns, Looks(c)
      PROVE  RecordedOnLog'
  BY <1>2, <1>s, <1>b, <1>k DEF Looks, BusyTarget, Busy, Sending, RecordedOnLog
<1>3. ASSUME NEW c \in Conns, Creates(c)
      PROVE  RecordedOnLog'
  BY <1>3, <1>s, <1>b, <1>k DEF Creates, BusyTarget, Busy, Sending, RecordedOnLog
<1>4. ASSUME NEW c \in Conns, NEW k \in BOOLEAN, Adopts(c, k)
      PROVE  RecordedOnLog'
  BY <1>4, <1>s, <1>b, <1>k DEF Adopts, BusyTarget, Busy, Sending, RecordedOnLog
<1>5. ASSUME NEW c \in Conns, AcCompletes(c)
      PROVE  RecordedOnLog'
  BY <1>5, <1>s, <1>b, <1>k DEF AcCompletes, BusyTarget, Busy, Sending, RecordedOnLog
<1>6. ASSUME NEW c \in Conns, GoesLive(c)
      PROVE  RecordedOnLog'
  BY <1>6, <1>s, <1>b, <1>k DEF GoesLive, BusyTarget, Busy, Sending, RecordedOnLog
<1>7. ASSUME NEW c \in Conns, Resumes(c)
      PROVE  RecordedOnLog'
  BY <1>7, <1>s, <1>b, <1>k DEF Resumes, BusyTarget, Busy, Sending, RecordedOnLog
<1>8. ASSUME NEW c \in Conns, Breaks(c)
      PROVE  RecordedOnLog'
  BY <1>8, <1>s, <1>b, <1>k DEF Breaks, BusyTarget, Busy, Sending, RecordedOnLog
<1>9. ASSUME NEW c \in Conns, Loses(c)
      PROVE  RecordedOnLog'
  BY <1>9, <1>s, <1>b, <1>k DEF Loses, BusyTarget, Busy, Sending, RecordedOnLog
<1>10. ASSUME NEW c \in Conns, Disconnects(c)
      PROVE  RecordedOnLog'
  BY <1>10, <1>s, <1>b, <1>k DEF Disconnects, BusyTarget, Busy, Sending, RecordedOnLog
<1>11. ASSUME NEW c \in Conns, ReissueReads(c)
      PROVE  RecordedOnLog'
  BY <1>11, <1>s, <1>b, <1>k DEF ReissueReads, BusyTarget, Busy, Sending, RecordedOnLog
<1>12. ASSUME NEW c \in Conns, Reissues(c)
      PROVE  RecordedOnLog'
  BY <1>12, <1>s, <1>b, <1>k DEF Reissues, Writes, BusyTarget, Busy, Sending, RecordedOnLog
<1>13. ASSUME NEW c \in Conns, NEW f \in FrameType, Settles(c, f)
      PROVE  RecordedOnLog'
  BY <1>13, <1>s, <1>b, <1>k DEF Settles, BusyTarget, Busy, Sending, RecordedOnLog
<1>14. ASSUME NEW m \in Msgs, FindsTargets(m)
      PROVE  RecordedOnLog'
  BY <1>14, <1>s, <1>b, <1>k DEF FindsTargets, HolderRecords, BusyTarget, Busy, Sending,
     RecordedOnLog
<1>15. ASSUME NEW m \in Msgs, NEW c \in Conns, Issues(m, c)
      PROVE  RecordedOnLog'
  BY <1>15, <1>s, <1>b, <1>k DEF Issues, BusyTarget, Busy, Sending, RecordedOnLog
<1>16. ASSUME NEW m \in Msgs, NEW c \in Conns, Records(m, c)
      PROVE  RecordedOnLog'
  <2>1. (\A n \in Msgs : n # m => SameSender(n)) /\ c \in Objects
    BY <1>16, <1>s DEF Records, Small
  <2>2. At(m)' = "recorded" => log' = log \cup {Entry(Row(c), Id(m), m)} /\ Id(m)' = Id(m) /\ To(m)' = c
    BY <1>16 DEF Records, Leaves
  <2>3. Row(c)' = Row(c)
    BY <1>16, <2>1 DEF Records, SameObjs, SameObj
  <2>4. At(m)' = "recorded" => \E x \in log' : x.row = Row(c)' /\ x.id = Id(m)' /\ x.msg = m
    BY <2>2, <2>3, EntryFields
  <2> QED BY <1>b, <1>k, <2>1, <2>2, <2>4 DEF RecordedOnLog, SameSender, BusyTarget, Busy, Sending
<1>17. ASSUME NEW m \in Msgs, NEW c \in Conns, NEW id \in OpIds, Sends(m, c, id)
      PROVE  RecordedOnLog'
  BY <1>17, <1>s, <1>b, <1>k DEF Sends, Writes, Leaves, BusyTarget, Busy, Sending, RecordedOnLog
<1>18. ASSUME Quiet
      PROVE  RecordedOnLog'
  BY <1>18, <1>s, <1>b, <1>k DEF Quiet, BusyTarget, Busy, Sending, RecordedOnLog
<1>19. ASSUME Restarts
      PROVE  RecordedOnLog'
  BY <1>19, <1>s, <1>b, <1>k DEF Restarts, BusyTarget, Busy, Sending, RecordedOnLog
<1> QED BY <1>1, <1>2, <1>3, <1>4, <1>5, <1>6, <1>7, <1>8, <1>9, <1>10, <1>11, <1>12, <1>13,
     <1>14, <1>15, <1>16, <1>17, <1>18, <1>19 DEF Does

\* The reissue reads what is on record.
LEMMA KeepsTodoOnLog ==
  ASSUME Base, ReissueGate, TodoOnLog, Does
  PROVE  TodoOnLog'
<1>s. Small
  BY SmallOK DEF Base
<1>b. Phases /\ BusyTarget /\ HolderHasRow
  BY DEF Base
<1>k. /\ \A e \in log : \E x \in log' : x.row = e.row /\ x.id = e.id /\ x.msg = e.msg
      /\ \A c \in Conns : St(c) # "connecting" => Row(c)' = Row(c)
  <2>1. SessionDoes
    BY SessionSteps
  <2> QED BY <2>1, LogGrows, RowKept
<1> USE DEF OthersSame, SameObj, SameObjs, SameStatus, SameHeld, SameGhosts, SameFaults,
     SameReissue, SameSender, SameSenders, SameFrames, Stays
<1>1. ASSUME NEW c \in Conns, AcOpens(c)
      PROVE  TodoOnLog'
  BY <1>1, <1>s, <1>b, <1>k DEF AcOpens, ReissueGate, TodoOnLog
<1>2. ASSUME NEW c \in Conns, Looks(c)
      PROVE  TodoOnLog'
  BY <1>2, <1>s, <1>b, <1>k DEF Looks, ReissueGate, TodoOnLog
<1>3. ASSUME NEW c \in Conns, Creates(c)
      PROVE  TodoOnLog'
  BY <1>3, <1>s, <1>b, <1>k DEF Creates, ReissueGate, TodoOnLog
<1>4. ASSUME NEW c \in Conns, NEW k \in BOOLEAN, Adopts(c, k)
      PROVE  TodoOnLog'
  BY <1>4, <1>s, <1>b, <1>k DEF Adopts, ReissueGate, TodoOnLog
<1>5. ASSUME NEW c \in Conns, AcCompletes(c)
      PROVE  TodoOnLog'
  BY <1>5, <1>s, <1>b, <1>k DEF AcCompletes, ReissueGate, TodoOnLog
<1>6. ASSUME NEW c \in Conns, GoesLive(c)
      PROVE  TodoOnLog'
  BY <1>6, <1>s, <1>b, <1>k DEF GoesLive, ReissueGate, TodoOnLog
<1>7. ASSUME NEW c \in Conns, Resumes(c)
      PROVE  TodoOnLog'
  BY <1>7, <1>s, <1>b, <1>k DEF Resumes, ReissueGate, TodoOnLog
<1>8. ASSUME NEW c \in Conns, Breaks(c)
      PROVE  TodoOnLog'
  BY <1>8, <1>s, <1>b, <1>k DEF Breaks, ReissueGate, TodoOnLog
<1>9. ASSUME NEW c \in Conns, Loses(c)
      PROVE  TodoOnLog'
  BY <1>9, <1>s, <1>b, <1>k DEF Loses, ReissueGate, TodoOnLog
<1>10. ASSUME NEW c \in Conns, Disconnects(c)
      PROVE  TodoOnLog'
  BY <1>10, <1>s, <1>b, <1>k DEF Disconnects, ReissueGate, TodoOnLog
<1>11. ASSUME NEW c \in Conns, ReissueReads(c)
      PROVE  TodoOnLog'
  <2>1. \A d \in Conns : d # c => Todo(d)' = Todo(d)
    BY <1>11 DEF ReissueReads
  <2>2. Todo(c) = {} /\ Row(c)' = Row(c) /\ log' = log
    BY <1>11, <1>s DEF ReissueReads, ReissueGate, SameObjs, SameObj, Small
  <2>3. Todo(c)' \subseteq Pending(Row(c))
    BY <1>11, <2>2 DEF ReissueReads
  <2>4. \A d \in Conns : Row(d)' = Row(d)
    BY <1>11, <1>s DEF ReissueReads, SameObjs, SameObj, Small
  <2> QED BY <2>1, <2>2, <2>3, <2>4 DEF TodoOnLog, Pending
<1>12. ASSUME NEW c \in Conns, Reissues(c)
      PROVE  TodoOnLog'
  <2>1. \A d \in Conns : Row(d)' = Row(d) /\ Todo(d)' \subseteq Todo(d)
    BY <1>12, <1>s DEF Reissues, Stays, OthersSame, SameObj, Small
  <2>2. log' = log
    BY <1>12 DEF Reissues
  <2> QED BY <2>1, <2>2 DEF TodoOnLog
<1>13. ASSUME NEW c \in Conns, NEW f \in FrameType, Settles(c, f)
      PROVE  TodoOnLog'
  <2>1. \A d \in Conns : Row(d)' = Row(d) /\ Todo(d)' = Todo(d)
    BY <1>13, <1>s DEF Settles, SameReissue, Stays, OthersSame, SameObj, Small
  <2> QED BY <1>k, <2>1 DEF TodoOnLog
<1>14. ASSUME NEW m \in Msgs, FindsTargets(m)
      PROVE  TodoOnLog'
  <2>1. \A d \in Conns : Todo(d)' = Todo(d)
    BY <1>14 DEF FindsTargets, SameReissue
  <2>2. \A d \in Conns : \A e \in Todo(d) : St(d) # "connecting"
    BY DEF ReissueGate
  <2> QED BY <1>k, <2>1, <2>2 DEF TodoOnLog
<1>15. ASSUME NEW m \in Msgs, NEW c \in Conns, Issues(m, c)
      PROVE  TodoOnLog'
  BY <1>15, <1>s, <1>b, <1>k DEF Issues, ReissueGate, TodoOnLog
<1>16. ASSUME NEW m \in Msgs, NEW c \in Conns, Records(m, c)
      PROVE  TodoOnLog'
  <2>1. \A d \in Conns : Row(d)' = Row(d) /\ Todo(d)' = Todo(d)
    BY <1>16, <1>s DEF Records, SameReissue, SameObjs, SameObj, Small
  <2> QED BY <1>k, <2>1 DEF TodoOnLog
<1>17. ASSUME NEW m \in Msgs, NEW c \in Conns, NEW id \in OpIds, Sends(m, c, id)
      PROVE  TodoOnLog'
  BY <1>17, <1>s, <1>b, <1>k DEF Sends, Writes, Leaves, ReissueGate, TodoOnLog
<1>18. ASSUME Quiet
      PROVE  TodoOnLog'
  BY <1>18, <1>s, <1>b, <1>k DEF Quiet, ReissueGate, TodoOnLog
<1>19. ASSUME Restarts
      PROVE  TodoOnLog'
  BY <1>19, <1>s, <1>b, <1>k DEF Restarts, ReissueGate, TodoOnLog
<1> QED BY <1>1, <1>2, <1>3, <1>4, <1>5, <1>6, <1>7, <1>8, <1>9, <1>10, <1>11, <1>12, <1>13,
     <1>14, <1>15, <1>16, <1>17, <1>18, <1>19 DEF Does

\* During the reissue no broadcast and no holder records for the session.
LEMMA KeepsReissuesAll ==
  ASSUME Base, ReissueGate, SendGate, HeldWhileMapped, IdsOnce, TodoOnLog, ReissuesAll, Does
  PROVE  ReissuesAll'
<1>s. Small
  BY SmallOK DEF Base
<1>b. Phases /\ BusyTarget /\ HolderHasRow
  BY DEF Base
<1> USE DEF OthersSame, SameObj, SameObjs, SameStatus, SameHeld, SameGhosts, SameFaults,
     SameReissue, SameSender, SameSenders, SameFrames, Stays
<1>1. ASSUME NEW c \in Conns, AcOpens(c)
      PROVE  ReissuesAll'
  BY <1>1, <1>s, <1>b DEF AcOpens, Small, Phases, ReissueGate, LateId, Awaited, ReissuesAll
<1>2. ASSUME NEW c \in Conns, Looks(c)
      PROVE  ReissuesAll'
  BY <1>2, <1>s, <1>b DEF Looks, Small, Phases, ReissueGate, LateId, Awaited, ReissuesAll
<1>3. ASSUME NEW c \in Conns, Creates(c)
      PROVE  ReissuesAll'
  BY <1>3, <1>s, <1>b DEF Creates, Small, Phases, ReissueGate, LateId, Awaited, ReissuesAll
<1>4. ASSUME NEW c \in Conns, NEW k \in BOOLEAN, Adopts(c, k)
      PROVE  ReissuesAll'
  BY <1>4, <1>s, <1>b DEF Adopts, Small, Phases, ReissueGate, LateId, Awaited, ReissuesAll
<1>5. ASSUME NEW c \in Conns, AcCompletes(c)
      PROVE  ReissuesAll'
  BY <1>5, <1>s, <1>b DEF AcCompletes, Small, Phases, ReissueGate, LateId, Awaited, ReissuesAll
<1>6. ASSUME NEW c \in Conns, GoesLive(c)
      PROVE  ReissuesAll'
  BY <1>6, <1>s, <1>b DEF GoesLive, Small, Phases, ReissueGate, LateId, Awaited, ReissuesAll
<1>7. ASSUME NEW c \in Conns, Resumes(c)
      PROVE  ReissuesAll'
  BY <1>7, <1>s, <1>b DEF Resumes, Small, Phases, ReissueGate, LateId, Awaited, ReissuesAll
<1>8. ASSUME NEW c \in Conns, Breaks(c)
      PROVE  ReissuesAll'
  BY <1>8, <1>s, <1>b DEF Breaks, Small, Phases, ReissueGate, LateId, Awaited, ReissuesAll
<1>9. ASSUME NEW c \in Conns, Loses(c)
      PROVE  ReissuesAll'
  BY <1>9, <1>s, <1>b DEF Loses, Small, Phases, ReissueGate, LateId, Awaited, ReissuesAll
<1>10. ASSUME NEW c \in Conns, Disconnects(c)
      PROVE  ReissuesAll'
  BY <1>10, <1>s, <1>b DEF Disconnects, Small, Phases, ReissueGate, LateId, Awaited, ReissuesAll
<1>11. ASSUME NEW c \in Conns, ReissueReads(c)
      PROVE  ReissuesAll'
  <2>1. \A d \in Conns : Row(d)' = Row(d) /\ Aw(d)' = Aw(d) /\ (d # c => Step(d)' = Step(d) /\ Todo(d)' = Todo(d))
    BY <1>11, <1>s DEF ReissueReads, SameObjs, SameObj, Small
  <2>2. log' = log /\ late' = late /\ (behind' <=> behind) /\ mapped' = mapped /\ SameFaults
    BY <1>11 DEF ReissueReads, SameGhosts
  <2>3. faults' = 0 => Todo(c)' = Pending(Row(c))
    BY <1>11 DEF ReissueReads
  <2> QED BY <1>s, <2>1, <2>2, <2>3 DEF ReissuesAll, LateId, SameFaults, Awaited, Pending, Small
<1>12. ASSUME NEW c \in Conns, Reissues(c)
      PROVE  ReissuesAll'
  <2>1. \A d \in Conns : /\ Row(d)' = Row(d)
                         /\ d # c => Aw(d)' = Aw(d) /\ Step(d)' = Step(d) /\ Todo(d)' = Todo(d) /\ St(d)' = St(d)
    BY <1>12, <1>s DEF Reissues, Stays, OthersSame, SameObj, Small
  <2>2. log' = log /\ late' = late /\ (behind' <=> behind) /\ mapped' = mapped /\ SameFaults /\ SameSenders
    BY <1>12 DEF Reissues, SameGhosts
  <2>a. ASSUME NEW i \in OpIds, NEW n \in Msgs, Writes(c, i, n), ~behind,
               \E x \in log : x.row = Row(c) /\ x.id = i /\ x.msg = n,
               NEW g \in log, g.row = Row(c), ~LateId(g.id), Awaited(c, g)
        PROVE  Awaited(c, g)'
    <3> DEFINE a == [id |-> g.id, msg |-> g.msg]
    <3>1. a.id = g.id /\ a \in Aw(c)
      BY <2>a DEF Awaited
    <3>2. CASE g.id # i
      BY <2>a, <3>1, <3>2 DEF Writes, Awaited
    <3>3. CASE g.id = i
      <4>1. g.msg = n
        BY <2>a, <3>3 DEF IdsOnce
      <4> QED BY <2>a, <3>3, <4>1 DEF Writes, Awaited
    <3> QED BY <3>2, <3>3
  <2>3. ASSUME NEW e \in Todo(c), Writes(c, e.id, e.msg), ~behind
        PROVE  /\ \A g \in log : g.row = Row(c) /\ ~LateId(g.id) /\ Awaited(c, g) => Awaited(c, g)'
               /\ Awaited(c, e)'
    <3>1. e.id \in OpIds /\ e.msg \in Msgs
      BY FrameFacts DEF Base
    <3>2. \E x \in log : x.row = Row(c) /\ x.id = e.id /\ x.msg = e.msg
      BY DEF TodoOnLog
    <3>3. \A g \in log : g.row = Row(c) /\ ~LateId(g.id) /\ Awaited(c, g) => Awaited(c, g)'
      BY <2>3, <2>a, <3>1, <3>2
    <3>4. Awaited(c, e)'
      BY <2>3 DEF Writes, Awaited
    <3> QED BY <3>3, <3>4
  <2>4. CASE Step(c)' = "none"
    BY <1>s, <2>1, <2>2, <2>4 DEF ReissuesAll, LateId, SameFaults, Awaited, Small
  <2>5. ASSUME NEW e \in Todo(c), Writes(c, e.id, e.msg), Todo(c)' = Todo(c) \ {e}
        PROVE  ReissuesAll'
    <3>1. ~behind => /\ \A g \in log : g.row = Row(c) /\ ~LateId(g.id) /\ Awaited(c, g) => Awaited(c, g)'
                     /\ Awaited(c, e)'
      BY <2>3, <2>5
    <3>2. \A d \in Conns, g \in log : d # c /\ Awaited(d, g) => Awaited(d, g)'
      BY <2>1 DEF Awaited
    <3>3. Step(c) = "send"
      BY <1>12 DEF Reissues
    <3> SUFFICES ASSUME faults' = 0, ~behind', NEW d \in mapped', Step(d)' = "send", NEW g \in log',
                        g.row = Row(d)', ~g.done, ~LateId(g.id)', ~Awaited(d, g)'
                 PROVE  g \in Todo(d)'
      BY DEF ReissuesAll
    <3>4. ~LateId(g.id) /\ faults = 0 /\ ~behind /\ g \in log /\ d \in mapped /\ d \in Conns /\ Row(d) = g.row
      BY <1>s, <2>1, <2>2 DEF LateId, SameFaults, Small
    <3>5. CASE d = c
      <4>1. ~Awaited(c, g)
        BY <3>1, <3>4, <3>5
      <4>2. g \in Todo(c)
        BY <3>3, <3>4, <3>5, <4>1 DEF ReissuesAll
      <4>3. g # e
        BY <3>1, <3>4, <3>5
      <4> QED BY <2>5, <3>5, <4>2, <4>3
    <3>6. CASE d # c
      BY <2>1, <3>2, <3>4, <3>6 DEF ReissuesAll
    <3> QED BY <3>5, <3>6
  <2> QED BY <1>12, <2>4, <2>5 DEF Reissues
<1>13. ASSUME NEW c \in Conns, NEW f \in FrameType, Settles(c, f)
      PROVE  ReissuesAll'
  <2>1. \A d \in Conns : /\ Row(d)' = Row(d) /\ St(d)' = St(d) /\ Step(d)' = Step(d) /\ Todo(d)' = Todo(d)
                         /\ d # c => Aw(d)' = Aw(d)
    BY <1>13, <1>s DEF Settles, SameReissue, Stays, OthersSame, SameObj, Small
  <2>2. late' = late /\ (behind' <=> behind) /\ mapped' = mapped /\ SameFaults /\ SameSenders
    BY <1>13 DEF Settles, SameGhosts
  <2>3. ASSUME faults' = 0, NEW x \in log', ~x.done
        PROVE  x \in log /\ \A d \in Conns : Row(d) = x.row /\ Awaited(d, x) => Awaited(d, x)'
    <3>1. CASE log' = Completed(Row(c), f.id)
      <4>1. x \in log /\ ~(x.row = Row(c) /\ x.id = f.id)
        BY <2>3, <3>1, CompletedFields DEF Base
      <4>2. Row(c) = x.row /\ Awaited(c, x) => Awaited(c, x)'
        <5>1. [id |-> x.id, msg |-> x.msg].id = x.id
          OBVIOUS
        <5>2. Row(c) = x.row => [id |-> x.id, msg |-> x.msg] # f
          BY <4>1, <5>1
        <5> QED BY <1>13, <5>2 DEF Settles, Awaited
      <4> QED BY <2>1, <4>1, <4>2 DEF Awaited
    <3>2. CASE log' = log /\ f \notin Aw(c)
      <4>1. Aw(c)' = Aw(c)
        BY <1>13, <3>2 DEF Settles
      <4> QED BY <2>1, <2>3, <3>2, <4>1 DEF Awaited
    <3> QED BY <1>13, <2>3, <3>1, <3>2 DEF Settles
  <2> QED BY <1>s, <2>1, <2>2, <2>3 DEF ReissuesAll, LateId, SameFaults, Small
<1>14. ASSUME NEW m \in Msgs, FindsTargets(m)
      PROVE  ReissuesAll'
  <2>1. late' = late /\ (behind' <=> behind) /\ mapped' = mapped /\ SameFaults /\ (\A n \in Msgs : n # m => SameSender(n))
        /\ At(m) = "idle" /\ SameReissue
    BY <1>14 DEF FindsTargets
  <2>2. \A d \in Conns : Row(d)' = Row(d) /\ St(d)' = St(d) /\ Aw(d)' = Aw(d)
    BY <1>14, <1>s DEF FindsTargets, HolderRecords, SameObjs, SameObj, Stays, Small
  <2>3. \A d \in mapped : St(d) # "connecting" => log' = log
    <3>1. ASSUME NEW failed \in BOOLEAN, NEW r \in Rows, NEW o \in Objects, HolderRecords(r, o, m, failed)
          PROVE  \A d \in mapped : St(d) = "connecting"
      BY <1>s, <1>b, <3>1 DEF HolderRecords, HeldWhileMapped, Phases, Small
    <3> QED BY <1>14, <3>1 DEF FindsTargets
  <2>4. \A d \in Conns : Step(d) = "send" => St(d) # "connecting"
    BY DEF ReissueGate
  <2> QED BY <1>s, <2>1, <2>2, <2>3, <2>4 DEF ReissuesAll, LateId, SameFaults, SameReissue, Awaited, Small
<1>15. ASSUME NEW m \in Msgs, NEW c \in Conns, Issues(m, c)
      PROVE  ReissuesAll'
  BY <1>15, <1>s, <1>b DEF Issues, Small, Phases, ReissueGate, LateId, Awaited, ReissuesAll
<1>16. ASSUME NEW m \in Msgs, NEW c \in Conns, Records(m, c)
      PROVE  ReissuesAll'
  <2>1. \A d \in Conns : Row(d)' = Row(d) /\ St(d)' = St(d) /\ Aw(d)' = Aw(d) /\ Step(d)' = Step(d) /\ Todo(d)' = Todo(d)
    BY <1>16, <1>s DEF Records, SameObjs, SameObj, SameReissue, Small
  <2>2. (behind' <=> behind) /\ mapped' = mapped /\ SameFaults /\ (\A n \in Msgs : n # m => SameSender(n))
    BY <1>16 DEF Records
  <2>l. log' = log \/ log' = log \cup {Entry(Row(c), Id(m), m)}
    BY <1>16 DEF Records
  <2>k. \A i : LateId(i) => LateId(i)'
    BY <1>16 DEF Records, LateId
  <2>i. PICK i : i = Id(m)
    OBVIOUS
  <2>m. log' # log => LateId(i)' \/ Owner(c)
    <3>1. CASE log' = log \cup {Entry(Row(c), Id(m), m)} /\ late' = late \cup {Entry(Row(c), Id(m), m)}
      BY <2>i, <3>1, EntryFields DEF LateId
    <3> QED BY <1>16, <3>1 DEF Records
  <2>g. gate[c] = "send" /\ To(m) = c
    BY <1>16 DEF Records, SendGate, Sending
  <2>3. ASSUME NEW e \in log', e \notin log, ~LateId(e.id)', NEW d \in mapped, Row(d)' = e.row
        PROVE  d = c /\ e.msg = m /\ e.id = Id(m) /\ At(m)' = "recorded" /\ To(m)' = c /\ Id(m)' = Id(m)
    <3>1. e.row = Row(c) /\ e.id = Id(m) /\ e.msg = m /\ log' # log
      BY <2>3, <2>l, EntryFields
    <3>2. Owner(c)
      BY <2>3, <2>i, <2>m, <3>1 DEF LateId
    <3>3. d = c
      BY <1>s, <2>1, <2>3, <3>1, <3>2, OwnerUnique DEF Owner, Small
    <3>4. At(m)' = "recorded" /\ To(m)' = c /\ Id(m)' = Id(m)
      BY <1>16, <3>1 DEF Records
    <3> QED BY <3>1, <3>3, <3>4
  <2>4. Step(c) # "send"
    BY <2>g DEF ReissueGate
  <2> QED BY <1>s, <2>1, <2>2, <2>3, <2>4, <2>k DEF ReissuesAll, SameFaults, Awaited, Small
<1>17. ASSUME NEW m \in Msgs, NEW c \in Conns, NEW id \in OpIds, Sends(m, c, id)
      PROVE  ReissuesAll'
  <2>1. \A d \in Conns : /\ Row(d)' = Row(d) /\ Step(d)' = Step(d) /\ Todo(d)' = Todo(d)
                         /\ d # c => Aw(d)' = Aw(d)
    BY <1>17, <1>s DEF Sends, SameReissue, Stays, OthersSame, SameObj, Small
  <2>2. log' = log /\ late' = late /\ (behind' <=> behind) /\ mapped' = mapped /\ SameFaults
    BY <1>17 DEF Sends
  <2>3. gate[c] = "send"
    BY <1>17 DEF Sends, SendGate, Sending
  <2>4. Step(c) # "send"
    BY <2>3 DEF ReissueGate
  <2> QED BY <1>s, <2>1, <2>2, <2>4 DEF ReissuesAll, LateId, SameFaults, Awaited, Small
<1>18. ASSUME Quiet
      PROVE  ReissuesAll'
  BY <1>18, <1>s, <1>b DEF Quiet, Small, Phases, ReissueGate, LateId, Awaited, ReissuesAll
<1>19. ASSUME Restarts
      PROVE  ReissuesAll'
  BY <1>19, <1>s, <1>b DEF Restarts, Small, Phases, ReissueGate, LateId, Awaited, ReissuesAll
<1> QED BY <1>1, <1>2, <1>3, <1>4, <1>5, <1>6, <1>7, <1>8, <1>9, <1>10, <1>11, <1>12, <1>13,
     <1>14, <1>15, <1>16, <1>17, <1>18, <1>19 DEF Does

\* After the reissue an operation is recorded, then sent, inside the gate.
LEMMA KeepsAwaitsAll ==
  ASSUME Base, ReissueGate, SendGate, HeldWhileMapped, IdsOnce, TodoOnLog, RecordedOnLog, ReissuesAll, AwaitsAll, Does
  PROVE  AwaitsAll'
<1>s. Small
  BY SmallOK DEF Base
<1>b. Phases /\ BusyTarget /\ HolderHasRow
  BY DEF Base
<1>m. \A e \in log : e.msg \in Msgs
  BY DEF Base, TypeOK, EntryType
<1> USE DEF OthersSame, SameObj, SameObjs, SameStatus, SameHeld, SameGhosts, SameFaults,
     SameReissue, SameSender, SameSenders, SameFrames, Stays
<1>1. ASSUME NEW c \in Conns, AcOpens(c)
      PROVE  AwaitsAll'
  BY <1>1, <1>s, <1>b, <1>m DEF AcOpens, Small, Phases, ReissueGate, LateId, Awaited, AwaitsAll
<1>2. ASSUME NEW c \in Conns, Looks(c)
      PROVE  AwaitsAll'
  BY <1>2, <1>s, <1>b, <1>m DEF Looks, Small, Phases, ReissueGate, LateId, Awaited, AwaitsAll
<1>3. ASSUME NEW c \in Conns, Creates(c)
      PROVE  AwaitsAll'
  BY <1>3, <1>s, <1>b, <1>m DEF Creates, Small, Phases, ReissueGate, LateId, Awaited, AwaitsAll
<1>4. ASSUME NEW c \in Conns, NEW k \in BOOLEAN, Adopts(c, k)
      PROVE  AwaitsAll'
  BY <1>4, <1>s, <1>b, <1>m DEF Adopts, Small, Phases, ReissueGate, LateId, Awaited, AwaitsAll
<1>5. ASSUME NEW c \in Conns, AcCompletes(c)
      PROVE  AwaitsAll'
  BY <1>5, <1>s, <1>b, <1>m DEF AcCompletes, Small, Phases, ReissueGate, LateId, Awaited,
     AwaitsAll
<1>6. ASSUME NEW c \in Conns, GoesLive(c)
      PROVE  AwaitsAll'
  BY <1>6, <1>s, <1>b, <1>m DEF GoesLive, Small, Phases, ReissueGate, LateId, Awaited, AwaitsAll
<1>7. ASSUME NEW c \in Conns, Resumes(c)
      PROVE  AwaitsAll'
  BY <1>7, <1>s, <1>b, <1>m DEF Resumes, Small, Phases, ReissueGate, LateId, Awaited, AwaitsAll
<1>8. ASSUME NEW c \in Conns, Breaks(c)
      PROVE  AwaitsAll'
  BY <1>8, <1>s, <1>b, <1>m DEF Breaks, Small, Phases, ReissueGate, LateId, Awaited, AwaitsAll
<1>9. ASSUME NEW c \in Conns, Loses(c)
      PROVE  AwaitsAll'
  BY <1>9, <1>s, <1>b, <1>m DEF Loses, Small, Phases, ReissueGate, LateId, Awaited, AwaitsAll
<1>10. ASSUME NEW c \in Conns, Disconnects(c)
      PROVE  AwaitsAll'
  BY <1>10, <1>s, <1>b, <1>m DEF Disconnects, Small, Phases, ReissueGate, LateId, Awaited,
     AwaitsAll
<1>11. ASSUME NEW c \in Conns, ReissueReads(c)
      PROVE  AwaitsAll'
  BY <1>11, <1>s, <1>b, <1>m DEF ReissueReads, Small, Phases, ReissueGate, LateId, Awaited,
     AwaitsAll
<1>12. ASSUME NEW c \in Conns, Reissues(c)
      PROVE  AwaitsAll'
  <2>1. \A d \in Conns : /\ Row(d)' = Row(d)
                         /\ d # c => Aw(d)' = Aw(d) /\ Step(d)' = Step(d) /\ Todo(d)' = Todo(d) /\ St(d)' = St(d)
    BY <1>12, <1>s DEF Reissues, Stays, OthersSame, SameObj, Small
  <2>2. log' = log /\ late' = late /\ (behind' <=> behind) /\ mapped' = mapped /\ SameFaults /\ SameSenders
    BY <1>12 DEF Reissues, SameGhosts
  <2>a. ASSUME NEW i \in OpIds, NEW n \in Msgs, Writes(c, i, n), ~behind,
               \E x \in log : x.row = Row(c) /\ x.id = i /\ x.msg = n,
               NEW g \in log, g.row = Row(c), ~LateId(g.id), Awaited(c, g)
        PROVE  Awaited(c, g)'
    <3> DEFINE a == [id |-> g.id, msg |-> g.msg]
    <3>1. a.id = g.id /\ a \in Aw(c)
      BY <2>a DEF Awaited
    <3>2. CASE g.id # i
      BY <2>a, <3>1, <3>2 DEF Writes, Awaited
    <3>3. CASE g.id = i
      <4>1. g.msg = n
        BY <2>a, <3>3 DEF IdsOnce
      <4> QED BY <2>a, <3>3, <4>1 DEF Writes, Awaited
    <3> QED BY <3>2, <3>3
  <2>3. ASSUME NEW e \in Todo(c), Writes(c, e.id, e.msg), ~behind
        PROVE  /\ \A g \in log : g.row = Row(c) /\ ~LateId(g.id) /\ Awaited(c, g) => Awaited(c, g)'
               /\ Awaited(c, e)'
    <3>1. e.id \in OpIds /\ e.msg \in Msgs
      BY FrameFacts DEF Base
    <3>2. \E x \in log : x.row = Row(c) /\ x.id = e.id /\ x.msg = e.msg
      BY DEF TodoOnLog
    <3>3. \A g \in log : g.row = Row(c) /\ ~LateId(g.id) /\ Awaited(c, g) => Awaited(c, g)'
      BY <2>3, <2>a, <3>1, <3>2
    <3>4. Awaited(c, e)'
      BY <2>3 DEF Writes, Awaited
    <3> QED BY <3>3, <3>4
  <2>4. Step(c) = "send" /\ (St(c)' = "active" => Step(c)' = "none" \/ St(c) = "active")
    BY <1>12 DEF Reissues
  <2>5. St(c) # "active"
    BY <2>4 DEF ReissueGate
  <2>6. ASSUME St(c)' = "active", faults = 0, ~behind, NEW g \in log, g.row = Row(c), ~g.done, ~LateId(g.id), c \in mapped
        PROVE  Awaited(c, g)'
    <3>1. Awaited(c, g) \/ g \in Todo(c)
      BY <2>4, <2>6 DEF ReissuesAll
    <3>2. CASE Todo(c) = {} /\ Aw(c)' = Aw(c)
      BY <3>1, <3>2 DEF Awaited
    <3>3. ASSUME NEW e \in Todo(c), Todo(c) = {e}, Writes(c, e.id, e.msg) PROVE Awaited(c, g)'
      BY <2>3, <2>6, <3>1, <3>3
    <3> QED BY <1>12, <2>4, <2>5, <2>6, <3>2, <3>3 DEF Reissues
  <2>7. \A d \in Conns, g \in log : d # c /\ Awaited(d, g) => Awaited(d, g)'
    BY <2>1 DEF Awaited
  <2> QED BY <1>s, <1>m, <2>1, <2>2, <2>6, <2>7 DEF AwaitsAll, LateId, SameFaults, SameSenders, SameSender, Small
<1>13. ASSUME NEW c \in Conns, NEW f \in FrameType, Settles(c, f)
      PROVE  AwaitsAll'
  <2>1. \A d \in Conns : /\ Row(d)' = Row(d) /\ St(d)' = St(d) /\ Step(d)' = Step(d) /\ Todo(d)' = Todo(d)
                         /\ d # c => Aw(d)' = Aw(d)
    BY <1>13, <1>s DEF Settles, SameReissue, Stays, OthersSame, SameObj, Small
  <2>2. late' = late /\ (behind' <=> behind) /\ mapped' = mapped /\ SameFaults /\ SameSenders
    BY <1>13 DEF Settles, SameGhosts
  <2>3. ASSUME faults' = 0, NEW x \in log', ~x.done
        PROVE  x \in log /\ \A d \in Conns : Row(d) = x.row /\ Awaited(d, x) => Awaited(d, x)'
    <3>1. CASE log' = Completed(Row(c), f.id)
      <4>1. x \in log /\ ~(x.row = Row(c) /\ x.id = f.id)
        BY <2>3, <3>1, CompletedFields DEF Base
      <4>2. Row(c) = x.row /\ Awaited(c, x) => Awaited(c, x)'
        <5>1. [id |-> x.id, msg |-> x.msg].id = x.id
          OBVIOUS
        <5>2. Row(c) = x.row => [id |-> x.id, msg |-> x.msg] # f
          BY <4>1, <5>1
        <5> QED BY <1>13, <5>2 DEF Settles, Awaited
      <4> QED BY <2>1, <4>1, <4>2 DEF Awaited
    <3>2. CASE log' = log /\ f \notin Aw(c)
      <4>1. Aw(c)' = Aw(c)
        BY <1>13, <3>2 DEF Settles
      <4> QED BY <2>1, <2>3, <3>2, <4>1 DEF Awaited
    <3> QED BY <1>13, <2>3, <3>1, <3>2 DEF Settles
  <2> QED BY <1>s, <1>m, <2>1, <2>2, <2>3 DEF AwaitsAll, LateId, SameFaults, SameSenders, SameSender, Small
<1>14. ASSUME NEW m \in Msgs, FindsTargets(m)
      PROVE  AwaitsAll'
  <2>1. late' = late /\ (behind' <=> behind) /\ mapped' = mapped /\ SameFaults /\ (\A n \in Msgs : n # m => SameSender(n))
        /\ At(m) = "idle" /\ SameReissue
    BY <1>14 DEF FindsTargets
  <2>2. \A d \in Conns : Row(d)' = Row(d) /\ St(d)' = St(d) /\ Aw(d)' = Aw(d)
    BY <1>14, <1>s DEF FindsTargets, HolderRecords, SameObjs, SameObj, Stays, Small
  <2>3. \A d \in mapped : St(d) # "connecting" => log' = log
    <3>1. ASSUME NEW failed \in BOOLEAN, NEW r \in Rows, NEW o \in Objects, HolderRecords(r, o, m, failed)
          PROVE  \A d \in mapped : St(d) = "connecting"
      BY <1>s, <1>b, <3>1 DEF HolderRecords, HeldWhileMapped, Phases, Small
    <3> QED BY <1>14, <3>1 DEF FindsTargets
  <2> QED BY <1>s, <1>m, <2>1, <2>2, <2>3 DEF AwaitsAll, LateId, SameFaults, SameSender, Awaited, Small
<1>15. ASSUME NEW m \in Msgs, NEW c \in Conns, Issues(m, c)
      PROVE  AwaitsAll'
  BY <1>15, <1>s, <1>b, <1>m DEF Issues, Small, Phases, ReissueGate, LateId, Awaited, AwaitsAll
<1>16. ASSUME NEW m \in Msgs, NEW c \in Conns, Records(m, c)
      PROVE  AwaitsAll'
  <2>1. \A d \in Conns : Row(d)' = Row(d) /\ St(d)' = St(d) /\ Aw(d)' = Aw(d) /\ Step(d)' = Step(d) /\ Todo(d)' = Todo(d)
    BY <1>16, <1>s DEF Records, SameObjs, SameObj, SameReissue, Small
  <2>2. (behind' <=> behind) /\ mapped' = mapped /\ SameFaults /\ (\A n \in Msgs : n # m => SameSender(n))
    BY <1>16 DEF Records
  <2>l. log' = log \/ log' = log \cup {Entry(Row(c), Id(m), m)}
    BY <1>16 DEF Records
  <2>k. \A i : LateId(i) => LateId(i)'
    BY <1>16 DEF Records, LateId
  <2>i. PICK i : i = Id(m)
    OBVIOUS
  <2>m. log' # log => LateId(i)' \/ Owner(c)
    <3>1. CASE log' = log \cup {Entry(Row(c), Id(m), m)} /\ late' = late \cup {Entry(Row(c), Id(m), m)}
      BY <2>i, <3>1, EntryFields DEF LateId
    <3> QED BY <1>16, <3>1 DEF Records
  <2>g. gate[c] = "send" /\ To(m) = c
    BY <1>16 DEF Records, SendGate, Sending
  <2>3. ASSUME NEW e \in log', e \notin log, ~LateId(e.id)', NEW d \in mapped, Row(d)' = e.row
        PROVE  d = c /\ e.msg = m /\ e.id = Id(m) /\ At(m)' = "recorded" /\ To(m)' = c /\ Id(m)' = Id(m)
    <3>1. e.row = Row(c) /\ e.id = Id(m) /\ e.msg = m /\ log' # log
      BY <2>3, <2>l, EntryFields
    <3>2. Owner(c)
      BY <2>3, <2>i, <2>m, <3>1 DEF LateId
    <3>3. d = c
      BY <1>s, <2>1, <2>3, <3>1, <3>2, OwnerUnique DEF Owner, Small
    <3>4. At(m)' = "recorded" /\ To(m)' = c /\ Id(m)' = Id(m)
      BY <1>16, <3>1 DEF Records
    <3> QED BY <3>1, <3>3, <3>4
  <2>4. At(m) = "issued"
    BY <1>16 DEF Records
  <2> SUFFICES ASSUME faults' = 0, ~behind', NEW d \in mapped', St(d)' = "active", NEW e \in log',
                      e.row = Row(d)', ~e.done, ~LateId(e.id)', ~Awaited(d, e)'
               PROVE  (At(e.msg) = "recorded" /\ To(e.msg) = d /\ Id(e.msg) = e.id)'
    BY DEF AwaitsAll
  <2>5. ~LateId(e.id) /\ faults = 0 /\ ~behind /\ d \in mapped /\ d \in Conns /\ Row(d) = e.row
        /\ St(d) = "active" /\ ~Awaited(d, e)
    BY <1>s, <2>1, <2>2, <2>k DEF SameFaults, Awaited, Small
  <2>6. CASE e \in log
    <3>1. At(e.msg) = "recorded" /\ To(e.msg) = d /\ Id(e.msg) = e.id
      BY <2>5, <2>6 DEF AwaitsAll
    <3> QED BY <1>m, <2>2, <2>4, <2>6, <3>1 DEF SameSender
  <2>7. CASE e \notin log
    BY <2>3, <2>5, <2>7
  <2> QED BY <2>6, <2>7
<1>17. ASSUME NEW m \in Msgs, NEW c \in Conns, NEW id \in OpIds, Sends(m, c, id)
      PROVE  AwaitsAll'
  <2>1. \A d \in Conns : /\ Row(d)' = Row(d) /\ St(d)' = St(d)
                         /\ d # c => Aw(d)' = Aw(d)
    BY <1>17, <1>s DEF Sends, Stays, OthersSame, SameObj, Small
  <2>2. log' = log /\ late' = late /\ (behind' <=> behind) /\ mapped' = mapped /\ SameFaults
        /\ \A n \in Msgs : n # m => SameSender(n)
    BY <1>17 DEF Sends
  <2>a. ASSUME NEW i \in OpIds, NEW n \in Msgs, Writes(c, i, n), ~behind,
               \E x \in log : x.row = Row(c) /\ x.id = i /\ x.msg = n,
               NEW g \in log, g.row = Row(c), ~LateId(g.id), Awaited(c, g)
        PROVE  Awaited(c, g)'
    <3> DEFINE a == [id |-> g.id, msg |-> g.msg]
    <3>1. a.id = g.id /\ a \in Aw(c)
      BY <2>a DEF Awaited
    <3>2. CASE g.id # i
      BY <2>a, <3>1, <3>2 DEF Writes, Awaited
    <3>3. CASE g.id = i
      <4>1. g.msg = n
        BY <2>a, <3>3 DEF IdsOnce
      <4> QED BY <2>a, <3>3, <4>1 DEF Writes, Awaited
    <3> QED BY <3>2, <3>3
  <2>3. At(m) = "recorded" /\ To(m) = c /\ Id(m) = id /\ Writes(c, id, m)
    BY <1>17 DEF Sends
  <2>4. \E x \in log : x.row = Row(c) /\ x.id = id /\ x.msg = m
    BY <2>3 DEF RecordedOnLog
  <2> SUFFICES ASSUME faults' = 0, ~behind', NEW d \in mapped', St(d)' = "active", NEW g \in log',
                      g.row = Row(d)', ~g.done, ~LateId(g.id)', ~Awaited(d, g)'
               PROVE  (At(g.msg) = "recorded" /\ To(g.msg) = d /\ Id(g.msg) = g.id)'
    BY DEF AwaitsAll
  <2>5. ~LateId(g.id) /\ faults = 0 /\ ~behind /\ d \in mapped /\ d \in Conns /\ Row(d) = g.row
        /\ St(d) = "active" /\ g \in log
    BY <1>s, <2>1, <2>2 DEF SameFaults, LateId, Small
  <2>6. ~Awaited(d, g)
    <3>1. CASE d = c
      BY <2>3, <2>4, <2>5, <2>a, <3>1
    <3>2. CASE d # c
      BY <2>1, <2>5, <3>2 DEF Awaited
    <3> QED BY <3>1, <3>2
  <2>7. At(g.msg) = "recorded" /\ To(g.msg) = d /\ Id(g.msg) = g.id /\ g.msg \in Msgs
    BY <1>m, <2>5, <2>6 DEF AwaitsAll
  <2>8. CASE g.msg = m
    <3>1. d = c /\ g.id = id
      BY <2>3, <2>7, <2>8
    <3>2. Awaited(c, g)'
      BY <2>3, <2>8, <3>1 DEF Writes, Awaited
    <3> QED BY <3>1, <3>2
  <2>9. CASE g.msg # m
    BY <2>2, <2>7, <2>9 DEF SameSender
  <2> QED BY <2>8, <2>9
<1>18. ASSUME Quiet
      PROVE  AwaitsAll'
  BY <1>18, <1>s, <1>b, <1>m DEF Quiet, Small, Phases, ReissueGate, LateId, Awaited, AwaitsAll
<1>19. ASSUME Restarts
      PROVE  AwaitsAll'
  BY <1>19, <1>s, <1>b, <1>m DEF Restarts, Small, Phases, ReissueGate, LateId, Awaited, AwaitsAll
<1> QED BY <1>1, <1>2, <1>3, <1>4, <1>5, <1>6, <1>7, <1>8, <1>9, <1>10, <1>11, <1>12, <1>13,
     <1>14, <1>15, <1>16, <1>17, <1>18, <1>19 DEF Does


\* A broadcast in progress is on its way to the session it owes.
BusyOwes ==
  ~inverted => \A m \in Msgs, c \in Conns, r \in Rows :
    Busy(m) /\ To(m) = c /\ reach[m] = r /\ CanResume(r) => Row(c) = r

\* An accepted broadcast is on record for the session it owed.
AcceptedOnLog ==
  ~inverted => \A m \in accepted, r \in Rows : reach[m] = r /\ CanResume(r) => OnRecord(r, m)

\* registry.targets finds the session the AC has, live or held.
LEMMA KeepsBusyOwes ==
  ASSUME Base, ReissueGate, AbsentUnknown, LogKnown, HeldWhileMapped, AcServed, BusyOwes, Does
  PROVE  BusyOwes'
<1>s. Small
  BY SmallOK DEF Base
<1>b. Phases /\ BusyTarget /\ HolderHasRow
  BY DEF Base
<1>x. AcSession \in Rows => Status(AcSession) # "absent"
  BY DEF AbsentUnknown
<1>c. \A c \in Conns : St(c) = "connecting" \/ IsLive(c)
  BY FieldsOK, <1>s DEF IsLive, Small, Fields, Base
<1>h. OneHeld
  <2>1. Types /\ \A q, r \in Held : q = r
    BY TypesOf DEF Base
  <2> QED BY <2>1, OneHeldIs
<1>k. /\ \A r \in Rows, m \in Msgs : OnRecord(r, m) => OnRecord(r, m)'
      /\ \A c \in Conns : St(c) # "connecting" => Row(c)' = Row(c)
      /\ \A r \in Rows : CanResume(r)' /\ Status(r) # "absent" => CanResume(r)
  <2>1. SessionDoes
    BY SessionSteps
  <2>2. \A e \in log : \E x \in log' : x.row = e.row /\ x.msg = e.msg
    BY LogGrows
  <2>3. \A r \in Rows, m \in Msgs : OnRecord(r, m) => OnRecord(r, m)'
    BY <2>2 DEF OnRecord
  <2> QED BY <2>1, <2>3, RowKept, ResumableBack
<1>r. \A m \in Msgs, r \in Rows : reach[m] = r => Status(r) # "absent"
  BY DEF LogKnown
<1>a. accepted \subseteq Msgs
  BY DEF Base, TypeOK
<1> USE DEF OthersSame, SameObj, SameObjs, SameStatus, SameHeld, SameGhosts, SameFaults,
     SameReissue, SameSender, SameSenders, SameFrames, Stays
<1>1. ASSUME NEW c \in Conns, AcOpens(c)
      PROVE  BusyOwes'
  BY <1>1, <1>b, <1>k, <1>r DEF AcOpens, Busy, Sending, BusyTarget, BusyOwes
<1>2. ASSUME NEW c \in Conns, Looks(c)
      PROVE  BusyOwes'
  BY <1>2, <1>b, <1>k, <1>r DEF Looks, Busy, Sending, BusyTarget, BusyOwes
<1>3. ASSUME NEW c \in Conns, Creates(c)
      PROVE  BusyOwes'
  BY <1>3, <1>b, <1>k, <1>r DEF Creates, Busy, Sending, BusyTarget, BusyOwes
<1>4. ASSUME NEW c \in Conns, NEW k \in BOOLEAN, Adopts(c, k)
      PROVE  BusyOwes'
  BY <1>4, <1>b, <1>k, <1>r DEF Adopts, Busy, Sending, BusyTarget, BusyOwes
<1>5. ASSUME NEW c \in Conns, AcCompletes(c)
      PROVE  BusyOwes'
  BY <1>5, <1>b, <1>k, <1>r DEF AcCompletes, Busy, Sending, BusyTarget, BusyOwes
<1>6. ASSUME NEW c \in Conns, GoesLive(c)
      PROVE  BusyOwes'
  BY <1>6, <1>b, <1>k, <1>r DEF GoesLive, Busy, Sending, BusyTarget, BusyOwes
<1>7. ASSUME NEW c \in Conns, Resumes(c)
      PROVE  BusyOwes'
  BY <1>7, <1>b, <1>k, <1>r DEF Resumes, Busy, Sending, BusyTarget, BusyOwes
<1>8. ASSUME NEW c \in Conns, Breaks(c)
      PROVE  BusyOwes'
  BY <1>8, <1>b, <1>k, <1>r DEF Breaks, Busy, Sending, BusyTarget, BusyOwes
<1>9. ASSUME NEW c \in Conns, Loses(c)
      PROVE  BusyOwes'
  BY <1>9, <1>b, <1>k, <1>r DEF Loses, Busy, Sending, BusyTarget, BusyOwes
<1>10. ASSUME NEW c \in Conns, Disconnects(c)
      PROVE  BusyOwes'
  BY <1>10, <1>b, <1>k, <1>r DEF Disconnects, Busy, Sending, BusyTarget, BusyOwes
<1>11. ASSUME NEW c \in Conns, ReissueReads(c)
      PROVE  BusyOwes'
  BY <1>11, <1>b, <1>k, <1>r DEF ReissueReads, Busy, Sending, BusyTarget, BusyOwes
<1>12. ASSUME NEW c \in Conns, Reissues(c)
      PROVE  BusyOwes'
  BY <1>12, <1>b, <1>k, <1>r DEF Reissues, Writes, Busy, Sending, BusyTarget, BusyOwes
<1>13. ASSUME NEW c \in Conns, NEW f \in FrameType, Settles(c, f)
      PROVE  BusyOwes'
  BY <1>13, <1>b, <1>k, <1>r DEF Settles, Busy, Sending, BusyTarget, BusyOwes
<1>14. ASSUME NEW m \in Msgs, FindsTargets(m)
      PROVE  BusyOwes'
  <2>1. /\ inverted' <=> inverted
        /\ reach'[m] = AcSession /\ \A n \in Msgs : n # m => reach'[n] = reach[n] /\ SameSender(n)
    BY <1>14 DEF FindsTargets
  <2>2. Busy(m)' => \E c \in mapped : IsLive(c) /\ To(m)' = c
    BY <1>14 DEF FindsTargets, Busy, Sending
  <2>3. ASSUME ~inverted, NEW c \in mapped, IsLive(c), AcSession \in Rows, CanResume(AcSession) PROVE Row(c) = AcSession
    <3>1. \A r \in Rows : By(r) = NoConn
      BY <1>s, <1>b, <2>3 DEF HeldWhileMapped, Phases, IsLive, Small
    <3> QED BY <1>s, <2>3, <3>1 DEF AcServed, Small
  <2>4. AcSession \in Rows => Status(AcSession) # "absent"
    BY <1>x
  <2>5. \A r \in Rows : CanResume(r)' /\ Status(r) # "absent" => CanResume(r)
    BY <1>k
  <2> SUFFICES ASSUME ~inverted', NEW n \in Msgs, NEW c \in Conns, NEW r \in Rows,
                      Busy(n)', To(n)' = c, reach'[n] = r, CanResume(r)'
               PROVE  Row(c)' = r
    BY DEF BusyOwes
  <2>6. CASE n = m
    <3>1. c \in mapped /\ IsLive(c) /\ AcSession = r
      BY <2>1, <2>2, <2>6
    <3>2. Row(c) = r
      BY <2>1, <2>3, <2>4, <2>5, <3>1
    <3> QED BY <1>k, <3>1, <3>2 DEF IsLive
  <2>7. CASE n # m
    <3>1. Busy(n) /\ To(n) = c /\ reach[n] = r
      BY <2>1, <2>7 DEF SameSender, Busy, Sending
    <3>2. Row(c) = r
      BY <1>k, <1>r, <2>1, <3>1 DEF BusyOwes
    <3> QED BY <1>b, <1>k, <3>1, <3>2 DEF BusyTarget
  <2> QED BY <2>6, <2>7
<1>15. ASSUME NEW m \in Msgs, NEW c \in Conns, Issues(m, c)
      PROVE  BusyOwes'
  BY <1>15, <1>b, <1>k, <1>r DEF Issues, Busy, Sending, BusyTarget, BusyOwes
<1>16. ASSUME NEW m \in Msgs, NEW c \in Conns, Records(m, c)
      PROVE  BusyOwes'
  BY <1>16, <1>b, <1>k, <1>r DEF Records, Leaves, Busy, Sending, BusyTarget, BusyOwes
<1>17. ASSUME NEW m \in Msgs, NEW c \in Conns, NEW id \in OpIds, Sends(m, c, id)
      PROVE  BusyOwes'
  BY <1>17, <1>b, <1>k, <1>r DEF Sends, Writes, Leaves, Busy, Sending, BusyTarget, BusyOwes
<1>18. ASSUME Quiet
      PROVE  BusyOwes'
  BY <1>18, <1>b, <1>k, <1>r DEF Quiet, Busy, Sending, BusyTarget, BusyOwes
<1>19. ASSUME Restarts
      PROVE  BusyOwes'
  BY <1>19, <1>b, <1>k, <1>r DEF Restarts, Busy, Sending, BusyTarget, BusyOwes
<1> QED BY <1>1, <1>2, <1>3, <1>4, <1>5, <1>6, <1>7, <1>8, <1>9, <1>10, <1>11, <1>12, <1>13,
     <1>14, <1>15, <1>16, <1>17, <1>18, <1>19 DEF Does

\* A broadcast ends without failure only once it is on record where it is owed.
LEMMA KeepsAcceptedOnLog ==
  ASSUME Base, ReissueGate, AbsentUnknown, LogKnown, HeldWhileMapped, AcServed, RecordedOnLog, BusyOwes, AcceptedOnLog, Does
  PROVE  AcceptedOnLog'
<1>s. Small
  BY SmallOK DEF Base
<1>b. Phases /\ BusyTarget /\ HolderHasRow
  BY DEF Base
<1>x. AcSession \in Rows => Status(AcSession) # "absent"
  BY DEF AbsentUnknown
<1>c. \A c \in Conns : St(c) = "connecting" \/ IsLive(c)
  BY FieldsOK, <1>s DEF IsLive, Small, Fields, Base
<1>h. OneHeld
  <2>1. Types /\ \A q, r \in Held : q = r
    BY TypesOf DEF Base
  <2> QED BY <2>1, OneHeldIs
<1>k. /\ \A r \in Rows, m \in Msgs : OnRecord(r, m) => OnRecord(r, m)'
      /\ \A c \in Conns : St(c) # "connecting" => Row(c)' = Row(c)
      /\ \A r \in Rows : CanResume(r)' /\ Status(r) # "absent" => CanResume(r)
  <2>1. SessionDoes
    BY SessionSteps
  <2>2. \A e \in log : \E x \in log' : x.row = e.row /\ x.msg = e.msg
    BY LogGrows
  <2>3. \A r \in Rows, m \in Msgs : OnRecord(r, m) => OnRecord(r, m)'
    BY <2>2 DEF OnRecord
  <2> QED BY <2>1, <2>3, RowKept, ResumableBack
<1>r. \A m \in Msgs, r \in Rows : reach[m] = r => Status(r) # "absent"
  BY DEF LogKnown
<1>a. accepted \subseteq Msgs
  BY DEF Base, TypeOK
<1> USE DEF OthersSame, SameObj, SameObjs, SameStatus, SameHeld, SameGhosts, SameFaults,
     SameReissue, SameSender, SameSenders, SameFrames, Stays
<1>1. ASSUME NEW c \in Conns, AcOpens(c)
      PROVE  AcceptedOnLog'
  BY <1>1, <1>k, <1>r, <1>a DEF AcOpens, AcceptedOnLog
<1>2. ASSUME NEW c \in Conns, Looks(c)
      PROVE  AcceptedOnLog'
  BY <1>2, <1>k, <1>r, <1>a DEF Looks, AcceptedOnLog
<1>3. ASSUME NEW c \in Conns, Creates(c)
      PROVE  AcceptedOnLog'
  BY <1>3, <1>k, <1>r, <1>a DEF Creates, AcceptedOnLog
<1>4. ASSUME NEW c \in Conns, NEW k \in BOOLEAN, Adopts(c, k)
      PROVE  AcceptedOnLog'
  BY <1>4, <1>k, <1>r, <1>a DEF Adopts, AcceptedOnLog
<1>5. ASSUME NEW c \in Conns, AcCompletes(c)
      PROVE  AcceptedOnLog'
  BY <1>5, <1>k, <1>r, <1>a DEF AcCompletes, AcceptedOnLog
<1>6. ASSUME NEW c \in Conns, GoesLive(c)
      PROVE  AcceptedOnLog'
  BY <1>6, <1>k, <1>r, <1>a DEF GoesLive, AcceptedOnLog
<1>7. ASSUME NEW c \in Conns, Resumes(c)
      PROVE  AcceptedOnLog'
  BY <1>7, <1>k, <1>r, <1>a DEF Resumes, AcceptedOnLog
<1>8. ASSUME NEW c \in Conns, Breaks(c)
      PROVE  AcceptedOnLog'
  BY <1>8, <1>k, <1>r, <1>a DEF Breaks, AcceptedOnLog
<1>9. ASSUME NEW c \in Conns, Loses(c)
      PROVE  AcceptedOnLog'
  BY <1>9, <1>k, <1>r, <1>a DEF Loses, AcceptedOnLog
<1>10. ASSUME NEW c \in Conns, Disconnects(c)
      PROVE  AcceptedOnLog'
  BY <1>10, <1>k, <1>r, <1>a DEF Disconnects, AcceptedOnLog
<1>11. ASSUME NEW c \in Conns, ReissueReads(c)
      PROVE  AcceptedOnLog'
  BY <1>11, <1>k, <1>r, <1>a DEF ReissueReads, AcceptedOnLog
<1>12. ASSUME NEW c \in Conns, Reissues(c)
      PROVE  AcceptedOnLog'
  BY <1>12, <1>k, <1>r, <1>a DEF Reissues, Writes, AcceptedOnLog
<1>13. ASSUME NEW c \in Conns, NEW f \in FrameType, Settles(c, f)
      PROVE  AcceptedOnLog'
  BY <1>13, <1>k, <1>r, <1>a DEF Settles, AcceptedOnLog
<1>14. ASSUME NEW m \in Msgs, FindsTargets(m)
      PROVE  AcceptedOnLog'
  <2>1. /\ inverted' <=> inverted
        /\ reach'[m] = AcSession /\ \A n \in Msgs : n # m => reach'[n] = reach[n] /\ SameSender(n)
    BY <1>14 DEF FindsTargets
  <2>2. ASSUME ~inverted, m \in accepted', AcSession \in Rows, CanResume(AcSession)
        PROVE  OnRecord(AcSession, m)'
    <3>1. (\A c \in mapped : ~IsLive(c)) /\ accepted' # accepted \ {m}
      BY <1>14, <2>2 DEF FindsTargets
    <3>2. By(AcSession) # NoConn
      BY <1>s, <1>c, <2>2, <3>1 DEF AcServed, IsLive, Small
    <3>3. PICK s \in Rows : s = AcSession
      BY <2>2
    <3>4. ASSUME NEW r \in Rows, NEW o \in Objects, HolderRecords(r, o, m, FALSE)
          PROVE  OnRecord(s, m)'
      <4>1. By(r) # NoConn
        BY <1>s, <3>4 DEF HolderRecords, Small
      <4>2. s = r
        BY <1>h, <3>2, <3>3, <4>1 DEF OneHeld
      <4>3. CASE OnRecord(r, m)
        BY <1>k, <4>2, <4>3
      <4>4. CASE log' = log \cup {Entry(r, Sc(o) - 1, m)}
        BY <4>2, <4>4, EntryFields DEF OnRecord
      <4> QED BY <3>4, <4>3, <4>4 DEF HolderRecords
    <3>5. \E r \in Rows, o \in Objects : HolderRecords(r, o, m, FALSE)
      BY <1>14, <2>2, <3>1, <3>2 DEF FindsTargets
    <3>6. AcSession' = AcSession
      BY <1>14 DEF FindsTargets
    <3> QED BY <3>3, <3>4, <3>5, <3>6 DEF OnRecord
  <2>3. \A n \in Msgs : n # m /\ n \in accepted' => n \in accepted
    BY <1>14 DEF FindsTargets
  <2>4. accepted' \subseteq Msgs
    BY <1>14, <1>a DEF FindsTargets
  <2>5. AcSession \in Rows => Status(AcSession) # "absent"
    BY <1>x
  <2> SUFFICES ASSUME ~inverted', NEW n \in accepted', NEW r \in Rows, reach'[n] = r, CanResume(r)'
               PROVE  OnRecord(r, n)'
    BY DEF AcceptedOnLog
  <2>6. CASE n = m
    <3>1. AcSession = r /\ CanResume(r) /\ AcSession' = AcSession
      BY <1>14, <1>k, <2>1, <2>5, <2>6 DEF FindsTargets
    <3> QED BY <2>1, <2>2, <2>6, <3>1 DEF OnRecord
  <2>7. CASE n # m
    <3>1. n \in accepted /\ reach[n] = r /\ n \in Msgs
      BY <2>1, <2>3, <2>4, <2>7
    <3> QED BY <1>k, <1>r, <2>1, <3>1 DEF AcceptedOnLog
  <2> QED BY <2>6, <2>7
<1>15. ASSUME NEW m \in Msgs, NEW c \in Conns, Issues(m, c)
      PROVE  AcceptedOnLog'
  BY <1>15, <1>k, <1>r, <1>a DEF Issues, AcceptedOnLog
<1>16. ASSUME NEW m \in Msgs, NEW c \in Conns, Records(m, c)
      PROVE  AcceptedOnLog'
  <2>3. Busy(m) /\ To(m) = c
    BY <1>16 DEF Records, Busy, Sending
  <2>4. ~inverted => \A r \in Rows : reach[m] = r /\ CanResume(r) => Row(c) = r
    BY <2>3 DEF BusyOwes
  <2>5. m \in accepted' /\ m \notin accepted => OnRecord(Row(c), m)
    BY <1>16 DEF Records, Leaves
  <2>6. reach' = reach /\ (inverted' <=> inverted) /\ \A n \in Msgs : n # m /\ n \in accepted' => n \in accepted
    BY <1>16 DEF Records, Leaves
  <2>7. accepted' \subseteq Msgs
    BY <1>16, <1>a DEF Records, Leaves
  <2> SUFFICES ASSUME ~inverted', NEW n \in accepted', NEW r \in Rows, reach'[n] = r, CanResume(r)'
               PROVE  OnRecord(r, n)'
    BY DEF AcceptedOnLog
  <2>8. n \in Msgs /\ reach[n] = r /\ CanResume(r) /\ ~inverted
    BY <1>k, <1>r, <2>6, <2>7
  <2>9. CASE n \in accepted
    BY <1>k, <2>8, <2>9 DEF AcceptedOnLog
  <2>10. CASE n \notin accepted
    <3>1. n = m /\ Row(c) = r
      BY <2>4, <2>6, <2>8, <2>10
    <3> QED BY <1>k, <2>5, <2>8, <2>10, <3>1
  <2> QED BY <2>9, <2>10
<1>17. ASSUME NEW m \in Msgs, NEW c \in Conns, NEW id \in OpIds, Sends(m, c, id)
      PROVE  AcceptedOnLog'
  <2>3. Busy(m) /\ To(m) = c
    BY <1>17 DEF Sends, Busy, Sending
  <2>4. ~inverted => \A r \in Rows : reach[m] = r /\ CanResume(r) => Row(c) = r
    BY <2>3 DEF BusyOwes
  <2>5. OnRecord(Row(c), m)
    BY <1>17 DEF Sends, RecordedOnLog, OnRecord
  <2>6. reach' = reach /\ (inverted' <=> inverted) /\ \A n \in Msgs : n # m /\ n \in accepted' => n \in accepted
    BY <1>17 DEF Sends, Leaves
  <2>7. accepted' \subseteq Msgs
    BY <1>17, <1>a DEF Sends, Leaves
  <2> SUFFICES ASSUME ~inverted', NEW n \in accepted', NEW r \in Rows, reach'[n] = r, CanResume(r)'
               PROVE  OnRecord(r, n)'
    BY DEF AcceptedOnLog
  <2>8. n \in Msgs /\ reach[n] = r /\ CanResume(r) /\ ~inverted
    BY <1>k, <1>r, <2>6, <2>7
  <2>9. CASE n \in accepted
    BY <1>k, <2>8, <2>9 DEF AcceptedOnLog
  <2>10. CASE n \notin accepted
    <3>1. n = m /\ Row(c) = r
      BY <2>4, <2>6, <2>8, <2>10
    <3> QED BY <1>k, <2>5, <2>8, <2>10, <3>1
  <2> QED BY <2>9, <2>10
<1>18. ASSUME Quiet
      PROVE  AcceptedOnLog'
  BY <1>18, <1>k, <1>r, <1>a DEF Quiet, AcceptedOnLog
<1>19. ASSUME Restarts
      PROVE  AcceptedOnLog'
  BY <1>19, <1>k, <1>r, <1>a DEF Restarts, AcceptedOnLog
<1> QED BY <1>1, <1>2, <1>3, <1>4, <1>5, <1>6, <1>7, <1>8, <1>9, <1>10, <1>11, <1>12, <1>13,
     <1>14, <1>15, <1>16, <1>17, <1>18, <1>19 DEF Does


-----------------------------------------------------------------------------
(* The inductive invariant.                                                *)

SessionInv ==
  /\ RowsInOrder /\ AbsentUnknown /\ FreshRow /\ HeldWhileMapped /\ LockHeld
  /\ SettledAlone /\ SettledNotDisconnected /\ ResumingServed /\ ActiveServed
  /\ ConnectingHeld /\ UpIsMapped /\ AcServed
GateInv  == ReissueGate /\ SendGate
IdInv    == LogKnown /\ FreshLog /\ CountersBelow /\ IssuedUnused /\ IdsOnce
FrameInv == /\ NoEarlyFrame /\ FramesAboveCounter /\ FramesAboveIssued /\ FramesAboveTodo
            /\ Decrements
LogInv   == RecordedOnLog /\ TodoOnLog /\ ReissuesAll /\ AwaitsAll /\ BusyOwes /\ AcceptedOnLog

Inv == Base /\ SessionInv /\ GateInv /\ IdInv /\ FrameInv /\ LogInv

\* The invariant holds initially.
LEMMA InitInv == ASSUME Init PROVE Inv
<1>1. TypeOK
  <2>1. rows \in [Rows -> RowType]
    BY DEF Init, RowType
  <2>2. Unused \in ObjType
    BY DEF Unused, ObjType, Steps
  <2>3. obj \in [Objects -> ObjType]
    BY <2>2 DEF Init
  <2>4. held \in [Rows -> HeldType] /\ Held = {}
    BY DEF Init, HeldType, Held
  <2>5. Idle \in SenderType
    BY DEF Idle, SenderType
  <2>6. sender \in [Msgs -> SenderType]
    BY <2>5 DEF Init
  <2>7. reissue \in [Conns -> ReissueType] /\ wire \in [Conns -> WireType]
    BY DEF Init, ReissueType, WireType
  <2>8. 0 \in 0..MaxFailures
    BY ScaciAssumption
  <2> QED BY <2>1, <2>3, <2>4, <2>6, <2>7, <2>8 DEF Init, TypeOK
<1>2. /\ \A o \in Objects : /\ Pc(o) = "unused" /\ Row(o) = NoRow /\ ~Res(o) /\ St(o) = "connecting"
                            /\ ~Up(o)
      /\ \A r \in Rows : Status(r) = "absent" /\ By(r) = NoConn
      /\ \A c \in Conns : Step(c) = "none" /\ Todo(c) = {} /\ Frames(c) = <<>>
      /\ \A m \in Msgs : At(m) = "idle"
      /\ AcSession = NoRow
  BY Numbers DEF Init, Unused, Idle, NotHeld, Pc, Row, Res, St, Up, Status, By, Step, Todo, Frames, At, AcSession
<1>3. mapped = {} /\ log = {} /\ accepted = {} /\ reach = [m \in Msgs |-> NoRow]
  BY DEF Init
<1>s. Small
  BY <1>1, SmallOK
<1>4. Phases /\ HolderHasRow /\ BusyTarget
  BY <1>2, <1>3, <1>s DEF Phases, HolderHasRow, BusyTarget, Busy, Sending, Small
<1>5. SessionInv
  BY <1>2, <1>3, <1>s DEF SessionInv, RowsInOrder, AbsentUnknown, FreshRow, HeldWhileMapped, LockHeld,
     SettledAlone, SettledNotDisconnected, ResumingServed, ActiveServed, ConnectingHeld, UpIsMapped,
     AcServed, Settled, Fresh, CanResume, Small
<1>6. GateInv
  BY <1>2, <1>s DEF GateInv, ReissueGate, SendGate, Sending, Small
<1>7. IdInv
  BY <1>2, <1>3, <1>s DEF IdInv, LogKnown, FreshLog, CountersBelow, IssuedUnused, IdsOnce, Small
<1>8. FrameInv
  <2>1. \A c \in Conns : FrameIds(c) = {} /\ DOMAIN Frames(c) = {}
    BY <1>2 DEF FrameIds
  <2> QED BY <1>2, <1>s, <2>1 DEF FrameInv, NoEarlyFrame, FramesAboveCounter, FramesAboveIssued,
             FramesAboveTodo, Decrements, Sending, Small
<1>9. LogInv
  BY <1>2, <1>3, <1>s DEF LogInv, RecordedOnLog, TodoOnLog, ReissuesAll, AwaitsAll, BusyOwes,
     AcceptedOnLog, Busy, Sending, Small
<1> QED BY <1>1, <1>4, <1>5, <1>6, <1>7, <1>8, <1>9 DEF Inv, Base

\* A stuttering step changes no field.
LEMMA StutterQuiet == ASSUME UNCHANGED vars PROVE Quiet
BY DEF vars, Quiet, SameObjs, SameObj, SameFrames, SameStatus, SameHeld, SameReissue, SameSenders,
   SameSender, SameGhosts, SameFaults, Pc, Row, Res, St, Sc, Up, Aw, Status, By, Step, Todo, At, To,
   Id, Frames, AcSession

\* A stuttering step keeps the types.
LEMMA StutterTypes == ASSUME TypeOK, UNCHANGED vars PROVE TypeOK'
BY DEF TypeOK, Held, vars

\* A step keeps the invariant.
LEMMA NextInv == ASSUME Inv, [Next]_vars PROVE Inv'
<1>i. Base /\ SessionInv /\ GateInv /\ IdInv /\ FrameInv /\ LogInv
  BY DEF Inv
<1>1. Does
  <2>1. CASE Next
    BY <1>i, <2>1, NextDoes
  <2>2. CASE UNCHANGED vars
    BY <2>2, StutterQuiet DEF Does
  <2> QED BY <2>1, <2>2
<1>2. SessionDoes
  BY <1>1, <1>i, SessionSteps DEF GateInv
<1>3. TypeOK'
  <2>1. CASE Next
    BY <1>1, <1>i, <2>1, NextTypeOK DEF GateInv, SessionInv
  <2>2. CASE UNCHANGED vars
    BY <1>i, <2>2, StutterTypes DEF Base
  <2> QED BY <2>1, <2>2
<1>4. GateInv' /\ BusyTarget'
  BY <1>1, <1>3, <1>i, KeepsReissueGate, KeepsSendGate, KeepsBusyTarget DEF GateInv
<1>5. Phases' /\ HolderHasRow'
  BY <1>2, <1>i, KeepsPhases, KeepsHolderHasRow DEF SessionInv
<1>6. SessionInv'
  <2>1. RowsInOrder' /\ AbsentUnknown' /\ FreshRow' /\ HeldWhileMapped' /\ LockHeld'
    BY <1>2, <1>i, KeepsRowsInOrder, KeepsAbsentUnknown, KeepsFreshRow, KeepsHeldWhileMapped,
       KeepsLockHeld DEF SessionInv
  <2>2. SettledAlone' /\ SettledNotDisconnected' /\ ResumingServed' /\ ActiveServed'
    BY <1>2, <1>i, KeepsSettledAlone, KeepsSettledNotDisconnected, KeepsResumingServed,
       KeepsActiveServed DEF SessionInv
  <2>3. ConnectingHeld' /\ UpIsMapped' /\ AcServed'
    BY <1>2, <1>i, KeepsConnectingHeld, KeepsUpIsMapped, KeepsAcServed DEF SessionInv
  <2> QED BY <2>1, <2>2, <2>3 DEF SessionInv
<1>7. IdInv'
  BY <1>1, <1>3, <1>i, KeepsLogKnown, KeepsFreshLog, KeepsCountersBelow, KeepsIssuedUnused,
     KeepsIdsOnce DEF SessionInv, GateInv, IdInv
<1>8. FrameInv'
  BY <1>1, <1>3, <1>i, KeepsNoEarlyFrame, KeepsFramesAboveCounter, KeepsFramesAboveIssued,
     KeepsFramesAboveTodo, KeepsDecrements DEF SessionInv, GateInv, IdInv, FrameInv
<1>9. LogInv'
  BY <1>1, <1>i, KeepsRecordedOnLog, KeepsTodoOnLog, KeepsReissuesAll, KeepsAwaitsAll,
     KeepsBusyOwes, KeepsAcceptedOnLog DEF SessionInv, GateInv, IdInv, LogInv
<1> QED BY <1>3, <1>4, <1>5, <1>6, <1>7, <1>8, <1>9 DEF Inv, Base

\* Every behaviour of the AC's sessions keeps the inductive invariant.
THEOREM ScaciInvariant == Spec => []Inv
<1>1. Init => Inv
  BY InitInv
<1>2. Inv /\ [Next]_vars => Inv'
  BY NextInv
<1> QED BY <1>1, <1>2, PTL DEF Spec

-----------------------------------------------------------------------------
(* What the invariant says in the model's terms.                           *)

\* The fields in the model's own terms.
LEMMA Terms ==
  ASSUME Inv
  PROVE  /\ \A r \in Rows : Resumable(r) <=> CanResume(r)
         /\ \A c \in Conns : Live(c) <=> St(c) # "connecting"
         /\ mapped \subseteq Conns /\ Conns \subseteq Objects
<1>1. TypeOK
  BY DEF Inv, Base
<1>2. \A c \in Objects : St(c) \in {"connecting", "reissuing", "active"}
  BY <1>1, FieldsOK DEF Fields
<1>3. mapped \subseteq Conns /\ Conns \subseteq Objects
  BY <1>1, Numbers DEF TypeOK
<1> QED BY <1>2, <1>3 DEF Resumable, CanResume, Status, Live, St

\* The invariant implies that rows follow connections.
LEMMA InvRowFollows == ASSUME Inv PROVE RowFollowsConnection
<1>1. SettledNotDisconnected /\ ActiveServed
  BY DEF Inv, SessionInv
<1>2. LiveRowActive
  BY <1>1, Terms DEF SettledNotDisconnected, Settled, LiveRowActive, Pc, Row, Status
<1>3. ActiveRowHasConnection
  <2> SUFFICES ASSUME ~(faults > 0), ~inverted, NEW r \in Rows, rows[r].status = "active"
               PROVE  \E c \in Conns : /\ obj[c].row = r
                                       /\ c \in mapped \/ obj[c].pc \in {"adopting", "losing"}
    BY DEF ActiveRowHasConnection
  <2>1. faults = 0
    BY DEF Inv, Base, TypeOK
  <2>2. \E c \in Conns : Row(c) = r /\ (c \in mapped \/ Pc(c) = "losing" \/ Fresh(c))
    BY <1>1, <2>1 DEF ActiveServed, Status
  <2> QED BY <2>2 DEF Fresh, Row, Pc
<1> QED BY <1>2, <1>3 DEF RowFollowsConnection

\* The invariant implies the order of the ids.
LEMMA InvIdsInOrder == ASSUME Inv PROVE IdsInOrder
<1>1. IdsOnce /\ Decrements
  BY DEF Inv, IdInv, FrameInv
<1>2. IdsUsedOnce
  <2> SUFFICES ASSUME late = {}, ~behind, NEW e \in log, NEW f \in log, e.row = f.row, e.id = f.id
               PROVE  e = f
    BY DEF IdsUsedOnce
  <2>1. ~LateId(e.id)
    BY DEF LateId
  <2> QED BY <1>1, <2>1 DEF IdsOnce
<1>3. IdsDecrement
  BY <1>1 DEF IdsDecrement, Decrements, Fine, Frames
<1> QED BY <1>2, <1>3 DEF IdsInOrder

\* The invariant implies that nothing is left behind.
LEMMA InvNothingLeft == ASSUME Inv PROVE NothingLeftBehind
<1>1. AwaitsAll
  BY DEF Inv, LogInv
<1> SUFFICES ASSUME ~(faults > 0), NEW c \in mapped, obj[c].state = "active", ~behind,
                    NEW e \in Pending(obj[c].row), \A l \in late : l.id # e.id
             PROVE  \/ [id |-> e.id, msg |-> e.msg] \in obj[c].awaiting
                    \/ sender[e.msg].pc = "recorded"
  BY DEF NothingLeftBehind
<1>2. faults = 0
  BY DEF Inv, Base, TypeOK
<1>3. e \in log /\ e.row = Row(c) /\ ~e.done /\ ~LateId(e.id) /\ St(c) = "active"
  BY DEF Pending, Row, LateId, St
<1> QED BY <1>1, <1>2, <1>3 DEF AwaitsAll, Awaited, Aw, At

\* The invariant implies that what was accepted is on record.
LEMMA InvAccepted == ASSUME Inv PROVE AcceptedIsOnRecord
<1>1. AcceptedOnLog
  BY DEF Inv, LogInv
<1>2. \A m \in accepted : reach[m] \in Rows \cup {NoRow}
  BY DEF Inv, Base, TypeOK
<1> QED BY <1>1, <1>2, Terms DEF AcceptedOnLog, AcceptedIsOnRecord

-----------------------------------------------------------------------------
(* The theorems.                                                           *)

\* The state of the SCACI server has its types in every reachable state: the
\* registry never has two connections of the AC, the holder never two of its
\* sessions (registry.adopt, Hold, Load).
THEOREM TypeCorrect == Spec => []TypeOK
<1>1. Inv => TypeOK
  BY DEF Inv, Base
<1> QED BY <1>1, ScaciInvariant, PTL

\* However the loss of one connection and the resume on another interleave,
\* the row of a live session is active and an active row has a connection
\* (complete, release, PersistResume, PersistDisconnect).
THEOREM RowFollows == Spec => []RowFollowsConnection
<1>1. Inv => RowFollowsConnection
  BY InvRowFollows
<1> QED BY <1>1, ScaciInvariant, PTL

\* An operation id is used once in a session, and the frames of a connection
\* carry decrementing ids (initiateSCOperation, continueFrom, the issue gate).
THEOREM IdsKeepOrder == Spec => []IdsInOrder
<1>1. Inv => IdsInOrder
  BY InvIdsInOrder
<1> QED BY <1>1, ScaciInvariant, PTL

\* An active session awaits the answer of every open operation on record for
\* it (replayPendingOperations, broadcastSCOperation).
THEOREM NothingIsLeft == Spec => []NothingLeftBehind
<1>1. Inv => NothingLeftBehind
  BY InvNothingLeft
<1> QED BY <1>1, ScaciInvariant, PTL

\* A broadcast that reported no failure is on record for the session the AC
\* had when it began (broadcastSCOperation, registry.targets).
THEOREM AcceptedRecorded == Spec => []AcceptedIsOnRecord
<1>1. Inv => AcceptedIsOnRecord
  BY InvAccepted
<1> QED BY <1>1, ScaciInvariant, PTL
=============================================================================
