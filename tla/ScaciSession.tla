---------------------------- MODULE ScaciSession ----------------------------
(***************************************************************************)
(* The sessions of one application center (AC): the connections that       *)
(* serve them, the registry that maps a connection to its session, the     *)
(* holder that records for a session without a connection, the operations  *)
(* the service center issues on a session and reissues when it is resumed, *)
(* and the session rows and the operation log in the database.             *)
(*                                                                         *)
(* Each connection has its own Session object, also one that resumes a     *)
(* row another object serves; BootObject is the object Load restores.      *)
(* Service center operation ids are negative and decrement.                *)
(***************************************************************************)
EXTENDS Integers, Sequences, FiniteSets, FiniteSetsExt

CONSTANTS
  MaxConns,     \* bound: connections the AC opens, one after the other
  MaxRows,      \* bound: session rows created
  Msgs,         \* what the service center broadcasts, each once
  Uplinks,      \* those recorded once per session and retried on failure
  Limit,        \* operations a held session may hold
  MaxSc,        \* bound: operation ids issued by one object
  MaxFailures   \* bound: failing statements and deaths of the process

Conns      == 1..MaxConns
Rows       == 1..MaxRows
BootObject == 0
Objects    == Conns \cup {BootObject}
NoRow      == 0
NoConn     == 0 - 1
NotCounted == 0 - 1
OpIds      == (0 - MaxSc)..(0 - 1)

ASSUME ScaciAssumption ==
  /\ {MaxConns, MaxRows, Limit, MaxSc, MaxFailures} \subseteq Nat
  /\ Limit > 0
  /\ Uplinks \subseteq Msgs /\ IsFiniteSet(Msgs)

VARIABLES
  rows,       \* scaci_sessions: status and last_op_id_sc
  log,        \* scaci_operation_log: the operations the service center issued
  obj,        \* per object: the reader's step, its Session and its socket
  mapped,     \* connections in the registry's sessions map
  held,       \* per row: the holder's entry
  gate,       \* per object: its issue gate, who is inside
  lifecycle,  \* per row: the connection inside its lifecycle lock
  reissue,    \* per connection: the background reissue and what it has left
  sender,     \* per message: its broadcast
  writes,     \* detached counter writes not yet executed
  wire,       \* per connection: frames sent, how many the AC read, its answers
  ac,         \* the AC: its connection, its session, the last id it knows
  accepted, reach,   \* ghosts: broadcasts without failure; the session each owes
  late,       \* ghost: operations recorded through an object that lost its row
  inverted,   \* ghost: an older session took the place of a newer one
  behind,     \* ghost: a restart found the stored counter behind the log
  faults, crashes

vars == <<rows, log, obj, mapped, held, gate, lifecycle, reissue, sender, writes,
          wire, ac, accepted, reach, late, inverted, behind, faults, crashes>>

ghosts == <<accepted, reach, late, inverted, behind>>

NotHeld == [by |-> NoConn, pending |-> NotCounted]
Unused  == [pc |-> "unused", row |-> NoRow, resumed |-> FALSE, state |-> "connecting",
            sc |-> 0, up |-> FALSE, awaiting |-> {}, know |-> 0]
Idle    == [pc |-> "idle", to |-> NoConn, id |-> 0, failed |-> FALSE]

Init ==
  /\ rows      = [r \in Rows |-> [status |-> "absent", sc |-> 0]]
  /\ log       = {}
  /\ obj       = [o \in Objects |-> Unused]
  /\ mapped    = {}
  /\ held      = [r \in Rows |-> NotHeld]
  /\ gate      = [o \in Objects |-> "open"]
  /\ lifecycle = [r \in Rows |-> NoConn]
  /\ reissue   = [c \in Conns |-> [step |-> "none", todo |-> {}]]
  /\ sender    = [m \in Msgs |-> Idle]
  /\ writes    = {}
  /\ wire      = [c \in Conns |-> [frames |-> <<>>, read |-> 0, answers |-> {}]]
  /\ ac        = [conn |-> NoConn, session |-> NoRow, last |-> 0]
  /\ accepted  = {}
  /\ reach     = [m \in Msgs |-> NoRow]
  /\ late      = {}
  /\ inverted  = FALSE
  /\ behind    = FALSE
  /\ faults    = 0
  /\ crashes   = 0

Fault == faults + crashes < MaxFailures /\ faults' = faults + 1

Held          == {r \in Rows : held[r] # NotHeld}
Live(c)       == obj[c].state \in {"reissuing", "active"}
Pending(r)    == {e \in log : e.row = r /\ ~e.done}
OnRecord(r, m) == \E e \in log : e.row = r /\ e.msg = m
Resumable(r)  == rows[r].status \in {"active", "disconnected"}

\* The object the registry or the holder has for its row.
Owns(o) ==
  \/ o \in mapped
  \/ obj[o].row # NoRow /\ held[obj[o].row].by = o

-----------------------------------------------------------------------------
(* The connect operation: handleConnect.                                   *)

\* The AC gives up the connection it has and asks to resume its session, or,
\* having lost it, for a new one.
AcOpen(c) ==
  /\ obj[c].pc = "unused" /\ \A d \in Conns : d < c => obj[d].pc # "unused"
  /\ \E session \in {NoRow, ac.session} :
       /\ obj' = [obj EXCEPT ![c] = [Unused EXCEPT !.pc = "looking", !.row = session,
                                                   !.know = ac.last, !.up = TRUE]]
       /\ ac' = [conn |-> c, session |-> session, last |-> IF session = NoRow THEN 0 ELSE ac.last]
  \* What it did not read is lost.
  /\ wire' = [d \in Conns |-> [wire[d] EXCEPT !.read = Len(wire[d].frames)]]
  /\ UNCHANGED <<rows, log, mapped, held, gate, lifecycle, reissue, sender, writes,
                 ghosts, faults, crashes>>

\* resumedSession: the row restored for a resume; any refusal starts a new session.
Lookup(c) ==
  /\ obj[c].pc = "looking"
  /\ LET r == obj[c].row
         found == r # NoRow /\ Resumable(r) /\ obj[c].know >= rows[r].sc
     IN  \/ /\ found
            /\ obj' = [obj EXCEPT ![c].pc = "adopting", ![c].resumed = TRUE, ![c].sc = rows[r].sc,
                                  ![c].know = 0]
            /\ UNCHANGED faults
         \/ /\ IF found THEN Fault ELSE UNCHANGED faults
            /\ obj' = [obj EXCEPT ![c].pc = "creating", ![c].row = NoRow, ![c].know = 0]
  /\ UNCHANGED <<rows, log, mapped, held, gate, lifecycle, reissue, sender, writes, wire, ac,
                 ghosts, crashes>>

\* PersistConnectSync: one transaction retires the AC's sessions and creates
\* the new row; a failure refuses the connection.
Create(c) ==
  /\ obj[c].pc = "creating"
  /\ \/ \E r \in Rows :
          /\ rows[r].status = "absent" /\ \A q \in Rows : q < r => rows[q].status # "absent"
          /\ rows' = [q \in Rows |->
               IF q = r THEN [status |-> "active", sc |-> 0]
               ELSE IF rows[q].status = "absent" THEN rows[q]
               ELSE [rows[q] EXCEPT !.status = "terminated"]]
          /\ obj' = [obj EXCEPT ![c].pc = "adopting", ![c].row = r]
          /\ UNCHANGED faults
     \/ /\ Fault
        /\ obj' = [obj EXCEPT ![c].pc = "closing", ![c].up = FALSE]
        /\ UNCHANGED rows
  /\ UNCHANGED <<log, mapped, held, gate, lifecycle, reissue, sender, writes, wire, ac,
                 ghosts, crashes>>

\* Faulty: a session replaces only the one it resumes.
SameSession(q, r) == q = r

\* SupersededBy: the sessions of one AC replace each other.
SupersededBy(q, r) == q = r \/ {q, r} \subseteq Rows

\* holder.Release: the holder's entries without the sessions r supersedes.
Released(r) == [q \in Rows |-> IF SupersededBy(q, r) THEN NotHeld ELSE held[q]]

\* Faulty: a resumed session keeps the counter restored from its row.
NoContinuation(c, prev) == obj[c].sc

\* continueFrom, from the object of the row the registry served or held.
ContinuedCounter(c, prev) == Min({obj[c].sc} \cup {obj[o].sc : o \in prev})

\* Faulty: only a resumed session is held while it connects.
HoldResumedOnly(c) == IF obj[c].resumed THEN [by |-> c, pending |-> NotCounted] ELSE NotHeld

\* The entry Hold adds for a session that connects.
HeldWhileConnecting(c) == [by |-> c, pending |-> NotCounted]

\* registry.adopt and the connect response: every session of the AC is
\* evicted and its connection closed, what the holder has for it discarded;
\* a resume of a session neither served nor held is refused.
Adopt(c) ==
  /\ obj[c].pc = "adopting"
  /\ LET r       == obj[c].row
         evicted == {d \in mapped \ {c} : SupersededBy(obj[d].row, r)}
         served  == {d \in evicted : obj[d].row = r}
         prev    == IF held[r] # NotHeld THEN {held[r].by} ELSE served
         continues == ~obj[c].resumed \/ prev # {}
     IN  /\ obj' = [o \in Objects |->
              IF o = c THEN [obj[c] EXCEPT !.pc = IF continues THEN "answered" ELSE "closing",
                                           !.up = @ /\ continues,
                                           !.sc = ContinuedCounter(c, prev)]
              ELSE IF o \in evicted THEN [obj[o] EXCEPT !.up = FALSE]
              ELSE obj[o]]
         /\ mapped' = (mapped \ evicted) \cup {d \in {c} : continues}
         /\ held' = IF continues THEN [Released(r) EXCEPT ![r] = HeldWhileConnecting(c)]
                    ELSE Released(r)
         /\ inverted' = (inverted \/ (\E q \in Held \cup {obj[d].row : d \in evicted} : q > r))
  /\ UNCHANGED <<rows, log, gate, lifecycle, reissue, sender, writes, wire, ac,
                 accepted, reach, late, behind, faults, crashes>>

\* The AC learns its session from the connect response and completes.
AcComplete(c) ==
  /\ ac.conn = c /\ obj[c].pc = "answered" /\ obj[c].up
  /\ ac' = [ac EXCEPT !.session = obj[c].row, !.last = IF obj[c].resumed THEN @ ELSE 0]
  /\ obj' = [obj EXCEPT ![c].pc = "completing"]
  /\ UNCHANGED <<rows, log, mapped, held, gate, lifecycle, reissue, sender, writes, wire,
                 ghosts, faults, crashes>>

-----------------------------------------------------------------------------
(* Going live and losing the connection: complete and release.             *)

\* Faulty: the row writes of one session run in any order.
Unlocked(r) == TRUE

\* The lifecycle lock of the row is free.
LifecycleFree(r) == lifecycle[r] = NoConn

\* goLive under the lifecycle lock and the issue gate.
GoLive(c) ==
  /\ obj[c].pc = "completing" /\ LifecycleFree(obj[c].row) /\ gate[c] = "open"
  /\ LET r       == obj[c].row
         refused == c \notin mapped \/ (obj[c].resumed /\ r \notin Held)
     IN  \/ /\ refused
            /\ obj' = [obj EXCEPT ![c].pc = "closing", ![c].up = FALSE]
            \* The holder releases before a resume it does not hold is refused.
            /\ held' = IF c \in mapped THEN Released(r) ELSE held
            /\ UNCHANGED <<gate, lifecycle, reissue>>
         \/ /\ ~refused
            /\ held' = Released(r)
            /\ gate' = [gate EXCEPT ![c] = "reissue"]
            /\ obj' = [obj EXCEPT ![c].state = "reissuing",
                                  ![c].pc = IF obj[c].resumed THEN "resuming" ELSE "reading"]
            /\ lifecycle' = IF obj[c].resumed THEN [lifecycle EXCEPT ![r] = c] ELSE lifecycle
            /\ reissue' = IF obj[c].resumed THEN reissue ELSE [reissue EXCEPT ![c].step = "read"]
  /\ UNCHANGED <<rows, log, mapped, sender, writes, wire, ac, ghosts, faults, crashes>>

\* PersistResume, then the lock is left and the reissue starts.
PersistResume(c) ==
  /\ obj[c].pc = "resuming"
  /\ LET r == obj[c].row
     IN  /\ \/ /\ rows' = IF Resumable(r) THEN [rows EXCEPT ![r].status = "active"] ELSE rows
               /\ UNCHANGED faults
            \/ Fault /\ UNCHANGED rows
         /\ lifecycle' = [lifecycle EXCEPT ![r] = IF @ = c THEN NoConn ELSE @]
  /\ obj' = [obj EXCEPT ![c].pc = "reading"]
  /\ reissue' = [reissue EXCEPT ![c].step = "read"]
  /\ UNCHANGED <<log, mapped, held, gate, sender, writes, wire, ac, ghosts, crashes>>

\* The network, the AC or the establishment deadline ends the connection; a
\* handler that neither reads nor writes does not notice.
Break(c) ==
  /\ obj[c].up /\ obj[c].pc \in {"answered", "resuming", "reading"}
  /\ obj' = [obj EXCEPT ![c].up = FALSE]
  /\ UNCHANGED <<rows, log, mapped, held, gate, lifecycle, reissue, sender, writes, wire, ac,
                 ghosts, faults, crashes>>

\* The entry Hold adds for a session that lost its connection.
HeldOnLoss(c) == [by |-> c, pending |-> NotCounted]

\* The connection still owns its session when it ends.
LosesSession(c) == c \in mapped

\* loseConnection, under the lifecycle lock of the session the connection
\* serves; Hold keeps the entry of a row already held.
LoseConnection(c) ==
  /\ ~obj[c].up /\ obj[c].pc \in {"answered", "reading", "closing"}
  /\ LET r == obj[c].row
     IN  \/ /\ LosesSession(c) /\ LifecycleFree(r)
            /\ mapped' = mapped \ {c}
            /\ held' = IF r \in Held THEN held ELSE [held EXCEPT ![r] = HeldOnLoss(c)]
            /\ lifecycle' = [lifecycle EXCEPT ![r] = c]
            /\ obj' = [obj EXCEPT ![c].pc = "losing"]
         \/ /\ ~LosesSession(c)
            /\ mapped' = mapped \ {c}
            /\ obj' = [obj EXCEPT ![c].pc = "gone"]
            /\ UNCHANGED <<held, lifecycle>>
  /\ wire' = [wire EXCEPT ![c].answers = {}]
  /\ UNCHANGED <<rows, log, gate, reissue, sender, writes, ac, ghosts, faults, crashes>>

\* PersistDisconnect leaves a terminated row as it is.
PersistDisconnect(c) ==
  /\ obj[c].pc = "losing"
  /\ LET r == obj[c].row
     IN  /\ \/ /\ rows' = IF rows[r].status = "active"
                          THEN [rows EXCEPT ![r].status = "disconnected"] ELSE rows
               /\ UNCHANGED faults
            \/ Fault /\ UNCHANGED rows
         /\ lifecycle' = [lifecycle EXCEPT ![r] = IF @ = c THEN NoConn ELSE @]
  /\ obj' = [obj EXCEPT ![c].pc = "gone"]
  /\ UNCHANGED <<log, mapped, held, gate, reissue, sender, writes, wire, ac, ghosts, crashes>>

-----------------------------------------------------------------------------
(* The reissue of what the session held: replayPendingOperations.          *)

\* The next operation to reissue: ids decrement in the order they were issued.
NextReissued(todo) == CHOOSE e \in todo : \A f \in todo : e.id >= f.id

\* Faulty: a new session has nothing to reissue.
ReadWhenResumed(c) == IF obj[c].resumed THEN Pending(obj[c].row) ELSE {}

\* GetPendingOperations: every operation of the row that is not completed.
ReadPending(c) == Pending(obj[c].row)

\* The log is read; a failure reissues nothing.
ReissueRead(c) ==
  /\ reissue[c].step = "read"
  /\ \/ /\ reissue' = [reissue EXCEPT ![c] = [step |-> "send", todo |-> ReadPending(c)]]
        /\ UNCHANGED faults
     \/ /\ Fault
        /\ reissue' = [reissue EXCEPT ![c].step = "send"]
  /\ UNCHANGED <<rows, log, obj, mapped, held, gate, lifecycle, sender, writes, wire, ac,
                 ghosts, crashes>>

\* sendSCOperation: the answer is awaited before the frame is written; a
\* closed connection loses the frame.
Sent(o, id, m) ==
  [o EXCEPT !.awaiting = {a \in @ : a.id # id} \cup {[id |-> id, msg |-> m]}]
Written(c, id, m) ==
  IF obj[c].up THEN [wire EXCEPT ![c].frames = Append(@, [id |-> id, msg |-> m])] ELSE wire

\* One operation is reissued; after the last the session is active and its
\* issue gate opens.
Reissue(c) ==
  /\ reissue[c].step = "send"
  /\ LET todo == reissue[c].todo
         next == NextReissued(todo)
         last == Cardinality(todo) <= 1
         sent == IF todo = {} THEN obj[c] ELSE Sent(obj[c], next.id, next.msg)
     IN  /\ obj' = [obj EXCEPT ![c] = IF last THEN [sent EXCEPT !.state = "active"] ELSE sent]
         /\ wire' = IF todo = {} THEN wire ELSE Written(c, next.id, next.msg)
         /\ reissue' = [reissue EXCEPT ![c] =
              IF last THEN [step |-> "none", todo |-> {}] ELSE [@ EXCEPT !.todo = todo \ {next}]]
         /\ gate' = IF last THEN [gate EXCEPT ![c] = "open"] ELSE gate
  /\ UNCHANGED <<rows, log, mapped, held, lifecycle, sender, writes, ac, ghosts, faults, crashes>>

-----------------------------------------------------------------------------
(* A broadcast: broadcastSCOperation.                                      *)

Entry(r, id, m) == [row |-> r, id |-> id, msg |-> m, done |-> FALSE]

\* An operation past the limit.
PastLimit(n) == n >= Limit

\* The holder's record for the held row r: count once, reserve the next id,
\* persist it, record the operation, and past the limit end the session.  Each
\* statement may fail.
RecordHeld(r, m, failed) ==
  LET o    == held[r].by
      n    == IF held[r].pending = NotCounted THEN Cardinality(Pending(r)) ELSE held[r].pending
      id   == obj[o].sc - 1
      counted == [held EXCEPT ![r].pending = n]
      stored == [rows EXCEPT ![r].sc = Min({@, id})]
      old  == m \in Uplinks /\ OnRecord(r, m)
      Reserve == obj[o].sc > 0 - MaxSc /\ obj' = [obj EXCEPT ![o].sc = id]
      Recorded == log' = log \cup {Entry(r, id, m)}
  IN  \* The count fails.
      \/ /\ failed /\ held[r].pending = NotCounted /\ Fault
         /\ UNCHANGED <<rows, log, held, obj>>
      \* The counter write fails, or after it the record.
      \/ /\ failed /\ Reserve /\ Fault
         /\ rows' \in {rows, stored} /\ held' = counted /\ UNCHANGED log
      \* The session has the operation already.
      \/ /\ ~failed /\ Reserve /\ old
         /\ rows' = stored /\ held' = counted /\ UNCHANGED <<log, faults>>
      \* Recorded within the limit.
      \/ /\ ~failed /\ Reserve /\ ~old /\ ~PastLimit(n) /\ Recorded
         /\ rows' = stored /\ held' = [held EXCEPT ![r].pending = n + 1] /\ UNCHANGED faults
      \* Recorded past the limit: the session stops being resumable.
      \/ /\ ~failed /\ Reserve /\ ~old /\ PastLimit(n) /\ Recorded
         /\ rows' = [stored EXCEPT ![r].status = "terminated"]
         /\ held' = [held EXCEPT ![r] = NotHeld] /\ UNCHANGED faults
      \* Recorded past the limit, and ending the session fails.
      \/ /\ failed /\ Reserve /\ ~old /\ PastLimit(n) /\ Recorded /\ Fault
         /\ rows' = stored /\ held' = counted

\* The broadcast of m ends; a failed uplink is delivered again.
Ended(m, failed) ==
  /\ sender' = [sender EXCEPT ![m] =
       [Idle EXCEPT !.pc = IF failed /\ m \in Uplinks THEN "idle" ELSE "done"]]
  /\ accepted' = IF failed THEN accepted \ {m} ELSE accepted \cup {m}

\* registry.targets, under one read lock.
Targets(m) ==
  /\ sender[m].pc = "idle"
  /\ reach' = [reach EXCEPT ![m] = ac.session]
  /\ \E failed \in BOOLEAN :
       /\ \/ \E r \in Held : RecordHeld(r, m, failed)
          \/ Held = {} /\ ~failed /\ UNCHANGED <<rows, log, held, obj, faults>>
       /\ \/ \E c \in mapped :
               /\ Live(c)
               /\ sender' = [sender EXCEPT ![m] = [Idle EXCEPT !.pc = "targeted", !.to = c,
                                                              !.failed = failed]]
               /\ accepted' = accepted \ {m}
          \/ ~(\E c \in mapped : Live(c)) /\ Ended(m, failed)
  /\ UNCHANGED <<mapped, gate, lifecycle, reissue, writes, wire, ac, late, inverted, behind,
                 crashes>>

\* initiateSCOperation, inside the gate of the object: the next id is reserved,
\* its counter write detached.
Issue(m) ==
  LET c == sender[m].to
      id == obj[c].sc - 1
  IN  /\ sender[m].pc = "targeted" /\ gate[c] = "open" /\ obj[c].sc > 0 - MaxSc
      /\ gate' = [gate EXCEPT ![c] = "send"]
      /\ obj' = [obj EXCEPT ![c].sc = id]
      /\ writes' = writes \cup {[row |-> obj[c].row, sc |-> id]}
      /\ sender' = [sender EXCEPT ![m].pc = "issued", ![m].id = id]
      /\ UNCHANGED <<rows, log, mapped, held, lifecycle, reissue, wire, ac, ghosts, faults, crashes>>

\* The gate is left and the broadcast, which has no other target, ends.
Served(m, failed) ==
  /\ gate' = [gate EXCEPT ![sender[m].to] = "open"]
  /\ Ended(m, failed)

\* The operation is recorded before its frame is written.
RecordOperation(m) ==
  /\ sender[m].pc = "issued"
  /\ LET c == sender[m].to
         r == obj[c].row
         new == Entry(r, sender[m].id, m)
     IN  \/ /\ m \in Uplinks /\ OnRecord(r, m)
            /\ Served(m, sender[m].failed)
            /\ UNCHANGED <<log, late, faults>>
         \/ /\ ~(m \in Uplinks /\ OnRecord(r, m))
            /\ log' = log \cup {new}
            /\ late' = IF Owns(c) THEN late ELSE late \cup {new}
            /\ sender' = [sender EXCEPT ![m].pc = "recorded"]
            /\ UNCHANGED <<gate, accepted, faults>>
         \/ /\ Fault
            /\ Served(m, TRUE)
            /\ UNCHANGED <<log, late>>
  /\ UNCHANGED <<rows, obj, mapped, held, lifecycle, reissue, writes, wire, ac, reach,
                 inverted, behind, crashes>>

\* The frame is written; an operation on record whose frame is lost is left
\* to the resume.
Send(m) ==
  /\ sender[m].pc = "recorded"
  /\ LET c == sender[m].to
     IN  /\ obj' = [obj EXCEPT ![c] = Sent(obj[c], sender[m].id, m)]
         /\ wire' = Written(c, sender[m].id, m)
  /\ Served(m, sender[m].failed)
  /\ UNCHANGED <<rows, log, mapped, held, lifecycle, reissue, writes, ac, reach, late,
                 inverted, behind, faults, crashes>>

\* UpdateOperationIDs never moves the stored counter back; its failure is logged.
FlushCounter(w) ==
  /\ w \in writes
  /\ writes' = writes \ {w}
  /\ \/ rows' = [rows EXCEPT ![w.row].sc = Min({@, w.sc})] /\ UNCHANGED faults
     \/ Fault /\ UNCHANGED rows
  /\ UNCHANGED <<log, obj, mapped, held, gate, lifecycle, reissue, sender, wire, ac, ghosts,
                 crashes>>

-----------------------------------------------------------------------------
(* The AC's answers.                                                       *)

\* The AC reads a frame of its connection and answers it.
AcReceive(c) ==
  /\ ac.conn = c /\ wire[c].read < Len(wire[c].frames) /\ ac.session = obj[c].row
  /\ LET f == wire[c].frames[wire[c].read + 1]
     IN  /\ wire' = [wire EXCEPT ![c].read = @ + 1,
                                 ![c].answers = IF obj[c].up THEN @ \cup {f} ELSE @]
         /\ ac' = [ac EXCEPT !.last = Min({@, f.id})]
  /\ UNCHANGED <<rows, log, obj, mapped, held, gate, lifecycle, reissue, sender, writes,
                 ghosts, faults, crashes>>

\* UpdateOperationState completes every operation of the row with this id.
Completed(r, id) ==
  {IF e.row = r /\ e.id = id THEN [e EXCEPT !.done = TRUE] ELSE e : e \in log}

\* routeMessage settles an answer it awaits and refuses any other; the
\* operation is completed in the log, whether or not its completion reaches
\* the AC.
HandleAnswer(c) ==
  /\ obj[c].pc = "reading" /\ obj[c].up
  /\ \E f \in wire[c].answers :
       /\ wire' = [wire EXCEPT ![c].answers = @ \ {f}]
       /\ obj' = [obj EXCEPT ![c].awaiting = @ \ {f}]
       /\ \/ /\ f \in obj[c].awaiting
             /\ log' = Completed(obj[c].row, f.id)
             /\ UNCHANGED faults
          \/ f \in obj[c].awaiting /\ Fault /\ UNCHANGED log
          \/ f \notin obj[c].awaiting /\ UNCHANGED <<log, faults>>
  /\ UNCHANGED <<rows, mapped, held, gate, lifecycle, reissue, sender, writes, ac, ghosts, crashes>>

-----------------------------------------------------------------------------
(* A restart of the process: memory is lost, the sessions left active are  *)
(* disconnected, and Load holds those that can be resumed.                 *)

\* ListResumableSessions.
Loaded == {r \in Rows : Resumable(r)}

Restart ==
  /\ faults + crashes < MaxFailures /\ crashes' = crashes + 1
  /\ rows' = [r \in Rows |-> IF rows[r].status = "active"
                             THEN [rows[r] EXCEPT !.status = "disconnected"] ELSE rows[r]]
  /\ held' = [r \in Rows |-> IF r \in Loaded THEN HeldOnLoss(BootObject) ELSE NotHeld]
  /\ obj' = [o \in Objects |->
       IF o = BootObject
       THEN [Unused EXCEPT !.row = IF Loaded = {} THEN NoRow ELSE Min(Loaded),
                           !.sc  = IF Loaded = {} THEN 0 ELSE rows[Min(Loaded)].sc]
       ELSE IF obj[o].pc = "unused" THEN Unused
       ELSE [Unused EXCEPT !.pc = "gone", !.row = obj[o].row]]
  /\ mapped' = {}
  /\ gate' = [o \in Objects |-> "open"]
  /\ lifecycle' = [r \in Rows |-> NoConn]
  /\ reissue' = [c \in Conns |-> [step |-> "none", todo |-> {}]]
  /\ writes' = {}
  \* The outbox delivers an uplink again that it did not see delivered.
  /\ sender' = [m \in Msgs |-> IF m \in Uplinks \/ sender[m].pc = "idle" THEN Idle
                               ELSE [Idle EXCEPT !.pc = "done"]]
  /\ behind' = (behind \/ \E e \in log : e.id < rows[e.row].sc)
  /\ UNCHANGED <<log, wire, ac, accepted, reach, late, inverted, faults>>

-----------------------------------------------------------------------------
Next ==
  \/ \E c \in Conns :
       \/ AcOpen(c) \/ Lookup(c) \/ Create(c) \/ Adopt(c) \/ AcComplete(c)
       \/ GoLive(c) \/ PersistResume(c) \/ Break(c) \/ LoseConnection(c) \/ PersistDisconnect(c)
       \/ ReissueRead(c) \/ Reissue(c)
       \/ AcReceive(c) \/ HandleAnswer(c)
  \/ \E m \in Msgs :
       \/ Targets(m) \/ Issue(m) \/ RecordOperation(m) \/ Send(m)
  \/ \E w \in writes : FlushCounter(w)
  \/ Restart

Spec == Init /\ [][Next]_vars

-----------------------------------------------------------------------------
(* Properties.                                                             *)

RowType     == [status : {"absent", "active", "disconnected", "terminated"}, sc : OpIds \cup {0}]
EntryType   == [row : Rows, id : OpIds, msg : Msgs, done : BOOLEAN]
FrameType   == [id : OpIds, msg : Msgs]
Steps       == {"unused", "looking", "creating", "adopting", "answered", "completing",
                "resuming", "reading", "closing", "losing", "gone"}
ObjType     == [pc : Steps, row : Rows \cup {NoRow}, resumed : BOOLEAN,
                state : {"connecting", "reissuing", "active"}, sc : OpIds \cup {0}, up : BOOLEAN,
                awaiting : SUBSET FrameType, know : OpIds \cup {0}]
HeldType    == [by : Objects, pending : Nat \cup {NotCounted}] \cup {NotHeld}
ReissueType == [step : {"none", "read", "send"}, todo : SUBSET EntryType]
SenderType  == [pc : {"idle", "targeted", "issued", "recorded", "done"},
                to : Conns \cup {NoConn}, id : OpIds \cup {0}, failed : BOOLEAN]
WireType    == [frames : Seq(FrameType), read : Nat, answers : SUBSET FrameType]

\* The values the state may take; the AC has one connection in the registry
\* and one session in the holder at most.
TypeOK ==
  /\ rows \in [Rows -> RowType]
  /\ log \subseteq EntryType /\ late \subseteq EntryType
  /\ obj \in [Objects -> ObjType]
  /\ mapped \subseteq Conns /\ \A c, d \in mapped : c = d
  /\ held \in [Rows -> HeldType] /\ \A q, r \in Held : q = r
  /\ gate \in [Objects -> {"open", "reissue", "send"}]
  /\ lifecycle \in [Rows -> Conns \cup {NoConn}]
  /\ reissue \in [Conns -> ReissueType]
  /\ sender \in [Msgs -> SenderType]
  /\ writes \subseteq [row : Rows, sc : OpIds]
  /\ wire \in [Conns -> WireType]
  /\ ac \in [conn : Conns \cup {NoConn}, session : Rows \cup {NoRow}, last : OpIds \cup {0}]
  /\ accepted \subseteq Msgs /\ reach \in [Msgs -> Rows \cup {NoRow}]
  /\ inverted \in BOOLEAN /\ behind \in BOOLEAN
  /\ faults \in 0..MaxFailures /\ crashes \in 0..MaxFailures

\* A broadcast that reports no failure is on record for the session the AC
\* had when it began, unless that session was ended: no move between
\* connected, held, connecting and restarted misses it.
AcceptedIsOnRecord ==
  \A m \in accepted :
    \/ inverted \/ reach[m] = NoRow
    \/ ~Resumable(reach[m]) \/ OnRecord(reach[m], m)

\* The row of a live session is active, however the loss of the connection it
\* was resumed from and its resume are interleaved, while every write succeeds.
LiveRowActive ==
  \A c \in mapped :
    Live(c) /\ obj[c].pc = "reading" /\ faults = 0
      => rows[obj[c].row].status # "disconnected"

\* "the stored session is never left active without a connection", while the
\* writes succeed and no older session takes the place of a newer one.
ActiveRowHasConnection ==
  faults > 0 \/ inverted \/
  \A r \in Rows : rows[r].status = "active" =>
    \E c \in Conns : /\ obj[c].row = r
                     /\ c \in mapped \/ obj[c].pc \in {"adopting", "losing"}

\* The stored session follows its connection, in both directions.
RowFollowsConnection == LiveRowActive /\ ActiveRowHasConnection

\* An active session waits for the answer of every operation on record that is
\* not completed: what was recorded while it was away, connecting or being
\* restored was reissued.
NothingLeftBehind ==
  faults > 0 \/
  \A c \in mapped : obj[c].state = "active" /\ ~behind =>
    \A e \in {e \in Pending(obj[c].row) : \A l \in late : l.id # e.id} :
      \/ [id |-> e.id, msg |-> e.msg] \in obj[c].awaiting
      \/ sender[e.msg].pc = "recorded"

\* Operation ids are used once in a session, also across its resumes.
IdsUsedOnce ==
  late # {} \/ behind \/
  \A e, f \in log : e.row = f.row /\ e.id = f.id => e = f

\* The frames of a connection carry decrementing ids: nothing new overtakes
\* what a resume reissues.
IdsDecrement ==
  late # {} \/ behind \/
  \A c \in Conns : \A i, j \in DOMAIN wire[c].frames :
    i < j => wire[c].frames[j].id < wire[c].frames[i].id

\* Ids name one operation each and arrive in the order they were issued.
IdsInOrder == IdsUsedOnce /\ IdsDecrement
=============================================================================
