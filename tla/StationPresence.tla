--------------------------- MODULE StationPresence ---------------------------
(***************************************************************************)
(* Whether a base station is shown online: is_online and session_uuid of   *)
(* its basestations row, written by the activation of a connection, by the *)
(* teardown of a live one, and by the goroutine every frame starts.        *)
(*                                                                         *)
(* The teardown's conditional update reads the row first and writes it by  *)
(* id afterwards.  How connections are resumed is BssciSession's subject;  *)
(* here they come and go freely.                                           *)
(***************************************************************************)
EXTENDS Integers, FiniteSets

CONSTANTS
  Conns,      \* connections of the station
  NoConn,
  MaxSeen     \* bound: refreshes of a connection under way at a time

ASSUME PresenceAssumption == NoConn \notin Conns /\ MaxSeen \in Nat

VARIABLES
  station,  \* the row: is_online, session_uuid
  pc,       \* per connection, its reader's step
  live,     \* the registry of live connections
  seen,     \* per connection, the refreshes under way
  racing    \* ghost: per connection, the cleanups between read and write at
            \* its registration

vars == <<station, pc, live, seen, racing>>

Init ==
  /\ station = [online |-> FALSE, current |-> NoConn]
  /\ pc      = [c \in Conns |-> "handshake"]
  /\ live    = {}
  /\ seen    = [c \in Conns |-> 0]
  /\ racing  = [c \in Conns |-> {}]

Step(c, from, to) == pc[c] = from /\ pc' = [pc EXCEPT ![c] = to]

-----------------------------------------------------------------------------
\* RegisterConnection, before the connection is published.
RegisterConnection(c) ==
  /\ Step(c, "handshake", "registered")
  /\ station' = [online |-> TRUE, current |-> c]
  /\ racing' = [racing EXCEPT ![c] = {d \in Conns : pc[d] = "disconnecting"}]
  /\ UNCHANGED <<live, seen>>

\* publishLiveSession: the connections it displaces find out when they read.
PublishLiveSession(c) ==
  /\ Step(c, "registered", "live")
  /\ live' = {c}
  /\ UNCHANGED <<station, seen, racing>>

\* The read loop starts a refresh for every frame, the connect's own ones too.
Frame(c) ==
  /\ pc[c] \in {"handshake", "live"} /\ seen[c] < MaxSeen
  /\ seen' = [seen EXCEPT ![c] = @ + 1]
  /\ UNCHANGED <<station, pc, live, racing>>

\* Faulty: the refresh writes the time and leaves is_online alone.
TimeOnly == station

\* UpdateLastSeen sets is_online whatever became of the connection.
Refreshed == [station EXCEPT !.online = TRUE]

UpdateLastSeen(c) ==
  /\ seen[c] > 0
  /\ seen' = [seen EXCEPT ![c] = @ - 1]
  /\ station' = Refreshed
  /\ UNCHANGED <<pc, live, racing>>

\* The reader ends; only a connection that was live goes on to the row.
Teardown(c) ==
  /\ pc[c] \in {"handshake", "registered", "live"}
  /\ pc' = [pc EXCEPT ![c] = IF c \in live THEN "checking" ELSE "gone"]
  /\ live' = live \ {c}
  /\ UNCHANGED <<station, seen, racing>>

\* Faulty: the teardown does not compare the row's connection.
AnyConnection(c) == TRUE

\* DisconnectIfCurrent's condition, on the row it read.
IsCurrent(c) == station.current = c

Check(c) ==
  /\ Step(c, "checking", IF IsCurrent(c) THEN "disconnecting" ELSE "gone")
  /\ UNCHANGED <<station, live, seen, racing>>

\* DisconnectIfCurrent's update.
Disconnect(c) ==
  /\ Step(c, "disconnecting", "gone")
  /\ station' = [station EXCEPT !.online = FALSE]
  /\ UNCHANGED <<live, seen, racing>>

\* The station comes back over a new connection: an identity nothing refers
\* to any more is used again.
Reconnect(c) ==
  /\ Step(c, "gone", "handshake")
  /\ seen[c] = 0
  /\ station.current # c
  /\ UNCHANGED <<station, live, seen, racing>>

Next ==
  \E c \in Conns :
    \/ RegisterConnection(c) \/ PublishLiveSession(c) \/ Frame(c) \/ UpdateLastSeen(c)
    \/ Teardown(c) \/ Check(c) \/ Disconnect(c) \/ Reconnect(c)

Spec == Init /\ [][Next]_vars

\* Goroutines go on; a live station is polled and so keeps sending frames.
Fairness ==
  \A c \in Conns :
    /\ WF_vars(UpdateLastSeen(c)) /\ WF_vars(Check(c)) /\ WF_vars(Disconnect(c))
    /\ WF_vars(pc[c] = "live" /\ Frame(c))

FairSpec == Spec /\ Fairness

-----------------------------------------------------------------------------
(* Properties.                                                             *)

TypeOK ==
  /\ station \in [online : BOOLEAN, current : Conns \cup {NoConn}]
  /\ pc \in [Conns -> {"handshake", "registered", "live", "checking", "disconnecting", "gone"}]
  /\ live \subseteq Conns
  /\ seen \in [Conns -> 0..MaxSeen]
  /\ racing \in [Conns -> SUBSET Conns]

\* A connection that stays live shows its station online again and again,
\* whatever the late cleanup of others writes: its frames repair the row
\* (UpdateLastSeen).
LiveShownOnline ==
  \A c \in Conns : <>[](pc[c] = "live") => []<>station.online

\* The row's connection is taken offline under its feet only by a cleanup
\* that had compared the row before it registered: one that reads later, of a
\* connection displaced or torn down at any time, leaves it alone.
OnlineUnlessRaced ==
  [][\A c \in live : station.current = c /\ station.online /\ ~station'.online =>
       \E d \in racing[c] : pc[d] = "disconnecting"]_vars
=============================================================================
