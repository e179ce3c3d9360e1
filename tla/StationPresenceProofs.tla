----------------------- MODULE StationPresenceProofs -----------------------
(***************************************************************************)
(* Proofs about StationPresence, for any set of connections and any number *)
(* of refreshes under way.                                                 *)
(***************************************************************************)
EXTENDS StationPresence, TLAPS

\* The actions of Next, one disjunct each.
LEMMA NextCases ==
  ASSUME Next
  PROVE  \E c \in Conns :
           \/ RegisterConnection(c) \/ PublishLiveSession(c) \/ Frame(c) \/ UpdateLastSeen(c)
           \/ Teardown(c) \/ Check(c) \/ Disconnect(c) \/ Reconnect(c)
  BY DEF Next

\* The row, the steps and the registry keep their types (RegisterConnection,
\* UpdateLastSeen, DisconnectIfCurrent).
THEOREM TypeCorrect == Spec => []TypeOK
<1>1. Init => TypeOK
  BY PresenceAssumption DEF Init, TypeOK
<1>2. TypeOK /\ [Next]_vars => TypeOK'
  <2> SUFFICES ASSUME TypeOK, [Next]_vars PROVE TypeOK'
    OBVIOUS
  <2> USE PresenceAssumption DEF TypeOK
  <2>1. CASE UNCHANGED vars
    BY <2>1 DEF vars
  <2>2. CASE Next
    <3> PICK c \in Conns :
          \/ RegisterConnection(c) \/ PublishLiveSession(c) \/ Frame(c) \/ UpdateLastSeen(c)
          \/ Teardown(c) \/ Check(c) \/ Disconnect(c) \/ Reconnect(c)
      BY <2>2, NextCases
    <3>1. CASE RegisterConnection(c)
      BY <3>1 DEF RegisterConnection, Step
    <3>2. CASE PublishLiveSession(c)
      BY <3>2 DEF PublishLiveSession, Step
    <3>3. CASE Frame(c)
      BY <3>3 DEF Frame
    <3>4. CASE UpdateLastSeen(c)
      <4>1. seen' \in [Conns -> 0..MaxSeen]
        BY <3>4 DEF UpdateLastSeen
      <4>2. station' \in [online : BOOLEAN, current : Conns \cup {NoConn}]
        BY <3>4, Zenon DEF UpdateLastSeen, Refreshed
      <4> QED BY <3>4, <4>1, <4>2 DEF UpdateLastSeen
    <3>5. CASE Teardown(c)
      BY <3>5 DEF Teardown
    <3>6. CASE Check(c)
      BY <3>6 DEF Check, Step
    <3>7. CASE Disconnect(c)
      BY <3>7 DEF Disconnect, Step
    <3>8. CASE Reconnect(c)
      BY <3>8 DEF Reconnect, Step
    <3> QED BY <3>1, <3>2, <3>3, <3>4, <3>5, <3>6, <3>7, <3>8
  <2> QED BY <2>1, <2>2
<1> QED BY <1>1, <1>2, PTL DEF Spec

-----------------------------------------------------------------------------
\* A cleanup past its comparison is the row's own connection's, or was past it
\* when that connection registered; and only connections whose reader reads
\* are in the registry.
CleanupInv ==
  /\ \A d \in Conns : pc[d] = "disconnecting" =>
       /\ station.current \in Conns
       /\ station.current = d \/ d \in racing[station.current]
  /\ \A c \in live : pc[c] = "live"

\* The comparison of DisconnectIfCurrent orders every cleanup before or after
\* the registration of the row's connection.
LEMMA CleanupKept == TypeOK /\ CleanupInv /\ [Next]_vars => CleanupInv'
<1> SUFFICES ASSUME TypeOK, CleanupInv, [Next]_vars PROVE CleanupInv'
  OBVIOUS
<1> USE PresenceAssumption DEF TypeOK, CleanupInv
<1>1. CASE UNCHANGED vars
  BY <1>1 DEF vars
<1>2. CASE Next
  <2> PICK c \in Conns :
        \/ RegisterConnection(c) \/ PublishLiveSession(c) \/ Frame(c) \/ UpdateLastSeen(c)
        \/ Teardown(c) \/ Check(c) \/ Disconnect(c) \/ Reconnect(c)
    BY <1>2, NextCases
  <2>1. CASE RegisterConnection(c)
    BY <2>1 DEF RegisterConnection, Step
  <2>2. CASE PublishLiveSession(c)
    BY <2>2 DEF PublishLiveSession, Step
  <2>3. CASE Frame(c)
    BY <2>3 DEF Frame
  <2>4. CASE UpdateLastSeen(c)
    BY <2>4 DEF UpdateLastSeen, Refreshed
  <2>5. CASE Teardown(c)
    BY <2>5 DEF Teardown
  <2>6. CASE Check(c)
    BY <2>6 DEF Check, Step, IsCurrent
  <2>7. CASE Disconnect(c)
    BY <2>7 DEF Disconnect, Step
  <2>8. CASE Reconnect(c)
    BY <2>8 DEF Reconnect, Step
  <2> QED BY <2>1, <2>2, <2>3, <2>4, <2>5, <2>6, <2>7, <2>8
<1> QED BY <1>1, <1>2

\* Only a cleanup that compared the row before its connection registered takes
\* a live station offline (DisconnectIfCurrent, RegisterConnection).
THEOREM ShownOnlineUnlessRaced == Spec => OnlineUnlessRaced
<1> DEFINE Kept == \A c \in live : station.current = c /\ station.online /\ ~station'.online =>
                     \E d \in racing[c] : pc[d] = "disconnecting"
<1>1. Init => CleanupInv
  BY DEF Init, CleanupInv
<1>2. TypeOK /\ CleanupInv /\ [Next]_vars => [Kept]_vars
  <2> SUFFICES ASSUME TypeOK, CleanupInv, Next,
                      NEW e \in live, station.current = e, station.online, ~station'.online
               PROVE  \E d \in racing[e] : pc[d] = "disconnecting"
    BY DEF vars
  <2> PICK c \in Conns :
        \/ RegisterConnection(c) \/ PublishLiveSession(c) \/ Frame(c) \/ UpdateLastSeen(c)
        \/ Teardown(c) \/ Check(c) \/ Disconnect(c) \/ Reconnect(c)
    BY NextCases
  <2>1. Disconnect(c)
    BY DEF RegisterConnection, PublishLiveSession, Frame, UpdateLastSeen, Refreshed, Teardown,
           Check, Reconnect, TypeOK
  <2>2. pc[c] = "disconnecting" /\ pc[e] = "live"
    BY <2>1 DEF Disconnect, Step, CleanupInv
  <2>3. c \in racing[e]
    BY <2>2 DEF CleanupInv
  <2> QED BY <2>2, <2>3
<1> QED BY <1>1, <1>2, CleanupKept, TypeCorrect, PTL DEF Spec, OnlineUnlessRaced
=============================================================================
