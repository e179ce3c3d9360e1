-------------------------- MODULE MCDownlinkQueue --------------------------
(***************************************************************************)
(* Instances of DownlinkQueue for TLC.                                     *)
(***************************************************************************)
EXTENDS DownlinkQueue, TLC

CONSTANTS d1, d2

\* Row ids are counted from 1, queue ids drawn far above the threshold.
SmallRowID == [d \in Downlinks |-> IF d = d1 THEN 1 ELSE 2]
DrawnQueID == [d \in Downlinks |-> QueueIDThreshold + 10 + SmallRowID[d]]

\* Stations, dispatchers and windows are interchangeable.
Interchangeable ==
  Permutations(Stations) \cup Permutations(Dispatchers) \cup Permutations(Windows)

\* The environment in which no station answers and none reconnects: users,
\* dispatchers, deletions and the sweep are enough.
QuietNext ==
  \/ \E d \in Downlinks : Originator(d)
  \/ \E w \in Dispatchers : Dispatch(w)
  \/ \E s \in Stations : Removal(s)
  \/ SweepOnce
  \/ \E p \in inFlight : Tell(p[1], p[2])

QuietSpec == Init /\ [][QuietNext]_vars
=============================================================================
