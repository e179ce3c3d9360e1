------------------------- MODULE MCStationPresence -------------------------
(* Instances of StationPresence for TLC.                                   *)
EXTENDS StationPresence
=============================================================================
