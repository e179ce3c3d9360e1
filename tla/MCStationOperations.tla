------------------------ MODULE MCStationOperations ------------------------
(* Instances of StationOperations for TLC: connections and operations are  *)
(* numbered in their order, so there is no symmetry to use.                *)
EXTENDS StationOperations
=============================================================================
