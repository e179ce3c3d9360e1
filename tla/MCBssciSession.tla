--------------------------- MODULE MCBssciSession ---------------------------
(* Instances of BssciSession for TLC.                                      *)
EXTENDS BssciSession, TLC

CONSTANTS c1, c2, c3

\* Connections are interchangeable; so are the uuids of a one-uuid instance.
Symmetry == Permutations(Conns)
=============================================================================
