--------------------------- MODULE MCScaciSession ---------------------------
(* Instances of ScaciSession for TLC: connections and rows are numbered in *)
(* their order, the messages of one kind are interchangeable.              *)
EXTENDS ScaciSession, TLC

CONSTANTS u1, r1

MCMsgs    == {u1, r1}
MCUplinks == {u1}
=============================================================================
