--------------------------- MODULE MCAttachment ----------------------------
(* Instances of Attachment for TLC.                                        *)
EXTENDS Attachment, TLC

CONSTANTS s1, s2, j1, j2

\* The second telegram's counter has rolled over.
RollingOver == <<15, 0>>

\* Bound: behaviours are followed up to where a late copy of the first telegram
\* was taken for an advance.
UpToFallBack == ~fellBack

Symmetry == Permutations(Stations) \cup Permutations(Jobs)
=============================================================================
