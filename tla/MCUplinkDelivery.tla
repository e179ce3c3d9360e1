-------------------------- MODULE MCUplinkDelivery --------------------------
(* Instances of UplinkDelivery for TLC.                                    *)
EXTENDS UplinkDelivery

CONSTANTS t1, t2, t3, s1, s2

\* The endpoint uses its counter for t1 and again, far from it in radio time, for
\* t2 with the same content and t3 with another; s2 stamps before s1.
HeardAt == [t \in Telegrams |-> [s \in Stations |->
             (IF t = t1 THEN 2 ELSE 9) - (IF s = s2 THEN 1 ELSE 0)]]

Fingerprint == [t \in Telegrams |-> IF t = t3 THEN 1 ELSE 0]
=============================================================================
