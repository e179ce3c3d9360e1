-------------------------- MODULE DownlinkPromise --------------------------
(***************************************************************************)
(* What the service center promises the originators of downlinks, with no  *)
(* word of stations, dispatchers, windows or retries: an accepted downlink *)
(* has at most one outcome, keeps it, and every outcome but a revocation   *)
(* is reported once, by a message a crash may lose and nothing repeats.    *)
(*                                                                         *)
(* The one way out is a strike: the downlinks it hits are open again.      *)
(***************************************************************************)
EXTENDS Naturals, Sequences

CONSTANT Downlinks

VARIABLES
  phase,     \* "none", "open", or the outcome
  issued,    \* per downlink, the reports made of it
  inFlight,  \* <<d, i>>: report i of d is on its way
  told,      \* <<d, i>>: report i of d was heard
  struck     \* the downlinks a strike opened again

promiseVars == <<phase, issued, inFlight, told, struck>>

\* The outcomes, and the report each is announced by.
Outcomes == {"transmitted", "failed", "expired", "revoked"}

ReportOf(o) ==
  CASE o = "transmitted" -> <<"sent">>
    [] o = "failed"      -> <<"invalid">>
    [] o = "expired"     -> <<"expired">>
    [] OTHER             -> <<>>

Init ==
  /\ phase    = [d \in Downlinks |-> "none"]
  /\ issued   = [d \in Downlinks |-> <<>>]
  /\ inFlight = {}
  /\ told     = {}
  /\ struck   = {}

Become(D, p) == phase' = [d \in Downlinks |-> IF d \in D THEN p ELSE phase[d]]

Accept(d) ==
  /\ phase[d] = "none"
  /\ Become({d}, "open")
  /\ UNCHANGED <<issued, inFlight, told, struck>>

\* Open downlinks end together, and each is reported.
Finish(D, o) ==
  /\ \A d \in D : phase[d] = "open"
  /\ Become(D, o)
  /\ issued' = [d \in Downlinks |-> IF d \in D THEN issued[d] \o ReportOf(o)
                                               ELSE issued[d]]
  /\ inFlight' = inFlight \cup
       {<<d, Len(issued[d]) + 1>> : d \in {e \in D : ReportOf(o) # <<>>}}
  /\ UNCHANGED <<told, struck>>

Hear(p) ==
  /\ p \in inFlight
  /\ inFlight' = inFlight \ {p}
  /\ told' = told \cup {p}
  /\ UNCHANGED <<phase, issued, struck>>

LoseReports ==
  /\ inFlight' = {}
  /\ UNCHANGED <<phase, issued, told, struck>>

Strike(D) ==
  /\ Become(D, "open")
  /\ struck' = struck \cup D
  /\ UNCHANGED <<issued, inFlight, told>>

Next ==
  \/ \E d \in Downlinks : Accept(d)
  \/ \E D \in SUBSET Downlinks, o \in Outcomes : Finish(D, o)
  \/ \E p \in inFlight : Hear(p)
  \/ LoseReports
  \/ \E D \in SUBSET Downlinks : Strike(D)

Spec == Init /\ [][Next]_promiseVars
=============================================================================
