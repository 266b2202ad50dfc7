------------------------------ MODULE MCLiveRun ------------------------------
(* LiveRun with one submitted root, two roots and a PTR hostname to find.  *)
EXTENDS LiveRun

CONSTANTS k1, k2, k3, h1

MCSubmission == {[k \in Key |-> IF k = k1 THEN [n |-> 1, ev |-> {}] ELSE NoEntry]}
MCNodes == [p \in NodePhase |-> 1]

=============================================================================
