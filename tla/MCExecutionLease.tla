-------------------------- MODULE MCExecutionLease --------------------------
(* ExecutionLease with interchangeable workers.                            *)
EXTENDS ExecutionLease, TLC

WorkerSymmetry == Permutations(Worker)

\* The properties say nothing once an outdated lease was written: those states
\* need not be explored any further.
Unclobbered == ~clobbered

=============================================================================
