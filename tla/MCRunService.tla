---------------------------- MODULE MCRunService ----------------------------
(* RunService with interchangeable pivots, executions and calls.           *)
EXTENDS RunService, TLC

Interchangeable ==
    Permutations(Pivot) \cup Permutations(Worker) \cup Permutations(Call)

=============================================================================
