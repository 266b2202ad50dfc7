---------------------------- MODULE RunLifecycle ----------------------------
(***************************************************************************)
(* What the checkpoint of a live run promises to who reads it: queued,     *)
(* running, awaiting review, running again, completed.  A run waits        *)
(* exactly while a review is open, only a reviewer decides, a decision is  *)
(* final, and a run without faults starts only from the queue.  What a     *)
(* fault may change is said action by action.  Module LiveRun implements   *)
(* it.                                                                     *)
(***************************************************************************)
CONSTANT Root

VARIABLES
    status,     \* RunRecord.Status
    open,       \* roots whose pivot is pending review
    decision,   \* the recorded decision on every root
    running,    \* a processor works on the run
    faulty,     \* history: a fault has happened
    contended   \* history: a decision was made while a processor worked

vars == <<status, open, decision, running, faulty, contended>>

Init ==
    /\ status = "queued" /\ open = {} /\ decision = [k \in Root |-> "none"]
    /\ running = FALSE /\ faulty = FALSE /\ contended = FALSE

Start ==
    /\ ~running
    /\ \/ contended
       \/ open = {} /\ (faulty \/ status = "queued")
    /\ running' = TRUE
    /\ UNCHANGED <<status, open, decision, faulty, contended>>

\* What a processor writes: it may open reviews of undecided roots, and only
\* who was overtaken by a decision writes another one over it.
Write(state) ==
    /\ running
    /\ status' = state
    /\ open' \subseteq Root
    /\ contended \/ decision' = decision
    /\ UNCHANGED contended

\* A checkpoint pauses the run exactly if a review is open; one that fails after
\* it was written leaves the processor to clean up.
Checkpoint ==
    /\ contended \/ open = {}
    /\ Write(IF open' = {} THEN "running" ELSE "awaiting_review")
    /\ \/ running' = (open' = {}) /\ UNCHANGED faulty
       \/ running' /\ faulty'

\* It takes a fault to complete a run with a review open.
Complete ==
    /\ Write("completed")
    /\ faulty \/ open' = {}
    /\ ~running' /\ UNCHANGED faulty

\* A run fails by a fault only.
Fail == Write("failed") /\ ~running' /\ faulty'

\* A fault that writes nothing: the processor may be gone, or nobody starts.
Stumble ==
    /\ faulty' /\ running' \in BOOLEAN /\ (running' => running)
    /\ UNCHANGED <<status, open, decision, contended>>

\* The reviewer meets a processor only where it is failing.
Decide(k, d) ==
    /\ k \in open
    /\ running => faulty
    /\ decision' = [decision EXCEPT ![k] = d]
    /\ open' = open \ {k}
    /\ status' = IF open' # {} THEN "awaiting_review"
                 ELSE IF status = "awaiting_review" THEN "queued" ELSE status
    /\ contended' = (contended \/ running)
    /\ UNCHANGED <<running, faulty>>

Next ==
    \/ Start \/ Checkpoint \/ Complete \/ Fail \/ Stumble
    \/ \E k \in Root, d \in {"accepted", "rejected"} : Decide(k, d)

Spec == Init /\ [][Next]_vars

=============================================================================
