------------------------------ MODULE RunService ------------------------------
(***************************************************************************)
(* The control plane around one manual run: API calls (CreateRun has       *)
(* happened, DecidePivot), dispatches, and the workers that process the    *)
(* run, each of them a sequence of separate calls to the checkpoint store  *)
(* and to the Firestore projection.  What happens inside the pipeline is   *)
(* module LiveRun; here processing only finds pivots.                      *)
(*                                                                         *)
(* In a deployment with jobs every dispatch starts a worker (Worker.Run);  *)
(* without, the server's own loop processes one dispatch after the other.  *)
(***************************************************************************)
EXTENDS Naturals, PivotOps

CONSTANTS
    Pivot,        \* roots that need a review
    Worker,       \* executions
    Call,         \* calls of DecidePivot
    NoLease,      \* the empty ExecutionLeaseID
    Deployment,   \* subset of BOOLEAN: with worker jobs, or in process
    Concurrent,   \* whether two calls of DecidePivot may overlap
    MaxFaults     \* bound: calls of DecidePivot that fail on the way

ASSUME ServiceAssumption ==
    /\ NoLease \notin Worker
    /\ Worker \cap Call = {}
    /\ Deployment \subseteq BOOLEAN
    /\ Concurrent \in BOOLEAN
    /\ MaxFaults \in Nat

VARIABLES
    jobs,      \* the deployment of this behaviour
    saved,     \* the snapshot in the checkpoint store
    doc,       \* the run's document in the projection: lease and status
    shown,     \* the pivot documents in the projection
    queue,     \* dispatches on their way
    pc,        \* where each worker and each call is
    snap,      \* its copy of the snapshot
    seen,      \* the lease its UpsertRun has read
    review,    \* what a call decides
    acked,     \* history: decisions whose call returned without an error
    faults

vars == <<jobs, saved, doc, shown, queue, pc, snap, seen, review, acked, faults>>

Client == Worker \cup Call

\* A pivot is "none", "pending_review", "accepted" or "rejected"; a run "queued",
\* "running", "awaiting_review" or "completed".
NoPivots == [p \in Pivot |-> "none"]
NoSnapshot == [status |-> "queued", pivots |-> NoPivots]
NoReview == [on |-> FALSE]

\* Where a worker is: "new", "load", "mark", "markSet", "work", "project",
\* "projectSet", "projectPivots", "release", "refused" or "done".  Where a call is:
\* "new", "save", "upsert", "upsertSet", "pivot", "enqueue" or "done".

\* CreateRun has saved and projected the run and dispatched it.
Init ==
    /\ jobs \in Deployment
    /\ saved = NoSnapshot
    /\ doc = [lease |-> NoLease, status |-> "queued"]
    /\ shown = NoPivots
    /\ queue = 1
    /\ pc = [c \in Client |-> "new"]
    /\ snap = [c \in Client |-> NoSnapshot]
    /\ seen = [c \in Client |-> NoLease]
    /\ review = [c \in Call |-> NoReview]
    /\ acked = NoPivots
    /\ faults = 0

At(c, l) == pc[c] = l
Goto(c, l) == pc' = [pc EXCEPT ![c] = l]
Busy(c) == pc[c] \notin {"new", "refused", "done"}

\* UpsertRun: the lease that is read is written back with the caller's status.
UpsertRunLoad(c, l) ==
    /\ seen' = [seen EXCEPT ![c] = doc.lease]
    /\ Goto(c, l)

UpsertRunSet_KeepsStatus(c, status) ==
    doc' = [lease |-> seen[c], status |-> doc.status]

UpsertRunSet(c, status) ==
    doc' = [lease |-> seen[c], status |-> status]

-----------------------------------------------------------------------------
(* Workers.                                                                *)

\* The server's loop takes the next dispatch when the last one has returned.
DeliverInProcess(w) ==
    /\ ~jobs
    /\ queue > 0 /\ At(w, "new")
    /\ \A v \in Worker : ~Busy(v)
    /\ queue' = queue - 1
    /\ Goto(w, "load")
    /\ UNCHANGED <<jobs, saved, doc, shown, snap, seen, review, acked, faults>>

ClaimRun_IgnoresLease(w) ==
    /\ jobs
    /\ queue > 0 /\ At(w, "new")
    /\ queue' = queue - 1
    /\ doc' = [doc EXCEPT !.lease = w]
    /\ Goto(w, "load")
    /\ UNCHANGED <<jobs, saved, shown, snap, seen, review, acked, faults>>

ClaimRun(w) ==
    /\ jobs
    /\ queue > 0 /\ At(w, "new")
    /\ queue' = queue - 1
    /\ doc.lease = NoLease
    /\ doc' = [doc EXCEPT !.lease = w]
    /\ Goto(w, "load")
    /\ UNCHANGED <<jobs, saved, shown, snap, seen, review, acked, faults>>

\* Somebody's lease is active: the execution ends and its dispatch is used up.
ClaimRefused(w) ==
    /\ jobs
    /\ queue > 0 /\ At(w, "new")
    /\ queue' = queue - 1
    /\ doc.lease # NoLease
    /\ Goto(w, "refused")
    /\ UNCHANGED <<jobs, saved, doc, shown, snap, seen, review, acked, faults>>

LoadSnapshot_ForgetsPivots(w) ==
    /\ At(w, "load")
    /\ snap' = [snap EXCEPT ![w] = [status |-> "running", pivots |-> NoPivots]]
    /\ Goto(w, "mark")
    /\ UNCHANGED <<jobs, saved, doc, shown, queue, seen, review, acked, faults>>

LoadSnapshot(w) ==
    /\ At(w, "load")
    /\ snap' = [snap EXCEPT ![w] = [saved EXCEPT !.status = "running"]]
    /\ Goto(w, "mark")
    /\ UNCHANGED <<jobs, saved, doc, shown, queue, seen, review, acked, faults>>

MarkRunning(w) ==
    \/ /\ At(w, "mark")
       /\ UpsertRunLoad(w, "markSet")
       /\ UNCHANGED <<jobs, saved, doc, shown, queue, snap, review, acked, faults>>
    \/ /\ At(w, "markSet")
       /\ UpsertRunSet(w, snap[w].status)
       /\ Goto(w, "work")
       /\ UNCHANGED <<jobs, saved, shown, queue, snap, seen, review, acked, faults>>

\* The pipeline reaches a checkpoint, with new pivots to review or none.
Checkpoint(w, found) ==
    LET pivots == [p \in Pivot |-> IF p \in found THEN "pending_review"
                                   ELSE snap[w].pivots[p]]
        s == [status |-> IF hasPendingReview(pivots) THEN "awaiting_review"
                         ELSE "running",
              pivots |-> pivots]
    IN  /\ At(w, "work")
        /\ \A p \in found : snap[w].pivots[p] = "none"
        /\ saved' = s
        /\ snap' = [snap EXCEPT ![w] = s]
        /\ Goto(w, "project")
        /\ UNCHANGED <<jobs, doc, shown, queue, seen, review, acked, faults>>

CompleteRun(w) ==
    /\ At(w, "work")
    /\ saved' = [snap[w] EXCEPT !.status = "completed"]
    /\ snap' = [snap EXCEPT ![w].status = "completed"]
    /\ Goto(w, "project")
    /\ UNCHANGED <<jobs, doc, shown, queue, seen, review, acked, faults>>

\* projectSnapshot: the run's document first, the pivots last; a checkpoint
\* without a pending review goes on with the pipeline.
ProjectSnapshot(w) ==
    \/ /\ At(w, "project")
       /\ UpsertRunLoad(w, "projectSet")
       /\ UNCHANGED <<jobs, saved, doc, shown, queue, snap, review, acked, faults>>
    \/ /\ At(w, "projectSet")
       /\ UpsertRunSet(w, snap[w].status)
       /\ Goto(w, "projectPivots")
       /\ UNCHANGED <<jobs, saved, shown, queue, snap, seen, review, acked, faults>>
    \/ /\ At(w, "projectPivots")
       /\ shown' = [p \in Pivot |-> IF snap[w].pivots[p] # "none"
                                    THEN snap[w].pivots[p] ELSE shown[p]]
       /\ Goto(w, IF snap[w].status = "running" THEN "work" ELSE "release")
       /\ UNCHANGED <<jobs, saved, doc, queue, snap, seen, review, acked, faults>>

Release(w) ==
    /\ At(w, "release")
    /\ doc' = IF doc.lease = w THEN [doc EXCEPT !.lease = NoLease] ELSE doc
    /\ Goto(w, "done")
    /\ UNCHANGED <<jobs, saved, shown, queue, snap, seen, review, acked, faults>>

-----------------------------------------------------------------------------
(* DecidePivot.                                                            *)

\* The reviewer finds a pending pivot in the projection; the call loads the
\* snapshot and refuses a pivot that is not pending in it.
LoadForReview(c, p, d) ==
    /\ At(c, "new")
    /\ Concurrent \/ \A b \in Call : ~Busy(b)
    /\ shown[p] = "pending_review"
    /\ review' = [review EXCEPT ![c] = [on |-> TRUE, pivot |-> p, decision |-> d]]
    /\ snap' = [snap EXCEPT ![c] = saved]
    /\ Goto(c, IF saved.pivots[p] = "pending_review" THEN "save" ELSE "done")
    /\ UNCHANGED <<jobs, saved, doc, shown, queue, seen, acked, faults>>

DecidedSnapshot(s, p, d) ==
    LET pivots == [s.pivots EXCEPT ![p] = d]
    IN  [status |-> IF hasPendingReview(pivots) THEN "awaiting_review"
                    ELSE IF s.status = "awaiting_review" THEN "queued"
                    ELSE s.status,
         pivots |-> pivots]

SaveDecision(c) ==
    LET s == DecidedSnapshot(snap[c], review[c].pivot, review[c].decision)
    IN  /\ At(c, "save")
        /\ saved' = s
        /\ snap' = [snap EXCEPT ![c] = s]
        /\ Goto(c, "upsert")
        /\ UNCHANGED <<jobs, doc, shown, queue, seen, review, acked, faults>>

ProjectDecision(c) ==
    \/ /\ At(c, "upsert")
       /\ UpsertRunLoad(c, "upsertSet")
       /\ UNCHANGED <<jobs, saved, doc, shown, queue, snap, review, acked, faults>>
    \/ /\ At(c, "upsertSet")
       /\ UpsertRunSet(c, snap[c].status)
       /\ Goto(c, "pivot")
       /\ UNCHANGED <<jobs, saved, shown, queue, snap, seen, review, acked, faults>>
    \/ /\ At(c, "pivot")
       /\ shown' = [shown EXCEPT ![review[c].pivot] = review[c].decision]
       /\ Goto(c, "enqueue")
       /\ UNCHANGED <<jobs, saved, doc, queue, snap, seen, review, acked, faults>>

EnqueueResumed_NotDispatched(c) ==
    /\ At(c, "enqueue")
    /\ acked' = [acked EXCEPT ![review[c].pivot] = review[c].decision]
    /\ Goto(c, "done")
    /\ UNCHANGED <<jobs, saved, doc, shown, queue, snap, seen, review, faults>>

\* The call that clears the last pending review dispatches the run.
EnqueueResumed(c) ==
    /\ At(c, "enqueue")
    /\ queue' = IF hasPendingReview(snap[c].pivots) THEN queue ELSE queue + 1
    /\ acked' = [acked EXCEPT ![review[c].pivot] = review[c].decision]
    /\ Goto(c, "done")
    /\ UNCHANGED <<jobs, saved, doc, shown, snap, seen, review, faults>>

\* One of the stores or the dispatcher returns an error: so does the call.
CallFails(c) ==
    /\ pc[c] \in {"save", "upsert", "upsertSet", "pivot", "enqueue"}
    /\ faults < MaxFaults
    /\ faults' = faults + 1
    /\ Goto(c, "done")
    /\ UNCHANGED <<jobs, saved, doc, shown, queue, snap, seen, review, acked>>

-----------------------------------------------------------------------------

Next ==
    \/ \E w \in Worker :
         \/ DeliverInProcess(w) \/ ClaimRun(w) \/ ClaimRefused(w)
         \/ LoadSnapshot(w) \/ MarkRunning(w)
         \/ \E found \in SUBSET Pivot : Checkpoint(w, found)
         \/ CompleteRun(w) \/ ProjectSnapshot(w) \/ Release(w)
    \/ \E c \in Call :
         \/ \E p \in Pivot, d \in {"accepted", "rejected"} : LoadForReview(c, p, d)
         \/ SaveDecision(c) \/ ProjectDecision(c) \/ EnqueueResumed(c)
         \/ CallFails(c)

Spec == Init /\ [][Next]_vars

-----------------------------------------------------------------------------
(* Properties.                                                             *)

Quiet == queue = 0 /\ \A c \in Client : ~Busy(c)

\* A run waits for a reviewer, or somebody is going to process it, or it is
\* finished: only a call that failed half-way or a dispatch whose worker was
\* refused can leave it alone as "queued" or "running".
NotStranded ==
    Quiet /\ faults = 0 /\ (\A w \in Worker : ~At(w, "refused")) =>
        saved.status = "completed" \/ hasPendingReview(saved.pivots)

\* The same without the exceptions.
NeverStranded ==
    Quiet => saved.status = "completed" \/ hasPendingReview(saved.pivots)

\* A decision whose call was answered without an error stays in the snapshot.
AcknowledgedKept ==
    \A p \in Pivot : acked[p] # "none" => saved.pivots[p] = acked[p]

\* Two executions never process the run at the same time.
SingleProcessor ==
    \A v, w \in Worker : Busy(v) /\ Busy(w) => v = w

\* When nothing is going on and no call has failed, the read model shows what
\* the checkpoint holds, although workers and calls write it in several steps.
ProjectionMatches ==
    Quiet /\ faults = 0 => doc.status = saved.status /\ shown = saved.pivots

=============================================================================
