--------------------------- MODULE RunServiceProofs ---------------------------
(***************************************************************************)
(* For any pivots, executions and calls, in both deployments, and however  *)
(* many calls fail: one execution at a time processes the run, no answered *)
(* decision is lost, the read model catches up and the run is not stranded *)
(* -- as long as two calls of DecidePivot do not overlap.  Where they do,  *)
(* the run LostDecision shows what happens.                                *)
(*                                                                         *)
(* The argument is that the run is in one hand at a time: a dispatch on    *)
(* its way, an execution that has not projected its last checkpoint, or a  *)
(* call.  Whoever has it holds the only copy of the snapshot that will be  *)
(* written back.                                                           *)
(***************************************************************************)
EXTENDS RunService, TLAPS

Decision == {"accepted", "rejected"}
PivotDecision == {"none", "pending_review"} \cup Decision
RunStatus == {"queued", "running", "awaiting_review", "completed"}
Snapshot == [status : RunStatus, pivots : [Pivot -> PivotDecision]]
WorkerPC == {"new", "load", "mark", "markSet", "work", "project", "projectSet",
             "projectPivots", "release", "refused", "done"}
CallPC == {"new", "save", "upsert", "upsertSet", "pivot", "enqueue", "done"}

Deciding(c) == pc[c] \in CallPC \ {"new", "done"}
Before(w) == pc[w] \in {"load", "mark", "markSet", "work"}
Projecting(w) == pc[w] \in {"project", "projectSet", "projectPivots"}
Processing(w) == Before(w) \/ Projecting(w)

\* Nobody has the run, or only a dispatch that is on its way.
Unattended == (\A w \in Worker : ~Processing(w)) /\ (\A c \in Call : ~Deciding(c))

Lease == Worker \cup {NoLease}

TypeOK ==
    /\ jobs \in BOOLEAN
    /\ saved \in Snapshot
    /\ doc \in [lease : Lease, status : RunStatus]
    /\ shown \in [Pivot -> PivotDecision]
    /\ queue \in Nat
    /\ pc \in [Client -> WorkerPC \cup CallPC]
    /\ \A w \in Worker : pc[w] \in WorkerPC
    /\ \A c \in Call : pc[c] \in CallPC
    /\ snap \in [Client -> Snapshot]
    /\ seen \in [Client -> Lease]
    /\ review = [c \in Call |-> review[c]]
    /\ \A c \in Call : Deciding(c) => /\ review[c].pivot \in Pivot
                                      /\ review[c].decision \in Decision
    /\ acked \in [Pivot -> {"none"} \cup Decision]
    /\ faults \in Nat

\* The run is in one hand.
OneHand ==
    /\ \A v, w \in Worker : Processing(v) /\ Processing(w) => v = w
    /\ \A b, c \in Call : Deciding(b) /\ Deciding(c) => b = c
    /\ \A w \in Worker, c \in Call : ~(Processing(w) /\ Deciding(c))
    /\ queue > 0 => queue = 1 /\ Unattended /\ ~hasPendingReview(saved.pivots)

\* With jobs an execution has the lease until it releases it: an UpsertRun that
\* read the lease before its release writes the same lease back.
LeaseHeld ==
    jobs => \A w \in Worker :
        Busy(w) => /\ doc.lease = w
                   /\ pc[w] \in {"markSet", "projectSet"} => seen[w] = w
                   /\ \A c \in Call : At(c, "upsertSet") => seen[c] = w

\* A pivot is shown as pending only when it can be decided.
ShownLate ==
    /\ \A p \in Pivot : saved.pivots[p] = "none" => shown[p] = "none"
    /\ \A w \in Worker : Processing(w) =>
          \A p \in Pivot : shown[p] = "pending_review" =>
                               saved.pivots[p] # "pending_review"

\* The copy of the snapshot of whoever has the run is the saved one.
Current ==
    /\ \A w \in Worker :
          /\ Before(w) => ~hasPendingReview(saved.pivots)
          /\ pc[w] \in {"mark", "markSet", "work"} => snap[w].pivots = saved.pivots
          /\ Projecting(w) =>
                /\ snap[w] = saved
                /\ \/ saved.status = "completed"
                   \/ saved.status = "running" /\ ~hasPendingReview(saved.pivots)
                   \/ saved.status = "awaiting_review" /\ hasPendingReview(saved.pivots)
    /\ \A c \in Call : Deciding(c) =>
          /\ snap[c] = saved
          /\ saved.pivots[review[c].pivot] =
                IF At(c, "save") THEN "pending_review" ELSE review[c].decision

\* How far the read model has caught up, if no call has failed.
Projected ==
    faults = 0 =>
        /\ Unattended => doc.status = saved.status /\ shown = saved.pivots
        /\ \A w \in Worker :
              /\ Before(w) => shown = saved.pivots
              /\ At(w, "projectPivots") => doc.status = saved.status
        /\ \A c \in Call : Deciding(c) =>
              /\ \A p \in Pivot \ {review[c].pivot} : shown[p] = saved.pivots[p]
              /\ At(c, "enqueue") => shown = saved.pivots
              /\ pc[c] \in {"pivot", "enqueue"} => doc.status = saved.status

\* Nobody has the run only when it is finished or waits for a reviewer.
Attended ==
    /\ faults = 0 /\ queue = 0 /\ Unattended
    /\ \A w \in Worker : ~At(w, "refused")
    => saved.status = "completed" \/ hasPendingReview(saved.pivots)

Inv == /\ TypeOK /\ SingleProcessor /\ OneHand /\ LeaseHeld /\ ShownLate
       /\ Current /\ AcknowledgedKept /\ Projected /\ Attended

-----------------------------------------------------------------------------
(* Types.                                                                  *)

\* hasPendingReview looks at the pivots of a well-typed snapshot.
LEMMA PendingReview ==
    ASSUME NEW pivots \in [Pivot -> PivotDecision]
    PROVE  hasPendingReview(pivots) <=> \E p \in Pivot : pivots[p] = "pending_review"
BY DEF hasPendingReview

\* A decision and a checkpoint make well-typed snapshots.
LEMMA DecidedType ==
    ASSUME NEW s \in Snapshot, NEW p \in Pivot, NEW d \in Decision
    PROVE  /\ DecidedSnapshot(s, p, d) \in Snapshot
           /\ DecidedSnapshot(s, p, d).pivots = [s.pivots EXCEPT ![p] = d]
BY DEF DecidedSnapshot, Snapshot, RunStatus, PivotDecision

\* The fields of a client's copy of the snapshot.
LEMMA SnapshotFields ==
    ASSUME TypeOK, NEW c \in Client
    PROVE  snap[c].status \in RunStatus /\ snap[c].pivots \in [Pivot -> PivotDecision]
BY DEF TypeOK, Snapshot

\* Every step keeps the types.
LEMMA TypeStep == TypeOK /\ [Next]_vars => TypeOK'
<1> SUFFICES ASSUME TypeOK, [Next]_vars PROVE TypeOK'
  OBVIOUS
<1> USE ServiceAssumption DEF TypeOK, Client, WorkerPC, CallPC, At, Goto, Lease, Deciding
<1>1. ASSUME NEW w \in Worker, DeliverInProcess(w) PROVE TypeOK'
  BY <1>1 DEF DeliverInProcess
<1>2. ASSUME NEW w \in Worker, ClaimRun(w) PROVE TypeOK'
  BY <1>2 DEF ClaimRun
<1>3. ASSUME NEW w \in Worker, ClaimRefused(w) PROVE TypeOK'
  BY <1>3 DEF ClaimRefused
<1>4. ASSUME NEW w \in Worker, LoadSnapshot(w) PROVE TypeOK'
  BY <1>4 DEF LoadSnapshot, Snapshot, RunStatus
<1>5. ASSUME NEW w \in Worker, MarkRunning(w) PROVE TypeOK'
  <2>1. CASE At(w, "mark")
    BY <1>5, <2>1 DEF MarkRunning, UpsertRunLoad
  <2>2. CASE At(w, "markSet")
    BY <1>5, <2>2, SnapshotFields DEF MarkRunning, UpsertRunSet
  <2> QED
    BY <1>5, <2>1, <2>2 DEF MarkRunning
<1>6. ASSUME NEW w \in Worker, NEW found \in SUBSET Pivot, Checkpoint(w, found)
      PROVE TypeOK'
  BY <1>6 DEF Checkpoint, Snapshot, RunStatus, PivotDecision
<1>7. ASSUME NEW w \in Worker, CompleteRun(w) PROVE TypeOK'
  BY <1>7 DEF CompleteRun, Snapshot, RunStatus
<1>8. ASSUME NEW w \in Worker, ProjectSnapshot(w) PROVE TypeOK'
  <2>1. CASE At(w, "project")
    BY <1>8, <2>1 DEF ProjectSnapshot, UpsertRunLoad
  <2>2. CASE At(w, "projectSet")
    <3>1. doc' \in [lease : Lease, status : RunStatus]
      BY <1>8, <2>2, SnapshotFields DEF ProjectSnapshot, UpsertRunSet
    <3>2. /\ UNCHANGED <<jobs, saved, shown, queue, snap, seen, review, acked, faults>>
          /\ Goto(w, "projectPivots")
      BY <1>8, <2>2 DEF ProjectSnapshot
    <3> QED
      BY <3>1, <3>2
  <2>3. CASE At(w, "projectPivots")
    BY <1>8, <2>3, SnapshotFields DEF ProjectSnapshot
  <2> QED
    BY <1>8, <2>1, <2>2, <2>3 DEF ProjectSnapshot
<1>9. ASSUME NEW w \in Worker, Release(w) PROVE TypeOK'
  BY <1>9 DEF Release
<1>10. ASSUME NEW c \in Call, NEW p \in Pivot, NEW d \in Decision, LoadForReview(c, p, d)
       PROVE TypeOK'
  BY <1>10 DEF LoadForReview
<1>11. ASSUME NEW c \in Call, SaveDecision(c) PROVE TypeOK'
  BY <1>11, DecidedType DEF SaveDecision
<1>12. ASSUME NEW c \in Call, ProjectDecision(c) PROVE TypeOK'
  <2>1. CASE At(c, "upsert")
    BY <1>12, <2>1 DEF ProjectDecision, UpsertRunLoad
  <2>2. CASE At(c, "upsertSet")
    <3>1. doc' \in [lease : Lease, status : RunStatus]
      BY <1>12, <2>2, SnapshotFields DEF ProjectDecision, UpsertRunSet
    <3>2. UNCHANGED <<jobs, saved, shown, queue, snap, seen, review, acked, faults>>
      BY <1>12, <2>2 DEF ProjectDecision
    <3>3. pc' = [pc EXCEPT ![c] = "pivot"]
      BY <1>12, <2>2 DEF ProjectDecision
    <3>4. /\ pc' \in [Client -> WorkerPC \cup CallPC]
          /\ \A w \in Worker : pc'[w] \in WorkerPC
          /\ \A d \in Call : pc'[d] \in CallPC /\ (Deciding(d)' => Deciding(d))
      BY <2>2, <3>3
    <3>5. \A d \in Call : Deciding(d) => review[d].pivot \in Pivot /\ review[d].decision \in Decision
      OBVIOUS
    <3> HIDE DEF Deciding, WorkerPC, CallPC, Lease
    <3> QED
      BY <3>1, <3>2, <3>4, <3>5
  <2>3. CASE At(c, "pivot")
    BY <1>12, <2>3 DEF ProjectDecision, PivotDecision
  <2> QED
    BY <1>12, <2>1, <2>2, <2>3 DEF ProjectDecision
<1>13. ASSUME NEW c \in Call, EnqueueResumed(c) PROVE TypeOK'
  BY <1>13 DEF EnqueueResumed
<1>14. ASSUME NEW c \in Call, CallFails(c) PROVE TypeOK'
  BY <1>14 DEF CallFails
<1>15. CASE UNCHANGED vars
  BY <1>15 DEF vars
<1> QED
  BY <1>1, <1>2, <1>3, <1>4, <1>5, <1>6, <1>7, <1>8, <1>9, <1>10, <1>11, <1>12,
     <1>13, <1>14, <1>15 DEF Next, Decision

-----------------------------------------------------------------------------
(* Who has the run.                                                        *)

\* Every step of the service keeps the run in at most one hand: with reviews
\* that do not overlap, a worker has it, or a call does, or the dispatch.
LEMMA HandStep ==
    ASSUME Concurrent = FALSE, TypeOK, OneHand, ShownLate, Current, [Next]_vars
    PROVE  OneHand'
<1> USE ServiceAssumption DEF TypeOK, Client, WorkerPC, CallPC, At, Goto, OneHand,
        Deciding, Before, Projecting, Processing, Unattended
<1>1. ASSUME NEW w \in Worker, DeliverInProcess(w) PROVE OneHand'
  BY <1>1 DEF DeliverInProcess
<1>2. ASSUME NEW w \in Worker, ClaimRun(w) PROVE OneHand'
  BY <1>2 DEF ClaimRun
<1>3. ASSUME NEW w \in Worker, ClaimRefused(w) PROVE OneHand'
  BY <1>3 DEF ClaimRefused
<1>4. ASSUME NEW w \in Worker, LoadSnapshot(w) PROVE OneHand'
  BY <1>4 DEF LoadSnapshot
<1>5. ASSUME NEW w \in Worker, MarkRunning(w) PROVE OneHand'
  BY <1>5 DEF MarkRunning, UpsertRunLoad, UpsertRunSet
<1>6. ASSUME NEW w \in Worker, NEW found \in SUBSET Pivot, Checkpoint(w, found)
      PROVE OneHand'
  BY <1>6 DEF Checkpoint
<1>7. ASSUME NEW w \in Worker, CompleteRun(w) PROVE OneHand'
  BY <1>7 DEF CompleteRun
<1>8. ASSUME NEW w \in Worker, ProjectSnapshot(w) PROVE OneHand'
  BY <1>8 DEF ProjectSnapshot, UpsertRunLoad, UpsertRunSet
<1>9. ASSUME NEW w \in Worker, Release(w) PROVE OneHand'
  BY <1>9 DEF Release
<1>10. ASSUME NEW c \in Call, NEW p \in Pivot, NEW d \in Decision, LoadForReview(c, p, d)
       PROVE OneHand'
  BY <1>10 DEF LoadForReview, Busy, ShownLate, hasPendingReview, Snapshot
<1>11. ASSUME NEW c \in Call, SaveDecision(c) PROVE OneHand'
  BY <1>11 DEF SaveDecision
<1>12. ASSUME NEW c \in Call, ProjectDecision(c) PROVE OneHand'
  BY <1>12 DEF ProjectDecision, UpsertRunLoad, UpsertRunSet
<1>13. ASSUME NEW c \in Call, EnqueueResumed(c) PROVE OneHand'
  BY <1>13 DEF EnqueueResumed, Current
<1>14. ASSUME NEW c \in Call, CallFails(c) PROVE OneHand'
  BY <1>14 DEF CallFails
<1>15. CASE UNCHANGED vars
  BY <1>15 DEF vars
<1> QED
  BY <1>1, <1>2, <1>3, <1>4, <1>5, <1>6, <1>7, <1>8, <1>9, <1>10, <1>11, <1>12,
     <1>13, <1>14, <1>15 DEF Next, Decision

\* Which execution has the lease, and that there is one at most.
LEMMA LeaseStep ==
    ASSUME Concurrent = FALSE, TypeOK, OneHand, LeaseHeld, SingleProcessor, [Next]_vars
    PROVE  LeaseHeld' /\ SingleProcessor'
<1> USE ServiceAssumption DEF TypeOK, Client, WorkerPC, CallPC, At, Goto, OneHand,
        Deciding, Before, Projecting, Processing, Unattended, Busy, LeaseHeld,
        SingleProcessor
<1> DEFINE Goal == LeaseHeld' /\ SingleProcessor'
<1>1. ASSUME NEW w \in Worker, DeliverInProcess(w) PROVE Goal
  BY <1>1 DEF DeliverInProcess
<1>2. ASSUME NEW w \in Worker, ClaimRun(w) PROVE Goal
  BY <1>2 DEF ClaimRun
<1>3. ASSUME NEW w \in Worker, ClaimRefused(w) PROVE Goal
  BY <1>3 DEF ClaimRefused
<1>4. ASSUME NEW w \in Worker, LoadSnapshot(w) PROVE Goal
  BY <1>4 DEF LoadSnapshot
<1>5. ASSUME NEW w \in Worker, MarkRunning(w) PROVE Goal
  BY <1>5 DEF MarkRunning, UpsertRunLoad, UpsertRunSet
<1>6. ASSUME NEW w \in Worker, NEW found \in SUBSET Pivot, Checkpoint(w, found)
      PROVE Goal
  BY <1>6 DEF Checkpoint
<1>7. ASSUME NEW w \in Worker, CompleteRun(w) PROVE Goal
  BY <1>7 DEF CompleteRun
<1>8. ASSUME NEW w \in Worker, ProjectSnapshot(w) PROVE Goal
  BY <1>8 DEF ProjectSnapshot, UpsertRunLoad, UpsertRunSet
<1>9. ASSUME NEW w \in Worker, Release(w) PROVE Goal
  BY <1>9 DEF Release
<1>10. ASSUME NEW c \in Call, NEW p \in Pivot, NEW d \in Decision, LoadForReview(c, p, d)
       PROVE Goal
  BY <1>10 DEF LoadForReview
<1>11. ASSUME NEW c \in Call, SaveDecision(c) PROVE Goal
  BY <1>11 DEF SaveDecision
<1>12. ASSUME NEW c \in Call, ProjectDecision(c) PROVE Goal
  BY <1>12 DEF ProjectDecision, UpsertRunLoad, UpsertRunSet
<1>13. ASSUME NEW c \in Call, EnqueueResumed(c) PROVE Goal
  BY <1>13 DEF EnqueueResumed
<1>14. ASSUME NEW c \in Call, CallFails(c) PROVE Goal
  BY <1>14 DEF CallFails
<1>15. CASE UNCHANGED vars
  BY <1>15 DEF vars
<1> QED
  BY <1>1, <1>2, <1>3, <1>4, <1>5, <1>6, <1>7, <1>8, <1>9, <1>10, <1>11, <1>12,
     <1>13, <1>14, <1>15 DEF Next, Decision

-----------------------------------------------------------------------------
(* What has been saved.                                                    *)

\* SaveDecision changes the pending pivot the call is about and nothing else
\* among the pivots.
DecisionSaved(c) ==
    /\ review[c].pivot \in Pivot /\ review[c].decision \in Decision
    /\ saved.pivots[review[c].pivot] = "pending_review"
    /\ \A p \in Pivot \ {review[c].pivot} : saved'.pivots[p] = saved.pivots[p]
    /\ saved'.pivots[review[c].pivot] = review[c].decision
    /\ snap' = [snap EXCEPT ![c] = saved']
    /\ At(c, "save") /\ Goto(c, "upsert")
    /\ UNCHANGED <<jobs, doc, shown, queue, seen, review, acked, faults>>

\* That is what SaveDecision does: the snapshot the call has loaded is the saved
\* one.
LEMMA SavedDecision ==
    ASSUME TypeOK, Current, NEW c \in Call, SaveDecision(c)
    PROVE  DecisionSaved(c)
<1>1. /\ snap[c] = saved /\ saved \in Snapshot
      /\ review[c].pivot \in Pivot /\ review[c].decision \in Decision
      /\ saved.pivots[review[c].pivot] = "pending_review"
  BY DEF SaveDecision, TypeOK, Current, Deciding, CallPC, At
<1>2. saved' = DecidedSnapshot(saved, review[c].pivot, review[c].decision)
  BY <1>1 DEF SaveDecision
<1>3. saved'.pivots = [saved.pivots EXCEPT ![review[c].pivot] = review[c].decision]
  BY <1>1, <1>2, DecidedType
<1>4. saved.pivots \in [Pivot -> PivotDecision]
  BY <1>1 DEF Snapshot
<1>5. /\ snap' = [snap EXCEPT ![c] = saved']
      /\ At(c, "save") /\ Goto(c, "upsert")
      /\ UNCHANGED <<jobs, doc, shown, queue, seen, review, acked, faults>>
  BY DEF SaveDecision
<1> QED
  BY <1>1, <1>3, <1>4, <1>5 DEF DecisionSaved

\* The last write of a projection: the read model shows what is saved.
PivotsShown(w) ==
    /\ shown' = saved.pivots
    /\ Goto(w, IF saved.status = "running" THEN "work" ELSE "release")
    /\ UNCHANGED <<jobs, saved, doc, queue, snap, seen, review, acked, faults>>

\* That is what the last step of a projection does: the snapshot it projects is
\* the saved one, and a pivot once shown is in it.
LEMMA PivotsProjected ==
    ASSUME TypeOK, ShownLate, Current, NEW w \in Worker, ProjectSnapshot(w),
           At(w, "projectPivots")
    PROVE  PivotsShown(w)
<1>1. /\ shown' = [p \in Pivot |-> IF snap[w].pivots[p] # "none"
                                   THEN snap[w].pivots[p] ELSE shown[p]]
      /\ Goto(w, IF snap[w].status = "running" THEN "work" ELSE "release")
      /\ UNCHANGED <<jobs, saved, doc, queue, snap, seen, review, acked, faults>>
  BY DEF ProjectSnapshot, At
<1>2. snap[w] = saved
  BY DEF Current, Projecting, At
<1>3. \A p \in Pivot : saved.pivots[p] = "none" => shown[p] = "none"
  BY DEF ShownLate
<1>4. saved.pivots \in [Pivot -> PivotDecision]
  BY DEF TypeOK, Snapshot
<1>5. shown' = [p \in Pivot |-> saved.pivots[p]]
  BY <1>1, <1>2, <1>3
<1> QED
  BY <1>1, <1>2, <1>4, <1>5 DEF PivotsShown

\* The last write of a call: the read model shows the decision.
LEMMA DecisionProjected ==
    ASSUME TypeOK, Current, NEW c \in Call, ProjectDecision(c), At(c, "pivot")
    PROVE  /\ review[c].pivot \in Pivot /\ review[c].decision \in Decision
           /\ shown' \in [Pivot -> PivotDecision]
           /\ saved.pivots \in [Pivot -> PivotDecision]
           /\ shown'[review[c].pivot] = saved.pivots[review[c].pivot]
           /\ saved.pivots[review[c].pivot] \in Decision
           /\ \A p \in Pivot \ {review[c].pivot} : shown'[p] = shown[p]
           /\ Goto(c, "enqueue")
           /\ UNCHANGED <<jobs, saved, doc, queue, snap, seen, review, acked, faults>>
<1>1. /\ shown' = [shown EXCEPT ![review[c].pivot] = review[c].decision]
      /\ Goto(c, "enqueue")
      /\ UNCHANGED <<jobs, saved, doc, queue, snap, seen, review, acked, faults>>
  BY DEF ProjectDecision, At
<1>2. /\ review[c].pivot \in Pivot /\ review[c].decision \in Decision
      /\ saved.pivots[review[c].pivot] = review[c].decision
      /\ shown \in [Pivot -> PivotDecision]
      /\ saved.pivots \in [Pivot -> PivotDecision]
  BY DEF TypeOK, Current, Deciding, CallPC, At, Snapshot
<1> QED
  BY <1>1, <1>2 DEF PivotDecision

\* Whoever has the run holds the saved snapshot, and a pivot is shown as
\* pending only when nobody processes the run any more.
LEMMA CurrentStep ==
    ASSUME Concurrent = FALSE, TypeOK, OneHand, ShownLate, Current, [Next]_vars
    PROVE  ShownLate' /\ Current'
<1>0. /\ pc \in [Client -> WorkerPC \cup CallPC] /\ snap \in [Client -> Snapshot]
      /\ queue \in Nat /\ faults \in Nat
      /\ Worker \subseteq Client /\ Call \subseteq Client /\ Worker \cap Call = {}
  BY ServiceAssumption DEF TypeOK, Client
<1> USE <1>0 DEF CallPC, At, Goto, OneHand,
        Deciding, Before, Projecting, Processing, Unattended,
        ShownLate, Current
<1> DEFINE Goal == ShownLate' /\ Current'
<1>1. ASSUME NEW w \in Worker, DeliverInProcess(w) PROVE Goal
  BY <1>1, PendingReview DEF DeliverInProcess, TypeOK, Snapshot
<1>2. ASSUME NEW w \in Worker, ClaimRun(w) PROVE Goal
  BY <1>2, PendingReview DEF ClaimRun, TypeOK, Snapshot
<1>3. ASSUME NEW w \in Worker, ClaimRefused(w) PROVE Goal
  BY <1>3 DEF ClaimRefused
<1>4. ASSUME NEW w \in Worker, LoadSnapshot(w) PROVE Goal
  BY <1>4 DEF LoadSnapshot, Snapshot, TypeOK
<1>5. ASSUME NEW w \in Worker, MarkRunning(w) PROVE Goal
  <2>1. CASE At(w, "mark")
    BY <1>5, <2>1 DEF MarkRunning, UpsertRunLoad
  <2>2. CASE At(w, "markSet")
    BY <1>5, <2>2 DEF MarkRunning, UpsertRunSet
  <2> QED
    BY <1>5, <2>1, <2>2 DEF MarkRunning
<1>6. ASSUME NEW w \in Worker, NEW found \in SUBSET Pivot, Checkpoint(w, found)
      PROVE Goal
  BY <1>6 DEF Checkpoint, hasPendingReview, Snapshot, TypeOK
<1>7. ASSUME NEW w \in Worker, CompleteRun(w) PROVE Goal
  BY <1>7 DEF CompleteRun, Snapshot, TypeOK
<1>8. ASSUME NEW w \in Worker, ProjectSnapshot(w) PROVE Goal
  <2>1. CASE At(w, "project")
    BY <1>8, <2>1 DEF ProjectSnapshot, UpsertRunLoad
  <2>2. CASE At(w, "projectSet")
    BY <1>8, <2>2 DEF ProjectSnapshot, UpsertRunSet
  <2>3. CASE At(w, "projectPivots")
    <3>1. PivotsShown(w)
      BY <1>8, <2>3, PivotsProjected
    <3>2. saved.status = "running" =>
            \A p \in Pivot : saved.pivots[p] # "pending_review"
      BY <2>3, PendingReview DEF TypeOK, Snapshot
    <3> QED
      BY <2>3, <3>1, <3>2 DEF PivotsShown
  <2> QED
    BY <1>8, <2>1, <2>2, <2>3 DEF ProjectSnapshot
<1>9. ASSUME NEW w \in Worker, Release(w) PROVE Goal
  BY <1>9 DEF Release
<1>10. ASSUME NEW c \in Call, NEW p \in Pivot, NEW d \in Decision, LoadForReview(c, p, d)
      PROVE Goal
  BY <1>10 DEF LoadForReview, TypeOK
<1>11. ASSUME NEW c \in Call, SaveDecision(c) PROVE Goal
  <2>1. DecisionSaved(c)
    BY <1>11, SavedDecision
  <2> QED
    BY <2>1 DEF DecisionSaved, Decision
<1>12. ASSUME NEW c \in Call, ProjectDecision(c) PROVE Goal
  <2>1. CASE At(c, "upsert")
    BY <1>12, <2>1 DEF ProjectDecision, UpsertRunLoad
  <2>2. CASE At(c, "upsertSet")
    BY <1>12, <2>2 DEF ProjectDecision, UpsertRunSet
  <2>3. CASE At(c, "pivot")
    BY <1>12, <2>3, DecisionProjected
  <2> QED
    BY <1>12, <2>1, <2>2, <2>3 DEF ProjectDecision
<1>13. ASSUME NEW c \in Call, EnqueueResumed(c) PROVE Goal
  BY <1>13 DEF EnqueueResumed
<1>14. ASSUME NEW c \in Call, CallFails(c) PROVE Goal
  BY <1>14 DEF CallFails
<1>15. ASSUME UNCHANGED vars PROVE Goal
  BY <1>15 DEF vars
<1> HIDE <1>0 DEF Goal, CallPC, At, Goto, OneHand, Deciding, Before, Projecting,
         Processing, Unattended, ShownLate, Current, Projected, Attended
<1>16. Goal
  BY <1>1, <1>2, <1>3, <1>4, <1>5, <1>6, <1>7, <1>8, <1>9, <1>10, <1>11, <1>12,
     <1>13, <1>14, <1>15 DEF Next, Decision
<1> QED
  BY <1>16 DEF Goal

\* An answered decision stays where it has been saved.
LEMMA AcknowledgedStep ==
    ASSUME Concurrent = FALSE, TypeOK, OneHand, Current, AcknowledgedKept, [Next]_vars
    PROVE  AcknowledgedKept'
<1>0. /\ pc \in [Client -> WorkerPC \cup CallPC] /\ snap \in [Client -> Snapshot]
      /\ queue \in Nat /\ faults \in Nat
      /\ Worker \subseteq Client /\ Call \subseteq Client /\ Worker \cap Call = {}
  BY ServiceAssumption DEF TypeOK, Client
<1> USE <1>0 DEF CallPC, At, Goto, OneHand,
        Deciding, Before, Projecting, Processing, Unattended,
        Current, AcknowledgedKept
<1>1. ASSUME NEW w \in Worker, DeliverInProcess(w) PROVE AcknowledgedKept'
  BY <1>1 DEF DeliverInProcess
<1>2. ASSUME NEW w \in Worker, ClaimRun(w) PROVE AcknowledgedKept'
  BY <1>2 DEF ClaimRun
<1>3. ASSUME NEW w \in Worker, ClaimRefused(w) PROVE AcknowledgedKept'
  BY <1>3 DEF ClaimRefused
<1>4. ASSUME NEW w \in Worker, LoadSnapshot(w) PROVE AcknowledgedKept'
  BY <1>4 DEF LoadSnapshot
<1>5. ASSUME NEW w \in Worker, MarkRunning(w) PROVE AcknowledgedKept'
  BY <1>5 DEF MarkRunning, UpsertRunLoad, UpsertRunSet
<1>6. ASSUME NEW w \in Worker, NEW found \in SUBSET Pivot, Checkpoint(w, found)
      PROVE AcknowledgedKept'
  BY <1>6 DEF Checkpoint, TypeOK, Snapshot
<1>7. ASSUME NEW w \in Worker, CompleteRun(w) PROVE AcknowledgedKept'
  BY <1>7 DEF CompleteRun, TypeOK, Snapshot
<1>8. ASSUME NEW w \in Worker, ProjectSnapshot(w) PROVE AcknowledgedKept'
  BY <1>8 DEF ProjectSnapshot, UpsertRunLoad, UpsertRunSet
<1>9. ASSUME NEW w \in Worker, Release(w) PROVE AcknowledgedKept'
  BY <1>9 DEF Release
<1>10. ASSUME NEW c \in Call, NEW p \in Pivot, NEW d \in Decision, LoadForReview(c, p, d)
      PROVE AcknowledgedKept'
  BY <1>10 DEF LoadForReview
<1>11. ASSUME NEW c \in Call, SaveDecision(c) PROVE AcknowledgedKept'
  <2>1. DecisionSaved(c)
    BY <1>11, SavedDecision
  <2> QED
    BY <2>1 DEF DecisionSaved, Decision, TypeOK
<1>12. ASSUME NEW c \in Call, ProjectDecision(c) PROVE AcknowledgedKept'
  BY <1>12 DEF ProjectDecision, UpsertRunLoad, UpsertRunSet
<1>13. ASSUME NEW c \in Call, EnqueueResumed(c) PROVE AcknowledgedKept'
  BY <1>13 DEF EnqueueResumed, TypeOK
<1>14. ASSUME NEW c \in Call, CallFails(c) PROVE AcknowledgedKept'
  BY <1>14 DEF CallFails
<1>15. CASE UNCHANGED vars
  BY <1>15 DEF vars
<1> QED
  BY <1>1, <1>2, <1>3, <1>4, <1>5, <1>6, <1>7, <1>8, <1>9, <1>10, <1>11, <1>12,
     <1>13, <1>14, <1>15 DEF Next, Decision

\* The read model catches up, and the run is not forgotten.
LEMMA ProjectedStep ==
    ASSUME Concurrent = FALSE, TypeOK, OneHand, ShownLate, Current, Projected, Attended,
           [Next]_vars
    PROVE  Projected' /\ Attended'
<1>0. /\ pc \in [Client -> WorkerPC \cup CallPC] /\ snap \in [Client -> Snapshot]
      /\ queue \in Nat /\ faults \in Nat
      /\ Worker \subseteq Client /\ Call \subseteq Client /\ Worker \cap Call = {}
  BY ServiceAssumption DEF TypeOK, Client
<1> USE <1>0 DEF CallPC, At, Goto, OneHand,
        Deciding, Before, Projecting, Processing, Unattended,
        ShownLate, Current, Projected, Attended
<1> DEFINE Goal == Projected' /\ Attended'
<1>1. ASSUME NEW w \in Worker, DeliverInProcess(w) PROVE Goal
  BY <1>1 DEF DeliverInProcess
<1>2. ASSUME NEW w \in Worker, ClaimRun(w) PROVE Goal
  BY <1>2 DEF ClaimRun
<1>3. ASSUME NEW w \in Worker, ClaimRefused(w) PROVE Goal
  BY <1>3 DEF ClaimRefused
<1>4. ASSUME NEW w \in Worker, LoadSnapshot(w) PROVE Goal
  BY <1>4 DEF LoadSnapshot
<1>5. ASSUME NEW w \in Worker, MarkRunning(w) PROVE Goal
  <2>1. CASE At(w, "mark")
    BY <1>5, <2>1 DEF MarkRunning, UpsertRunLoad
  <2>2. CASE At(w, "markSet")
    BY <1>5, <2>2 DEF MarkRunning, UpsertRunSet
  <2> QED
    BY <1>5, <2>1, <2>2 DEF MarkRunning
<1>6. ASSUME NEW w \in Worker, NEW found \in SUBSET Pivot, Checkpoint(w, found)
      PROVE Goal
  BY <1>6 DEF Checkpoint
<1>7. ASSUME NEW w \in Worker, CompleteRun(w) PROVE Goal
  BY <1>7 DEF CompleteRun
<1>8. ASSUME NEW w \in Worker, ProjectSnapshot(w) PROVE Goal
  <2>1. CASE At(w, "project")
    BY <1>8, <2>1 DEF ProjectSnapshot, UpsertRunLoad
  <2>2. CASE At(w, "projectSet")
    BY <1>8, <2>2 DEF ProjectSnapshot, UpsertRunSet
  <2>3. CASE At(w, "projectPivots")
    <3>1. PivotsShown(w)
      BY <1>8, <2>3, PivotsProjected
    <3> QED
      BY <2>3, <3>1 DEF PivotsShown
  <2> QED
    BY <1>8, <2>1, <2>2, <2>3 DEF ProjectSnapshot
<1>9. ASSUME NEW w \in Worker, Release(w) PROVE Goal
  BY <1>9 DEF Release
<1>10. ASSUME NEW c \in Call, NEW p \in Pivot, NEW d \in Decision, LoadForReview(c, p, d)
      PROVE Goal
  BY <1>10 DEF LoadForReview, Busy
<1>11. ASSUME NEW c \in Call, SaveDecision(c) PROVE Goal
  <2>1. DecisionSaved(c)
    BY <1>11, SavedDecision
  <2> QED
    BY <2>1 DEF DecisionSaved, Decision
<1>12. ASSUME NEW c \in Call, ProjectDecision(c) PROVE Goal
  <2>1. CASE At(c, "upsert")
    BY <1>12, <2>1 DEF ProjectDecision, UpsertRunLoad
  <2>2. CASE At(c, "upsertSet")
    BY <1>12, <2>2 DEF ProjectDecision, UpsertRunSet
  <2>3. CASE At(c, "pivot")
    BY <1>12, <2>3, DecisionProjected
  <2> QED
    BY <1>12, <2>1, <2>2, <2>3 DEF ProjectDecision
<1>13. ASSUME NEW c \in Call, EnqueueResumed(c) PROVE Goal
  BY <1>13 DEF EnqueueResumed
<1>14. ASSUME NEW c \in Call, CallFails(c) PROVE Goal
  BY <1>14 DEF CallFails
<1>15. ASSUME UNCHANGED vars PROVE Goal
  BY <1>15 DEF vars
<1> HIDE <1>0 DEF Goal, CallPC, At, Goto, OneHand, Deciding, Before, Projecting,
         Processing, Unattended, ShownLate, Current, Projected, Attended
<1>16. Goal
  BY <1>1, <1>2, <1>3, <1>4, <1>5, <1>6, <1>7, <1>8, <1>9, <1>10, <1>11, <1>12,
     <1>13, <1>14, <1>15 DEF Next, Decision
<1> QED
  BY <1>16 DEF Goal

-----------------------------------------------------------------------------
(* Theorems.                                                               *)

\* CreateRun's dispatch has the run in the first state.
LEMMA ServiceInit == Init => Inv
<1> SUFFICES ASSUME Init PROVE Inv
  OBVIOUS
<1> USE ServiceAssumption DEF Init, NoPivots, NoSnapshot, Client
<1>1. TypeOK
  BY DEF TypeOK, Snapshot, RunStatus, PivotDecision, WorkerPC, CallPC, Lease, Deciding
<1>2. \A c \in Client : ~Busy(c) /\ pc[c] = "new"
  BY DEF Busy
<1>3. /\ \A w \in Worker : ~Busy(w) /\ pc[w] = "new"
      /\ \A c \in Call : ~Busy(c) /\ pc[c] = "new"
  BY <1>2
<1>4. ~hasPendingReview(saved.pivots)
  BY DEF hasPendingReview
<1>5. SingleProcessor /\ LeaseHeld
  BY <1>3 DEF SingleProcessor, LeaseHeld, At
<1>6. OneHand /\ ShownLate /\ Current /\ Unattended
  BY <1>3, <1>4 DEF OneHand, ShownLate, Current, Unattended, Processing, Before,
     Projecting, Deciding, CallPC
<1>7. AcknowledgedKept /\ Attended
  BY DEF AcknowledgedKept, Attended
<1>8. Projected
  BY <1>3 DEF Projected, Before, Deciding, CallPC, At
<1> QED
  BY <1>1, <1>5, <1>6, <1>7, <1>8 DEF Inv

\* The control plane keeps its state well typed, whatever overlaps.
THEOREM ServiceTypeCorrect == Spec => []TypeOK
<1>1. Init => TypeOK
  BY ServiceInit DEF Inv
<1> QED
  BY <1>1, TypeStep, PTL DEF Spec

\* The inductive invariant: calls do not overlap, so the run is in one hand.
THEOREM ServiceInvariant ==
    ASSUME Concurrent = FALSE
    PROVE  Spec => []Inv
<1>1. Inv /\ [Next]_vars => Inv'
  BY Concurrent = FALSE, TypeStep, HandStep, LeaseStep, CurrentStep, AcknowledgedStep,
     ProjectedStep DEF Inv
<1> QED
  BY <1>1, ServiceInit, PTL DEF Spec

\* In both deployments at most one execution processes the run at a time, although
\* UpsertRun reads the lease in one step and writes it back in another.
THEOREM OneProcessor ==
    ASSUME Concurrent = FALSE
    PROVE  Spec => []SingleProcessor
<1>1. Inv => SingleProcessor
  BY DEF Inv
<1> QED
  BY <1>1, ServiceInvariant, PTL

\* A decision the API has acknowledged is in the checkpoint for good: no worker
\* saves an older snapshot over it.
THEOREM DecisionKept ==
    ASSUME Concurrent = FALSE
    PROVE  Spec => []AcknowledgedKept
<1>1. Inv => AcknowledgedKept
  BY DEF Inv
<1> QED
  BY <1>1, ServiceInvariant, PTL

\* When nothing is going on and no call has failed, the read model shows the
\* checkpoint.
THEOREM ReadModelCatchesUp ==
    ASSUME Concurrent = FALSE
    PROVE  Spec => []ProjectionMatches
<1>1. Inv => ProjectionMatches
  <2> SUFFICES ASSUME Inv, Quiet PROVE Unattended
    BY DEF ProjectionMatches, Inv, Projected
  <2> QED
    BY DEF Quiet, Unattended, Busy, Processing, Before, Projecting, Deciding, CallPC, Client
<1> QED
  BY <1>1, ServiceInvariant, PTL

\* A run that nobody has any more is completed or waits for a reviewer, unless a
\* call failed half-way or an execution was refused.
THEOREM RunNotStranded ==
    ASSUME Concurrent = FALSE
    PROVE  Spec => []NotStranded
<1>1. Inv => NotStranded
  <2> SUFFICES ASSUME Inv, Quiet PROVE Unattended
    BY DEF NotStranded, Inv, Attended, Quiet
  <2> QED
    BY DEF Quiet, Unattended, Busy, Processing, Before, Projecting, Deciding, CallPC, Client
<1> QED
  BY <1>1, ServiceInvariant, PTL

=============================================================================
