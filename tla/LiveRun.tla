------------------------------- MODULE LiveRun -------------------------------
(***************************************************************************)
(* One live run of runservice: the runProcessor around Resume, the pivot   *)
(* broker, the checkpoint store and the reviewer's decisions, over all the *)
(* deliveries of the run.  At most one processor works on the run at a     *)
(* time; what happens when that fails is module ExecutionLease's subject,  *)
(* of which only the refused claim shows here: the run's delivery is gone. *)
(* The read-model projection is written beside the checkpoint and read by  *)
(* nobody here.                                                            *)
(***************************************************************************)
EXTENDS PipelineEngine, PivotOps

CONSTANTS
    FaultKind,        \* the kinds of fault that happen
    MaxFaults,        \* bound: errors, panics, crashes and refusals together
    MaxRedeliveries   \* bound: executions an operator starts

ASSUME LiveAssumption ==
    /\ FaultKind \subseteq
         {"node", "save", "project", "artifact", "panic", "crash", "refused"}
    /\ MaxFaults \in Nat
    /\ MaxRedeliveries \in Nat

\* The service's pipeline always has a reconsiderer.
ASSUME ReconsidererAssumption == Nodes["reconsideration"] > 0

VARIABLES
    mode,           \* RunRecord.Mode
    broker,         \* the processor's pivotBroker
    snapPivots,     \* the processor's snapshot.Pivots
    discards,       \* the discarded outcomes in PipelineContext.JudgeEvaluations
    saved,          \* the snapshot in the checkpoint store
    dispatched,     \* deliveries of the run that are on their way
    faults,         \* how many faults have happened
    redelivered,    \* how many executions an operator has started
    decided,        \* history: the reviewer's decision on each root
    overlap,        \* history: a decision was made while a processor worked
    submitted       \* history: the keys of the submitted seeds

runVars == <<broker, snapPivots, discards, saved, dispatched, faults,
             redelivered, decided, overlap>>
vars == <<engineVars, mode, submitted, runVars>>

Root == Key \ Host
RunStatus == {"queued", "running", "awaiting_review", "completed", "failed"}
Pivots == [Root -> PivotStatus]
NoPivots == [k \in Root |-> "none"]
Snapshot == [ctx : Frontier, progress : Progress, pivots : Pivots,
             discards : [Root -> Discarded], status : RunStatus]

TypeOK ==
    /\ EngineTypeOK
    /\ mode \in Mode
    /\ broker \in Pivots /\ snapPivots \in Pivots
    /\ discards \in [Root -> Discarded]
    /\ saved \in Snapshot
    /\ dispatched \in Nat /\ faults \in 0..MaxFaults
    /\ redelivered \in 0..MaxRedeliveries
    /\ decided \in [Root -> {"none", "accepted", "rejected"}]
    /\ overlap \in BOOLEAN
    /\ submitted \in SUBSET Key

-----------------------------------------------------------------------------
(* Deliveries.                                                             *)

\* CreateRun: the snapshot is saved and the run is dispatched.
LiveInit ==
    /\ Init
    /\ KeysOf(pCtx.seeds) # {}
    /\ mode \in Mode
    /\ submitted = KeysOf(pCtx.seeds)
    /\ saved = [ctx |-> pCtx, progress |-> progress, pivots |-> NoPivots,
                discards |-> NoPivots, status |-> "queued"]
    /\ broker = NoPivots /\ snapPivots = NoPivots /\ discards = NoPivots
    /\ decided = NoPivots /\ overlap = FALSE
    /\ dispatched = 1 /\ faults = 0 /\ redelivered = 0

\* loadSnapshot and the entry into Resume.  The status is not looked at.
Deliver ==
    /\ dispatched > 0
    /\ dispatched' = dispatched - 1
    /\ Resume(RestoreSchedulerState(saved.ctx), saved.progress)
    /\ broker' = saved.pivots
    /\ snapPivots' = saved.pivots
    /\ discards' = saved.discards
    /\ UNCHANGED <<mode, submitted, saved, faults, redelivered, decided, overlap>>

\* An operator executes the job of a run again that a fault has stopped: no
\* reviewer will, and the job itself is deployed without retries.
Reexecute ==
    /\ redelivered < MaxRedeliveries
    /\ faults > 0
    /\ activity = "idle" /\ dispatched = 0
    /\ ~hasPendingReview(saved.pivots)
    /\ saved.status # "completed"
    /\ redelivered' = redelivered + 1
    /\ dispatched' = dispatched + 1
    /\ UNCHANGED <<engineVars, mode, submitted, broker, snapPivots, discards,
                   saved, faults, decided, overlap>>

-----------------------------------------------------------------------------
(* While Resume runs.                                                      *)

EngineStep ==
    /\ \/ StartWave \/ SkipEmptyWave
       \/ \E c \in Collector : CollectorReturns(c)
       \/ AllCollectorsReturned
       \/ AdvanceFrontier \/ Reconsider \/ AdvanceExtraWave \/ FilterOrExport
       \/ NodeReturns
       \/ Finish
    /\ UNCHANGED <<mode, submitted, runVars>>

\* A judge approves root k and its caller promotes it.  The reconsiderer only
\* looks at roots some judge has discarded.
Approve(k) ==
    /\ progress.phase = "reconsideration" => discards[k] # "none"
    /\ DiscoverRoot(k, PromotionDecision(mode, broker, k))
    /\ broker' = IF AsksHandler(pCtx, k, ReasonedOffer)
                 THEN HandleCandidatePromotion(mode, broker, k) ELSE broker
    /\ UNCHANGED <<mode, submitted, snapPivots, discards, saved, dispatched,
                   faults, redelivered, decided, overlap>>

\* A judge discards root k; only the first such outcome counts later.  The
\* reconsiderer discards nothing that was not discarded before.
Discard(k, confidence) ==
    /\ Judging
    /\ progress.phase \in WavePhase
    /\ discards[k] = "none"
    /\ discards' = [discards EXCEPT ![k] = confidence]
    /\ UNCHANGED <<engineVars, mode, submitted, broker, snapPivots, saved,
                   dispatched, faults, redelivered, decided, overlap>>

Follow(h) == FollowHost(h) /\ UNCHANGED <<mode, submitted, runVars>>

-----------------------------------------------------------------------------
(* What the processor writes.                                              *)

Save(pivots, status) ==
    saved' = [ctx |-> pCtx, progress |-> progress, pivots |-> pivots,
              discards |-> discards, status |-> status]

Hydrated == hydratePivotsFromJudges(mode, broker, discards)

\* The processor is gone: nothing of it is left but what it has saved.
Idle ==
    /\ activity' = "idle"
    /\ working' = {}
    /\ node' = 0
    /\ UNCHANGED <<pCtx, progress, ran, late>>

\* The status asks the broker, which does not know what hydration adds.
CheckpointStatus_BeforeHydration(pivots) ==
    IF hasPendingReview(broker) THEN "awaiting_review" ELSE "running"

CheckpointStatus(pivots) ==
    IF hasPendingReview(pivots) THEN "awaiting_review" ELSE "running"

AfterCheckpoint_NeverPauses ==
    /\ activity = "checkpoint"
    /\ Save(Hydrated, CheckpointStatus(Hydrated))
    /\ snapPivots' = Hydrated
    /\ activity' = "loop"
    /\ UNCHANGED <<pCtx, progress, working, node, ran, late, mode, submitted,
                   broker, discards, dispatched, faults, redelivered, decided, overlap>>

\* afterCheckpoint succeeds: a pending review ends Resume.
AfterCheckpoint ==
    /\ activity = "checkpoint"
    /\ Save(Hydrated, CheckpointStatus(Hydrated))
    /\ snapPivots' = Hydrated
    /\ activity' = IF hasPendingReview(Hydrated) THEN "idle" ELSE "loop"
    /\ UNCHANGED <<pCtx, progress, working, node, ran, late, mode, submitted,
                   broker, discards, dispatched, faults, redelivered, decided, overlap>>

\* completeRun after the artifacts are published.
CompleteRun ==
    /\ activity = "finished"
    /\ Save(Hydrated, "completed")
    /\ snapPivots' = Hydrated
    /\ Idle
    /\ UNCHANGED <<mode, submitted, broker, discards, dispatched, faults,
                   redelivered, decided, overlap>>

PersistPipelineFailure ==
    /\ activity = "failed"
    /\ Save(broker, "failed")
    /\ snapPivots' = broker
    /\ Idle
    /\ UNCHANGED <<mode, submitted, broker, discards, dispatched, faults,
                   redelivered, decided, overlap>>

-----------------------------------------------------------------------------
(* Faults.                                                                 *)

Fault(kind) ==
    /\ kind \in FaultKind
    /\ faults < MaxFaults
    /\ faults' = faults + 1

NodeError ==
    /\ NodeFails
    /\ Fault("node")
    /\ UNCHANGED <<mode, submitted, broker, snapPivots, discards, saved,
                   dispatched, redelivered, decided, overlap>>

\* afterCheckpoint fails at its Save, or after it, at the projection.
CheckpointError(kind) ==
    /\ activity = "checkpoint"
    /\ activity' = "failed"
    /\ snapPivots' = Hydrated
    /\ IF kind = "project" THEN Save(Hydrated, CheckpointStatus(Hydrated))
       ELSE UNCHANGED saved
    /\ Fault(kind)
    /\ UNCHANGED <<pCtx, progress, working, node, ran, late, mode, submitted,
                   broker, discards, dispatched, redelivered, decided, overlap>>

PersistArtifactFailure ==
    /\ activity = "finished"
    /\ Save(broker, "failed")
    /\ snapPivots' = broker
    /\ Idle
    /\ Fault("artifact")
    /\ UNCHANGED <<mode, submitted, broker, discards, dispatched, redelivered,
                   decided, overlap>>

\* An enricher, expander or reconsiderer panics: handlePanic saves the context
\* as it is, with the pivots of the last checkpoint.
HandlePanic ==
    /\ activity = "nodes"
    /\ Save(snapPivots, "failed")
    /\ Idle
    /\ Fault("panic")
    /\ UNCHANGED <<mode, submitted, broker, snapPivots, discards, dispatched,
                   redelivered, decided, overlap>>

\* The process dies, or the processor returns without saving anything: the
\* mutation listener has met an error, or a Save after the run has failed.
Crash ==
    /\ activity # "idle"
    /\ Idle
    /\ Fault("crash")
    /\ UNCHANGED <<mode, submitted, broker, snapPivots, discards, saved,
                   dispatched, redelivered, decided, overlap>>

\* Worker.Run in a job of its own: the lease of the job that had the run before
\* is still held (by the paused one on its way out, or by a dead one until it
\* expires), the claim is refused and the new job ends without an error.
RefuseClaim ==
    /\ dispatched > 0
    /\ decided # NoPivots \/ redelivered > 0
    /\ dispatched' = dispatched - 1
    /\ Fault("refused")
    /\ UNCHANGED <<engineVars, mode, submitted, broker, snapPivots, discards,
                   saved, redelivered, decided, overlap>>

-----------------------------------------------------------------------------
(* The reviewer.                                                           *)

\* The snapshot DecidePivot saves.
DecidedSnapshot(k, decision) ==
    LET ctx == RestoreSchedulerState(saved.ctx)
        pivots == [saved.pivots EXCEPT ![k] = decision]
    IN  [saved EXCEPT
           !.ctx = IF decision = "accepted" THEN EnqueueSeed(ctx, k, {})
                   ELSE ctx,
           !.pivots = pivots,
           !.status = IF hasPendingReview(pivots) THEN "awaiting_review"
                      ELSE IF saved.status = "awaiting_review" THEN "queued"
                      ELSE saved.status]

DecidePivot_NotDispatched(k, decision) ==
    /\ saved.pivots[k] = "pending_review"
    /\ saved' = DecidedSnapshot(k, decision)
    /\ decided' = [decided EXCEPT ![k] = decision]
    /\ overlap' = (overlap \/ activity # "idle")
    /\ late' = late \cup (IF saved.ctx.inProgress
                          THEN saved'.ctx.known \ saved.ctx.known ELSE {})
    /\ UNCHANGED <<pCtx, progress, activity, working, node, ran, mode,
                   submitted, broker, snapPivots, discards, dispatched,
                   faults, redelivered>>

DecidePivot(k, decision) ==
    /\ saved.pivots[k] = "pending_review"
    /\ saved' = DecidedSnapshot(k, decision)
    /\ dispatched' = IF hasPendingReview(saved'.pivots) THEN dispatched
                     ELSE dispatched + 1
    /\ decided' = [decided EXCEPT ![k] = decision]
    /\ overlap' = (overlap \/ activity # "idle")
    /\ late' = late \cup (IF saved.ctx.inProgress
                          THEN saved'.ctx.known \ saved.ctx.known ELSE {})
    /\ UNCHANGED <<pCtx, progress, activity, working, node, ran, mode,
                   submitted, broker, snapPivots, discards,
                   faults, redelivered>>

-----------------------------------------------------------------------------

Process == Deliver \/ EngineStep \/ AfterCheckpoint \/ CompleteRun
             \/ PersistPipelineFailure

Review == \E k \in Root, d \in {"accepted", "rejected"} : DecidePivot(k, d)

Judgements ==
    \/ \E k \in Root : Approve(k)
    \/ \E k \in Root, c \in {"low", "high"} : Discard(k, c)
    \/ \E h \in Host : Follow(h)

Faults ==
    \/ NodeError
    \/ \E kind \in {"save", "project"} : CheckpointError(kind)
    \/ PersistArtifactFailure
    \/ HandlePanic
    \/ Crash
    \/ RefuseClaim

LiveNext == Process \/ Review \/ Judgements \/ Faults \/ Reexecute

\* A dispatched run is picked up unless its claim is refused, and its stages
\* return; the reviewer decides every pivot in the end.
LiveSpec == LiveInit /\ [][LiveNext]_vars /\ WF_vars(Process) /\ WF_vars(Review)

-----------------------------------------------------------------------------
(* Properties.                                                             *)

\* A decision of the reviewer is never lost: neither a failure, a panic, a crash
\* nor a later checkpoint writes an older status over it.  The exception is a
\* decision made while the processor is still on its way out after a failed
\* projection: persistPipelineFailure saves over it.
DecisionsSurvive ==
    ~overlap =>
        \A k \in Root : decided[k] # "none" => saved.pivots[k] = decided[k]

\* Over all deliveries every seed is collected before the filters run, unless it
\* was first seen in the extra wave (or was lost with such a decision).  A second
\* fault can cost more: when the checkpoints after a discovery wave and after the
\* reconsideration both fail, the run is completed with a review still pending,
\* and a root accepted then is scheduled behind the last advance.
SeedsCollected == ~overlap /\ faults <= 1 => NoScheduledSeedLost

\* A root the reviewer has rejected does not become a seed, although judges and
\* the reconsiderer may approve it again in every later wave and delivery.
RejectedStaysOut ==
    \A k \in Root \ submitted :
        decided[k] = "rejected" => k \notin pCtx.known \cup saved.ctx.known

\* In a manual run nothing but the reviewer adds a root to the seeds.
ManualNeedsApproval ==
    mode = "manual" =>
        (pCtx.known \cup saved.ctx.known) \cap Root
            \subseteq submitted \cup {k \in Root : decided[k] = "accepted"}

\* A run that had no fault is completed only when every pivot is decided.
ReviewedBeforeCompletion ==
    saved.status = "completed" /\ faults = 0 => ~hasPendingReview(saved.pivots)

\* A run is dispatched at most once at a time, and never while a processor
\* works on it: the API does not look at whether one does.  A pending review is
\* in the checkpoint store only when the processor has gone or is failing.
DispatchedOnlyWhenIdle ==
    ~overlap =>
        /\ dispatched > 0 => /\ dispatched = 1
                             /\ activity = "idle"
                             /\ ~hasPendingReview(saved.pivots)
        /\ hasPendingReview(saved.pivots) => activity \in {"idle", "failed"}

\* A run is completed in the end, also after faults once an operator has executed
\* it again after each of them.  A fault that nobody answers stops it, and so does
\* the refused claim of a dispatched job, for which a decision right after the
\* pause is enough (LostWakeup).
RunCompletes ==
    faults <= redelivered ~> saved.status = "completed" \/ faults > redelivered

\* A pivot the reviewer has accepted is one of the run's seeds.
AcceptedPivotIsSeed ==
    \A k \in Root : decided[k] = "accepted" => k \in saved.ctx.known

PendingReviews(pivots) == {k \in Root : pivots[k] = "pending_review"}
DecisionsIn(pivots) ==
    [k \in Root |-> IF pivots[k] \in {"accepted", "rejected"} THEN pivots[k] ELSE "none"]

Lifecycle == INSTANCE RunLifecycle WITH
    status <- saved.status,
    open <- PendingReviews(saved.pivots),
    decision <- DecisionsIn(saved.pivots),
    running <- activity # "idle",
    faulty <- faults > 0,
    contended <- overlap

\* What the checkpoint store says of a run over all its deliveries is the life of a
\* run as RunLifecycle describes it: no processor, failure, panic or crash and no
\* order of deliveries and decisions (processRun, DecidePivot) shows anything else.
ImplementsLifecycle == Lifecycle!Spec

=============================================================================
