---------------------------- MODULE LiveRunProofs ----------------------------
(***************************************************************************)
(* For any keys, submissions, bounds and number of faults: over all the    *)
(* deliveries of a live run every key is collected in one wave, a decision *)
(* of the reviewer is kept and obeyed, and a run is dispatched only when   *)
(* nothing works on it.  A processor's context and the snapshot of the     *)
(* checkpoint store each satisfy the invariant of PipelineEngineProofs;    *)
(* what is added here is how far the one may be ahead of the other, what   *)
(* the broker and the snapshots know of the reviewer's decisions, and how  *)
(* many faults it takes until a discarded root escapes its review.         *)
(***************************************************************************)
EXTENDS LiveRun, PipelineEngineProofs, TLAPS

\* At the start of a wave, and of an advance, the processor is at most one
\* advance ahead of the snapshot: a processor that takes over from the snapshot
\* repeats the same waves.
Linked ==
    /\ activity = "loop" /\ progress.phase \in WavePhase =>
          IF saved.progress.initialized
          THEN \/ /\ progress.wave = saved.progress.wave
                  /\ CollectionSeeds(pCtx) \subseteq CollectionSeeds(saved.ctx)
               \/ /\ progress.wave = saved.progress.wave + 1
                  /\ CollectionSeeds(pCtx) \subseteq Scheduled(saved.ctx)
          ELSE /\ progress.wave = 0
               /\ CollectionSeeds(pCtx) \subseteq KeysOf(saved.ctx.seeds)
    /\ activity = "loop" /\ progress.phase \in {"advance_frontier", "advance_extra_wave"} =>
          /\ saved.progress.initialized
          /\ progress.wave = saved.progress.wave
          /\ Scheduled(pCtx) \subseteq Scheduled(saved.ctx)

\* The processor and the store.
SavedInv == Sound(saved.ctx, saved.progress, ran, late) /\ Linked

\* What the pivots know of the reviewer's decisions, and what they allow.
PivotInv ==
    /\ mode = "autonomous" => \A k \in Root :
          /\ "pending_review" \notin {broker[k], snapPivots[k], saved.pivots[k]}
          /\ decided[k] = "none"
    /\ mode = "manual" => \A k \in Root :
          "auto_accepted" \notin {broker[k], snapPivots[k], saved.pivots[k]}
    /\ \A k \in Root :
          /\ broker[k] = "accepted" <=> snapPivots[k] = "accepted"
          /\ broker[k] = "accepted" => saved.pivots[k] = "accepted"
          /\ saved.pivots[k] = "accepted" => decided[k] = "accepted"

\* In a manual run only a decision makes a root a seed, in the processor and in
\* the snapshot.
ApprovedInv ==
    mode = "manual" => \A k \in Root \ submitted :
        /\ k \in pCtx.known => broker[k] = "accepted"
        /\ k \in saved.ctx.known => saved.pivots[k] = "accepted"

\* A processor that works without overlap knows every decision; it was
\* delivered when none was pending.
DecisionInv ==
    /\ DispatchedOnlyWhenIdle
    /\ DecisionsSurvive
    /\ ~overlap /\ activity # "idle" =>
          \A k \in Root : decided[k] # "none" =>
              broker[k] = decided[k] /\ snapPivots[k] = decided[k]
    /\ faults = 0 => ~overlap /\ activity # "failed"

\* Discarded roots that the next snapshot will put up for review.
Owed(m, pivots, outcomes) ==
    \E k \in Root : /\ pivots[k] = "none" /\ outcomes[k] # "none"
                    /\ autoRejectedDiscardStatus(m, outcomes[k]) = "pending_review"

\* How many checkpoints such a root has passed.
Passed(f, p) ==
    IF p.phase \in WavePhase THEN 0
    ELSE IF p.phase \in {"advance_frontier", "reconsideration"} \/ f.inProgress THEN 1
    ELSE 2

\* Every checkpoint it passed unreviewed was one that failed.
DebtInv ==
    /\ /\ activity # "idle"
       /\ Owed(mode, broker, discards) \/ Owed(mode, snapPivots, discards)
       => faults + (IF activity = "checkpoint" THEN 1 ELSE 0) >= Passed(pCtx, progress)
    /\ Owed(mode, saved.pivots, saved.discards) => faults >= Passed(saved.ctx, saved.progress)

\* Behind the last advance that can still open a wave a processor has no review
\* pending, and a snapshot has one only after two faults.
ReviewInv ==
    ~overlap =>
        /\ \/ /\ activity \notin {"idle", "checkpoint", "failed"}
              /\ progress.phase \in Late \cup {"advance_extra_wave"}
           \/ activity = "failed" /\ progress.phase \in Late /\ ~pCtx.inProgress
           => ~hasPendingReview(broker) /\ ~hasPendingReview(snapPivots)
        /\ hasPendingReview(saved.pivots) /\ saved.progress.phase \in Late =>
              saved.ctx.inProgress \/ faults >= 2

\* So nothing is scheduled there with one fault.
NothingLeftInv ==
    ~overlap /\ faults <= 1 =>
        NothingLeft(pCtx, progress) /\ NothingLeft(saved.ctx, saved.progress)

LiveInv ==
    /\ TypeOK /\ EngineInv /\ SavedInv /\ PivotInv /\ ApprovedInv
    /\ DecisionInv /\ DebtInv /\ ReviewInv /\ NothingLeftInv
    /\ ReviewedBeforeCompletion

-----------------------------------------------------------------------------
(* Pivots and snapshots.                                                   *)

\* What a judge's discard becomes.
LEMMA DiscardStatusTypes ==
    ASSUME NEW confidence
    PROVE  autoRejectedDiscardStatus(mode, confidence)
              \in {"pending_review", "auto_rejected"}
BY DEF autoRejectedDiscardStatus

\* What the next snapshot says of the pivots.
LEMMA HydratedFields ==
    ASSUME TypeOK
    PROVE  /\ Hydrated \in Pivots
           /\ \A k \in Root : Hydrated[k] =
                 IF broker[k] = "none" /\ discards[k] # "none"
                 THEN autoRejectedDiscardStatus(mode, discards[k]) ELSE broker[k]
<1>1. DOMAIN broker = Root /\ broker \in Pivots
  BY DEF TypeOK, Pivots
<1>2. \A k \in Root : Hydrated[k] =
         IF broker[k] = "none" /\ discards[k] # "none"
         THEN autoRejectedDiscardStatus(mode, discards[k]) ELSE broker[k]
  BY <1>1 DEF Hydrated, hydratePivotsFromJudges
<1>3. Hydrated = [k \in Root |-> Hydrated[k]]
  BY <1>1 DEF Hydrated, hydratePivotsFromJudges
<1>4. ASSUME NEW k \in Root PROVE Hydrated[k] \in PivotStatus
  BY <1>1, <1>2, <1>4, DiscardStatusTypes DEF Pivots, PivotStatus
<1> HIDE DEF Hydrated
<1> QED
  BY <1>2, <1>3, <1>4 DEF Pivots

\* What the broker holds after a promotion, and what it answers.
LEMMA PromotionFields ==
    ASSUME TypeOK, NEW k \in Root
    PROVE  LET b == HandleCandidatePromotion(mode, broker, k) IN
           /\ b \in Pivots
           /\ \A j \in Root : b[j] # broker[j] =>
                 /\ j = k /\ broker[j] = "none"
                 /\ b[j] = IF mode = "manual" THEN "pending_review" ELSE "auto_accepted"
           /\ b[k] # "none"
           /\ PromotionDecision(mode, broker, k) = "accepted" <=>
                 b[k] \in {"accepted", "auto_accepted"}
<1>1. broker \in Pivots
  BY DEF TypeOK
<1> DEFINE b == HandleCandidatePromotion(mode, broker, k)
<1>2. PromotionDecision(mode, broker, k) = "accepted" <=>
         b[k] \in {"accepted", "auto_accepted"}
  BY DEF PromotionDecision
<1>3. CASE broker[k] # "none"
  BY <1>1, <1>2, <1>3 DEF HandleCandidatePromotion
<1>4. CASE broker[k] = "none"
  BY <1>1, <1>2, <1>4 DEF HandleCandidatePromotion, Pivots, PivotStatus
<1> QED
  BY <1>3, <1>4

\* What a save puts into the store.
Saves(pivots) ==
    /\ saved' \in Snapshot
    /\ saved'.ctx = pCtx /\ saved'.progress = progress
    /\ saved'.pivots = pivots /\ saved'.discards = discards

\* A save does so.
LEMMA SaveEffect ==
    ASSUME TypeOK, NEW pivots \in Pivots, NEW status \in RunStatus, Save(pivots, status)
    PROVE  Saves(pivots) /\ saved'.status = status
BY DEF TypeOK, EngineTypeOK, Save, Saves, Snapshot

\* What a decision changes in the store.
Decides(k, decision) ==
    /\ saved' \in Snapshot
    /\ saved'.progress = saved.progress /\ saved'.discards = saved.discards
    /\ saved'.pivots = [saved.pivots EXCEPT ![k] = decision]
    /\ \/ KeptKeys(saved.ctx, saved'.ctx)
       \/ decision = "accepted" /\ NewKey(saved.ctx, saved'.ctx, k)
    /\ saved'.status = "completed" => ~hasPendingReview(saved'.pivots)

\* A decision does so.
LEMMA DecideEffect ==
    ASSUME TypeOK, FrontierSound(saved.ctx), NEW k \in Root,
           NEW decision \in {"accepted", "rejected"}, DecidePivot(k, decision)
    PROVE  Decides(k, decision)
<1> DEFINE ctx == RestoreSchedulerState(saved.ctx)
           c == IF decision = "accepted" THEN EnqueueSeed(ctx, k, {}) ELSE ctx
           pivots == [saved.pivots EXCEPT ![k] = decision]
           status == IF hasPendingReview(pivots) THEN "awaiting_review"
                     ELSE IF saved.status = "awaiting_review" THEN "queued"
                     ELSE saved.status
<1>1. saved \in Snapshot /\ saved.ctx \in Frontier /\ saved.pivots \in Pivots
      /\ saved.status \in RunStatus
  BY DEF TypeOK, Snapshot
<1>2. saved' = [saved EXCEPT !.ctx = c, !.pivots = pivots, !.status = status]
  BY DEF DecidePivot, DecidedSnapshot
<1>3. ctx \in Frontier /\ KeptKeys(saved.ctx, ctx)
  BY <1>1, RestoreKeys, ControlTypes DEF KeptKeys, FrontierSound
<1>4. /\ c \in Frontier
      /\ \/ KeptKeys(saved.ctx, c)
         \/ decision = "accepted" /\ NewKey(saved.ctx, c, k)
  <2>1. k \in Key /\ {} \in SUBSET Signal
    BY DEF Root
  <2>2. CASE decision = "accepted"
    <3>1. EnqueueSeed(ctx, k, {}) \in Frontier
      BY <1>3, <2>1, EnqueueTypes
    <3>2. KeptKeys(ctx, EnqueueSeed(ctx, k, {})) \/ NewKey(ctx, EnqueueSeed(ctx, k, {}), k)
      BY <1>3, <2>1, EnqueueKeys
    <3>3. c = EnqueueSeed(ctx, k, {})
      BY <2>2
    <3> HIDE DEF c, ctx
    <3> QED
      BY <1>3, <2>2, <3>1, <3>2, <3>3 DEF KeptKeys, NewKey, SameControl
  <2>3. CASE decision # "accepted"
    <3>1. c = ctx
      BY <2>3
    <3> HIDE DEF c, ctx
    <3> QED
      BY <1>3, <3>1
  <2> QED
    BY <2>2, <2>3
<1>5. pivots \in Pivots
  BY <1>1 DEF Pivots, PivotStatus
<1>6. status \in RunStatus /\ (status = "completed" => ~hasPendingReview(pivots))
  BY <1>1 DEF RunStatus
<1> HIDE DEF ctx, c, pivots, status
<1>7. /\ saved' \in Snapshot /\ saved'.ctx = c /\ saved'.pivots = pivots
      /\ saved'.status = status
      /\ saved'.progress = saved.progress /\ saved'.discards = saved.discards
  BY <1>1, <1>2, <1>4, <1>5, <1>6 DEF Snapshot
<1> QED
  BY <1>4, <1>6, <1>7 DEF Decides, pivots

-----------------------------------------------------------------------------
(* The kinds of steps.                                                     *)

\* The broker is asked about k or not; k becomes a seed only when it says so.
Answers(k) ==
    /\ \A j \in Root : broker'[j] # broker[j] =>
          /\ j = k /\ broker[j] = "none"
          /\ broker'[j] = IF mode = "manual" THEN "pending_review" ELSE "auto_accepted"
    /\ \/ KeptKeys(pCtx, pCtx')
       \/ NewKey(pCtx, pCtx', k) /\ broker'[k] \in {"accepted", "auto_accepted"}

\* Resume goes on, a judge approves, or a node fails.
Moved ==
    /\ EngineMove /\ MoveEffect
    /\ UNCHANGED <<mode, submitted, snapPivots, discards, saved, dispatched,
                   redelivered, decided, overlap>>
    /\ broker' \in Pivots
    /\ \/ broker' = broker /\ pCtx'.known \cap Root \subseteq pCtx.known
       \/ /\ Judging /\ UNCHANGED <<progress, activity>>
          /\ \E k \in Root : Answers(k)
    /\ faults' \in 0..MaxFaults
    /\ \/ faults' = faults /\ activity' # "failed"
       \/ faults' = faults + 1

\* What no step of the processor outside Resume changes.
Settled ==
    /\ UNCHANGED <<pCtx, progress, ran, late, mode, submitted, broker, discards,
                   dispatched, redelivered, decided, overlap>>
    /\ activity # "idle" /\ activity' \in {"idle", "loop", "failed"}
    /\ working' \in SUBSET Collector /\ node' \in Nat
    /\ faults' \in 0..MaxFaults /\ faults' \in {faults, faults + 1}

\* A checkpoint, the end of a run, or the failure of a projection.
WritesHydrated ==
    /\ Settled /\ Saves(Hydrated) /\ snapPivots' = Hydrated
    /\ \/ /\ activity = "checkpoint" /\ faults' = faults
          /\ activity' = IF hasPendingReview(Hydrated) THEN "idle" ELSE "loop"
          /\ saved'.status # "completed"
       \/ /\ activity = "checkpoint" /\ activity' = "failed" /\ faults' = faults + 1
          /\ saved'.status # "completed"
       \/ activity = "finished" /\ activity' = "idle"

\* The failure of a run or of its artifacts.
WritesBroker ==
    /\ Settled /\ Saves(broker) /\ snapPivots' = broker
    /\ activity \in {"failed", "finished"} /\ activity' = "idle"
    /\ saved'.status # "completed"

\* A panic.
WritesSnapshot ==
    /\ Settled /\ Saves(snapPivots) /\ snapPivots' = snapPivots
    /\ activity = "nodes" /\ activity' = "idle"
    /\ saved'.status # "completed"

\* A failed save, or a crash.
WritesNothing ==
    /\ Settled /\ saved' = saved /\ faults' = faults + 1
    /\ \/ activity = "checkpoint" /\ activity' = "failed" /\ snapPivots' = Hydrated
       \/ activity' = "idle" /\ snapPivots' = snapPivots

\* The engine's own steps keep the known keys and do not fail.
LEMMA EngineStepMoves ==
    ASSUME TypeOK, EngineInv, EngineStep
    PROVE  Moved
<1>1. EngineMove
  BY DEF EngineStep, EngineMove
<1>2. activity # "checkpoint" /\ activity' # "failed"
  BY DEF EngineStep, At, StartWave, SkipEmptyWave, CollectorReturns, AllCollectorsReturned,
         AdvanceFrontier, Reconsider, AdvanceExtraWave, FilterOrExport, NodeReturns,
         Finish, NodesFrom, PhaseDone
<1>3. pCtx'.known = pCtx.known
  <2>1. pCtx' \in {pCtx, AdvanceSeedFrontier(pCtx), ReserveExtraCollectionWave(pCtx)}
    BY DEF EngineStep, StartWave, SkipEmptyWave, CollectorReturns, AllCollectorsReturned,
           AdvanceFrontier, Reconsider, AdvanceExtraWave, FilterOrExport, NodeReturns,
           Finish
  <2>2. pCtx \in Frontier
    BY DEF TypeOK, EngineTypeOK
  <2>3. AdvanceSeedFrontier(pCtx).known = pCtx.known
    BY <2>2, AdvanceKeys
  <2>4. ReserveExtraCollectionWave(pCtx).known = pCtx.known
    BY <2>2, ReserveKeys
  <2> QED
    BY <2>1, <2>3, <2>4
<1>4. MoveEffect
  BY <1>1, <1>2, MoveEffects
<1>5. /\ UNCHANGED <<mode, submitted, runVars>>
      /\ broker \in Pivots /\ faults \in 0..MaxFaults
  BY DEF EngineStep, TypeOK
<1> QED
  BY <1>1, <1>2, <1>3, <1>4, <1>5 DEF Moved, runVars

\* A judge's approval makes a root a seed only when the broker accepts it.
LEMMA ApproveMoves ==
    ASSUME TypeOK, EngineInv, NEW k \in Root, Approve(k)
    PROVE  Moved
<1>0. pCtx \in Frontier /\ k \in Key /\ broker \in Pivots /\ faults \in 0..MaxFaults
  BY DEF TypeOK, EngineTypeOK, Root
<1> DEFINE decision == PromotionDecision(mode, broker, k)
           b == HandleCandidatePromotion(mode, broker, k)
<1>1. /\ DiscoverRoot(k, decision)
      /\ broker' = IF AsksHandler(pCtx, k, ReasonedOffer) THEN b ELSE broker
      /\ UNCHANGED <<mode, submitted, snapPivots, discards, saved, dispatched,
                     faults, redelivered, decided, overlap>>
  BY DEF Approve
<1>2. EngineMove /\ activity # "checkpoint" /\ activity' # "failed"
  BY <1>0, <1>1 DEF EngineMove, DiscoverRoot, Judging
<1>3. MoveEffect
  BY <1>2, MoveEffects
<1>4. /\ b \in Pivots
      /\ \A j \in Root : b[j] # broker[j] =>
            /\ j = k /\ broker[j] = "none"
            /\ b[j] = IF mode = "manual" THEN "pending_review" ELSE "auto_accepted"
      /\ decision = "accepted" <=> b[k] \in {"accepted", "auto_accepted"}
  BY PromotionFields
<1>5. ReasonedOffer \in OfferType /\ ReasonedOffer.reasoned
  BY DEF ReasonedOffer, OfferType
<1>6. pCtx' = PromoteSeedCandidate(pCtx, k, ReasonedOffer, decision)
  BY <1>1 DEF DiscoverRoot
<1> HIDE DEF decision, b
<1>7. KeptKeys(pCtx, pCtx') \/ (decision = "accepted" /\ NewKey(pCtx, pCtx', k))
  BY <1>0, <1>5, <1>6, PromoteKeys
<1>8. ASSUME NewKey(pCtx, pCtx', k) PROVE AsksHandler(pCtx, k, ReasonedOffer)
  <2>1. k \notin pCtx.known /\ k \in pCtx'.known
    BY <1>8 DEF NewKey
  <2>2. seedSchedulingMode(pCtx) # "reject"
    BY <1>6, <2>1 DEF PromoteSeedCandidate
  <2>3. shouldPromoteSeedCandidate(gatherCandidate(pCtx, k, ReasonedOffer))
    BY <1>0, <1>5 DEF shouldPromoteSeedCandidate, gatherCandidate
  <2> QED
    BY <2>1, <2>2, <2>3 DEF AsksHandler
<1>9. Answers(k)
  BY <1>1, <1>4, <1>7, <1>8 DEF Answers
<1>10. broker' \in Pivots
  BY <1>0, <1>1, <1>4
<1> QED
  BY <1>0, <1>1, <1>2, <1>3, <1>9, <1>10 DEF Moved, DiscoverRoot

\* A PTR hostname is no root, and a node that fails is a fault.
LEMMA OtherMoves ==
    ASSUME TypeOK, EngineInv
    PROVE  /\ \A h \in Host : Follow(h) => Moved
           /\ NodeError => Moved
<1>0. /\ pCtx \in Frontier /\ broker \in Pivots /\ faults \in 0..MaxFaults
      /\ MaxFaults \in Nat
  BY LiveAssumption DEF TypeOK, EngineTypeOK
<1>1. ASSUME NEW h \in Host, Follow(h) PROVE Moved
  <2>1. FollowHost(h) /\ UNCHANGED <<mode, submitted, runVars>>
    BY <1>1 DEF Follow
  <2>2. EngineMove /\ activity # "checkpoint" /\ activity' # "failed"
    BY <2>1 DEF EngineMove, FollowHost
  <2>3. MoveEffect
    BY <2>2, MoveEffects
  <2>4. h \in Key /\ h \notin Root
    BY EngineAssumption DEF Root
  <2>5. KeptKeys(pCtx, pCtx') \/ NewKey(pCtx, pCtx', h)
    BY <1>0, <2>1, <2>4, EnqueueKeys DEF FollowHost
  <2>6. pCtx'.known \cap Root \subseteq pCtx.known
    BY <2>4, <2>5 DEF KeptKeys, NewKey
  <2> QED
    BY <1>0, <2>1, <2>2, <2>3, <2>6 DEF Moved, runVars
<1>2. ASSUME NodeError PROVE Moved
  <2>1. EngineMove /\ activity # "checkpoint" /\ pCtx' = pCtx
    BY <1>2 DEF NodeError, EngineMove, NodeFails
  <2>2. MoveEffect
    BY <2>1, MoveEffects
  <2> QED
    BY <1>0, <1>2, <2>1, <2>2 DEF NodeError, Fault, Moved
<1> QED
  BY <1>1, <1>2

\* The steps of the processor outside Resume.
LEMMA ProcessorSteps ==
    ASSUME TypeOK, EngineInv
    PROVE  /\ AfterCheckpoint => WritesHydrated
           /\ CompleteRun => WritesHydrated
           /\ PersistPipelineFailure => WritesBroker
           /\ \A kind \in {"save", "project"} :
                 CheckpointError(kind) => WritesHydrated \/ WritesNothing
           /\ PersistArtifactFailure => WritesBroker
           /\ HandlePanic => WritesSnapshot
           /\ Crash => WritesNothing
<1>0. /\ Hydrated \in Pivots /\ broker \in Pivots /\ snapPivots \in Pivots
      /\ faults \in 0..MaxFaults /\ MaxFaults \in Nat
      /\ working \in SUBSET Collector /\ {} \in SUBSET Collector
      /\ node \in Nat /\ 0 \in Nat
  BY HydratedFields, LiveAssumption DEF TypeOK, EngineTypeOK
<1>1. {"running", "awaiting_review", "completed", "failed"} \subseteq RunStatus
  BY DEF RunStatus
<1>2. CheckpointStatus(Hydrated) \in RunStatus \ {"completed"}
  BY <1>1 DEF CheckpointStatus
<1>3. ASSUME AfterCheckpoint PROVE WritesHydrated
  <2>1. Saves(Hydrated) /\ saved'.status = CheckpointStatus(Hydrated)
    BY <1>0, <1>2, <1>3, SaveEffect DEF AfterCheckpoint
  <2> QED
    BY <1>0, <1>2, <1>3, <2>1 DEF AfterCheckpoint, WritesHydrated, Settled
<1>4. ASSUME CompleteRun PROVE WritesHydrated
  <2>1. Saves(Hydrated)
    BY <1>0, <1>1, <1>4, SaveEffect DEF CompleteRun
  <2> QED
    BY <1>0, <1>4, <2>1 DEF CompleteRun, Idle, WritesHydrated, Settled
<1>5. ASSUME PersistPipelineFailure PROVE WritesBroker
  <2>1. Saves(broker) /\ saved'.status = "failed"
    BY <1>0, <1>1, <1>5, SaveEffect DEF PersistPipelineFailure
  <2> QED
    BY <1>0, <1>5, <2>1 DEF PersistPipelineFailure, Idle, WritesBroker, Settled
<1>6. ASSUME NEW kind, Fault(kind)
      PROVE  faults' = faults + 1 /\ faults' \in 0..MaxFaults
  BY <1>0, <1>6 DEF Fault
<1>7. ASSUME NEW kind \in {"save", "project"}, CheckpointError(kind)
      PROVE  WritesHydrated \/ WritesNothing
  <2>1. faults' = faults + 1 /\ faults' \in 0..MaxFaults
    BY <1>6, <1>7 DEF CheckpointError
  <2>2. CASE kind = "project"
    <3>1. Saves(Hydrated) /\ saved'.status = CheckpointStatus(Hydrated)
      BY <1>0, <1>2, <1>7, <2>2, SaveEffect DEF CheckpointError
    <3> QED
      BY <1>0, <1>2, <1>7, <2>1, <3>1 DEF CheckpointError, WritesHydrated, Settled
  <2>3. CASE kind # "project"
    BY <1>0, <1>7, <2>1, <2>3 DEF CheckpointError, WritesNothing, Settled
  <2> QED
    BY <2>2, <2>3
<1>8. ASSUME PersistArtifactFailure PROVE WritesBroker
  <2>1. Saves(broker) /\ saved'.status = "failed"
    BY <1>0, <1>1, <1>8, SaveEffect DEF PersistArtifactFailure
  <2>2. faults' = faults + 1 /\ faults' \in 0..MaxFaults
    BY <1>6, <1>8 DEF PersistArtifactFailure
  <2> QED
    BY <1>0, <1>8, <2>1, <2>2 DEF PersistArtifactFailure, Idle, WritesBroker, Settled
<1>9. ASSUME HandlePanic PROVE WritesSnapshot
  <2>1. Saves(snapPivots) /\ saved'.status = "failed"
    BY <1>0, <1>1, <1>9, SaveEffect DEF HandlePanic
  <2>2. faults' = faults + 1 /\ faults' \in 0..MaxFaults
    BY <1>6, <1>9 DEF HandlePanic
  <2> QED
    BY <1>0, <1>9, <2>1, <2>2 DEF HandlePanic, Idle, WritesSnapshot, Settled
<1>10. ASSUME Crash PROVE WritesNothing
  <2>1. faults' = faults + 1 /\ faults' \in 0..MaxFaults
    BY <1>6, <1>10 DEF Crash
  <2> QED
    BY <1>0, <1>10, <2>1 DEF Crash, Idle, WritesNothing, Settled
<1> QED
  BY <1>3, <1>4, <1>5, <1>7, <1>8, <1>9, <1>10

\* Every step of the live run is of one of these kinds, a delivery, an
\* execution, a judge's discard or a decision.
Step ==
    \/ Deliver \/ Moved
    \/ \E k \in Root, c \in {"low", "high"} : Discard(k, c)
    \/ WritesHydrated \/ WritesBroker \/ WritesSnapshot \/ WritesNothing
    \/ \E k \in Root, d \in {"accepted", "rejected"} : DecidePivot(k, d) /\ Decides(k, d)
    \/ Reexecute \/ RefuseClaim
    \/ UNCHANGED vars

\* LiveNext takes no other.
LEMMA Steps ==
    ASSUME TypeOK, EngineInv, FrontierSound(saved.ctx), [LiveNext]_vars
    PROVE  Step
<1>1. Process => Step
  BY EngineStepMoves, ProcessorSteps DEF Process, Step
<1>2. Review => Step
  BY DecideEffect DEF Review, Step
<1>3. Judgements => Step
  BY ApproveMoves, OtherMoves DEF Judgements, Step
<1>4. Faults => Step
  BY OtherMoves, ProcessorSteps DEF Faults, Step
<1> QED
  BY <1>1, <1>2, <1>3, <1>4 DEF LiveNext, Step

-----------------------------------------------------------------------------
(* The processor and the store.                                            *)

\* What the store holds is sound for the processor it is delivered to.
LEMMA DeliveredSound ==
    ASSUME TypeOK, Sound(saved.ctx, saved.progress, ran, late)
    PROVE  LET c == RestoreSchedulerState(saved.ctx)
           IN  /\ c \in Frontier /\ KeptKeys(saved.ctx, c) /\ c.seeds = saved.ctx.seeds
               /\ Sound(c, saved.progress, ran, late)
<1>1. saved.ctx \in Frontier
  BY DEF TypeOK, Snapshot
<1>2. KeptKeys(saved.ctx, RestoreSchedulerState(saved.ctx))
  BY <1>1, RestoreKeys DEF KeptKeys, Sound, FrontierSound
<1> QED
  BY <1>1, <1>2, RestoreKeys, ControlTypes, KeptSound

\* A decision enlarges the history of late keys by those the snapshot's extra
\* wave has got.
LEMMA DecidedLate ==
    ASSUME TypeOK, NEW k \in Root, NEW d, DecidePivot(k, d), Decides(k, d)
    PROVE  /\ late \subseteq late' /\ late' \in SUBSET Key
           /\ saved.ctx.inProgress => saved'.ctx.known \ saved.ctx.known \subseteq late'
           /\ saved.ctx \in Frontier /\ saved'.ctx \in Frontier
           /\ saved'.ctx.known \in SUBSET Key
           /\ UNCHANGED <<pCtx, progress, activity, working, node, ran>>
<1>1. saved.ctx \in Frontier /\ saved'.ctx \in Frontier /\ late \in SUBSET Key
  BY DEF TypeOK, EngineTypeOK, Decides, Snapshot
<1>2. saved'.ctx.known \in SUBSET Key
  BY <1>1 DEF Frontier
<1> QED
  BY <1>1, <1>2 DEF DecidePivot

\* Sound with more late keys.
LEMMA LateSound ==
    ASSUME NEW f, NEW p, NEW r, NEW l, NEW m, Sound(f, p, r, l), l \subseteq m
    PROVE  Sound(f, p, r, m)
BY DEF Sound, Covered

\* Every step keeps the invariant of the engine.
LEMMA EngineKept ==
    ASSUME TypeOK, EngineInv, Sound(saved.ctx, saved.progress, ran, late), Step
    PROVE  EngineInv'
<1>0. /\ pCtx \in Frontier /\ progress \in Progress /\ activity \in Activity
      /\ working \in SUBSET Collector /\ node \in Nat
      /\ ran \in [Key -> SUBSET Nat] /\ late \in SUBSET Key
      /\ Sound(pCtx, progress, ran, late) /\ ActivityInv /\ CollectedInOneWave
  BY DEF EngineInv, EngineTypeOK
<1>1. CASE Deliver
  <2> DEFINE c == RestoreSchedulerState(saved.ctx)
  <2>1. c \in Frontier /\ Sound(c, saved.progress, ran, late)
    BY DeliveredSound
  <2>2. saved.progress \in Progress /\ EngineTypeOK
    BY DEF TypeOK, Snapshot
  <2>3. Resume(c, saved.progress)
    BY <1>1 DEF Deliver
  <2> HIDE DEF c
  <2> QED
    BY <1>0, <2>1, <2>2, <2>3, ResumeKept
<1>2. CASE Moved
  BY <1>2, MoveTypes, MoveKept DEF Moved, Kept, EngineInv
<1>3. ASSUME Settled PROVE EngineInv'
  BY <1>0, <1>3 DEF Settled, EngineInv, EngineTypeOK, Activity, ActivityInv, CollectedInOneWave
<1>4. ASSUME UNCHANGED engineVars PROVE EngineInv'
  BY <1>0, <1>4 DEF engineVars, EngineInv, EngineTypeOK, ActivityInv, CollectedInOneWave
<1>5. ASSUME NEW k \in Root, NEW c, Discard(k, c) PROVE EngineInv'
  BY <1>4, <1>5 DEF Discard
<1>6. ASSUME NEW k \in Root, NEW d \in {"accepted", "rejected"},
             DecidePivot(k, d), Decides(k, d)
      PROVE  EngineInv'
  <2>1. /\ late \subseteq late' /\ late' \in SUBSET Key
        /\ UNCHANGED <<pCtx, progress, activity, working, node, ran>>
    BY <1>6, DecidedLate
  <2>2. Sound(pCtx, progress, ran, late')
    BY <1>0, <2>1, LateSound
  <2> QED
    BY <1>0, <2>1, <2>2 DEF EngineInv, EngineTypeOK, ActivityInv, CollectedInOneWave
<1>7. CASE Reexecute
  BY <1>4, <1>7 DEF Reexecute
<1>20. CASE RefuseClaim
  BY <1>4, <1>20 DEF RefuseClaim
<1>8. CASE UNCHANGED vars
  BY <1>4, <1>8 DEF vars
<1> QED
  BY <1>1, <1>2, <1>3, <1>5, <1>6, <1>7, <1>8, <1>20
     DEF Step, WritesHydrated, WritesBroker, WritesSnapshot, WritesNothing

\* Every step keeps the types.
LEMMA TypesKept ==
    ASSUME TypeOK, EngineInv, Sound(saved.ctx, saved.progress, ran, late), Step
    PROVE  TypeOK'
<1>0. /\ mode \in Mode /\ broker \in Pivots /\ snapPivots \in Pivots
      /\ discards \in [Root -> Discarded] /\ saved \in Snapshot
      /\ dispatched \in Nat /\ faults \in 0..MaxFaults
      /\ redelivered \in 0..MaxRedeliveries
      /\ decided \in [Root -> {"none", "accepted", "rejected"}]
      /\ overlap \in BOOLEAN /\ submitted \in SUBSET Key
      /\ Hydrated \in Pivots /\ saved.pivots \in Pivots
      /\ saved.discards \in [Root -> Discarded]
  BY HydratedFields DEF TypeOK, Snapshot
<1>e. EngineTypeOK'
  BY EngineKept DEF EngineInv
<1> USE <1>0, <1>e DEF TypeOK
<1>1. CASE Deliver
  <2>1. dispatched - 1 \in Nat
    BY <1>1 DEF Deliver
  <2> QED
    BY <1>1, <2>1 DEF Deliver
<1>2. CASE Moved
  BY <1>2 DEF Moved
<1>3. ASSUME Settled, saved' \in Snapshot, snapPivots' \in Pivots PROVE TypeOK'
  BY <1>3 DEF Settled
<1>4. ASSUME NEW k \in Root, NEW c \in {"low", "high"}, Discard(k, c) PROVE TypeOK'
  <2>1. discards' \in [Root -> Discarded]
    BY <1>4 DEF Discard, Discarded
  <2> QED
    BY <1>4, <2>1 DEF Discard, engineVars
<1>5. ASSUME NEW k \in Root, NEW d \in {"accepted", "rejected"},
             DecidePivot(k, d), Decides(k, d)
      PROVE  TypeOK'
  <2>1. decided' \in [Root -> {"none", "accepted", "rejected"}]
    BY <1>5 DEF DecidePivot
  <2>2. saved' \in Snapshot /\ dispatched' \in Nat /\ overlap' \in BOOLEAN
    BY <1>5 DEF DecidePivot, Decides
  <2> QED
    BY <1>5, <2>1, <2>2 DEF DecidePivot
<1>6. CASE Reexecute
  <2>1. redelivered' \in 0..MaxRedeliveries /\ dispatched' \in Nat
    BY <1>6, LiveAssumption DEF Reexecute
  <2> QED
    BY <1>6, <2>1 DEF Reexecute
<1>20. CASE RefuseClaim
  <2>1. faults' \in 0..MaxFaults /\ dispatched' \in Nat
    BY <1>20, LiveAssumption DEF RefuseClaim, Fault
  <2> QED
    BY <1>20, <2>1 DEF RefuseClaim
<1>7. CASE UNCHANGED vars
  BY <1>7 DEF vars, runVars
<1>8. CASE WritesHydrated
  BY <1>3, <1>8 DEF WritesHydrated, Saves
<1>9. CASE WritesBroker
  BY <1>3, <1>9 DEF WritesBroker, Saves
<1>10. CASE WritesSnapshot
  BY <1>3, <1>10 DEF WritesSnapshot, Saves
<1>11. CASE WritesNothing
  BY <1>3, <1>11 DEF WritesNothing
<1> HIDE DEF TypeOK
<1> QED
  BY <1>1, <1>2, <1>4, <1>5, <1>6, <1>7, <1>8, <1>9, <1>10, <1>11, <1>20 DEF Step

\* A wave the processor starts is the one in which the snapshot collects its
\* keys, too.
LEMMA SavedCollecting ==
    ASSUME TypeOK, EngineInv, Sound(saved.ctx, saved.progress, ran, late), Linked,
           activity = "loop", progress.phase \in WavePhase
    PROVE  Sound(saved.ctx, saved.progress, Collecting(pCtx, progress, ran), late)
<1> DEFINE f == saved.ctx
           p == saved.progress
           s == Collecting(pCtx, progress, ran)
<1>0. /\ f \in Frontier /\ p \in Progress /\ progress \in Progress
      /\ f.known \subseteq Key /\ p.wave \in Nat
      /\ FrontierSound(f) /\ Position(f, p) /\ History(f, p, ran) /\ Covered(f, p, ran, late)
  BY DEF TypeOK, EngineTypeOK, Snapshot, Sound, Frontier, Progress
<1>1. \A k \in Key : s[k] = IF k \in CollectionSeeds(pCtx) THEN ran[k] \cup {progress.wave}
                            ELSE ran[k]
  BY DEF Collecting
<1>2. /\ CollectionSeeds(f) \subseteq f.known /\ Scheduled(f) \subseteq f.known
      /\ \A k \in CollectionSeeds(f) : k \notin Scheduled(f)
      /\ f.known = KeysOf(f.seeds)
  BY <1>0 DEF FrontierSound
<1>3. IF p.initialized
      THEN \/ /\ progress.wave = p.wave
              /\ CollectionSeeds(pCtx) \subseteq CollectionSeeds(f)
           \/ /\ progress.wave = p.wave + 1
              /\ CollectionSeeds(pCtx) \subseteq Scheduled(f)
      ELSE progress.wave = 0 /\ CollectionSeeds(pCtx) \subseteq KeysOf(f.seeds)
  BY DEF Linked
<1> HIDE DEF f, p, s
<1>4. History(f, p, s)
  <2>1. CASE p.initialized
    <3>1. ASSUME NEW k \in Key
          PROVE  /\ k \in CollectionSeeds(f) => s[k] \subseteq {p.wave}
                 /\ k \in Scheduled(f) => s[k] \subseteq {p.wave + 1}
                 /\ k \notin f.known => s[k] = {}
      <4>1. /\ k \in CollectionSeeds(f) => ran[k] \subseteq {p.wave}
            /\ k \in Scheduled(f) => ran[k] \subseteq {p.wave + 1}
            /\ k \notin f.known => ran[k] = {}
        BY <1>0, <2>1 DEF History
      <4>2. s[k] = IF k \in CollectionSeeds(pCtx) THEN ran[k] \cup {progress.wave} ELSE ran[k]
        BY <1>1
      <4> QED BY <1>2, <1>3, <2>1, <4>1, <4>2
    <3> QED BY <2>1, <3>1 DEF History
  <2>2. CASE ~p.initialized
    <3>1. ASSUME NEW k \in Key
          PROVE  /\ k \in KeysOf(f.seeds) => s[k] \subseteq {0}
                 /\ k \notin KeysOf(f.seeds) => s[k] = {}
      <4>1. /\ k \in KeysOf(f.seeds) => ran[k] \subseteq {0}
            /\ k \notin KeysOf(f.seeds) => ran[k] = {}
        BY <1>0, <2>2 DEF History
      <4>2. s[k] = IF k \in CollectionSeeds(pCtx) THEN ran[k] \cup {progress.wave} ELSE ran[k]
        BY <1>1
      <4> QED BY <1>3, <2>2, <4>1, <4>2
    <3> QED BY <2>2, <3>1 DEF History
  <2> QED BY <2>1, <2>2
<1>5. Covered(f, p, s, late)
  BY <1>0, <1>1 DEF Covered
<1> QED
  BY <1>0, <1>4, <1>5 DEF Sound, f, p, s

\* The link holds after a delivery.
LEMMA DeliveredLinked ==
    ASSUME TypeOK, Sound(saved.ctx, saved.progress, ran, late), Deliver
    PROVE  Linked'
<1> DEFINE c == RestoreSchedulerState(saved.ctx)
<1>1. /\ pCtx' = ResumeContext(c, saved.progress)
      /\ progress' = ResumeProgress(saved.progress) /\ saved' = saved
  BY DEF Deliver, Resume
<1>2. c \in Frontier /\ KeptKeys(saved.ctx, c) /\ c.seeds = saved.ctx.seeds
  BY DeliveredSound
<1>3. CASE saved.progress.initialized
  <2>1. pCtx' = c /\ progress' = saved.progress
    BY <1>1, <1>3 DEF ResumeContext, ResumeProgress
  <2>2. CollectionSeeds(c) = CollectionSeeds(saved.ctx) /\ Scheduled(c) = Scheduled(saved.ctx)
    BY <1>2 DEF KeptKeys, CollectionSeeds, Scheduled
  <2> HIDE DEF c
  <2> QED
    BY <1>1, <1>3, <2>1, <2>2 DEF Linked
<1>4. CASE ~saved.progress.initialized
  <2>1. /\ pCtx' = InitializeSeedFrontier(saved.ctx.seeds)
        /\ progress'.wave = 0 /\ progress'.phase = "collection_wave"
    BY <1>1, <1>2, <1>4 DEF ResumeContext, ResumeProgress
  <2>2. saved.ctx.seeds \in Slice
    BY DEF TypeOK, Snapshot, Frontier
  <2>3. CollectionSeeds(pCtx') = KeysOf(saved.ctx.seeds)
    BY <2>1, <2>2, InitializeKeys DEF CollectionSeeds
  <2> QED
    BY <1>1, <1>4, <2>1, <2>3 DEF Linked
<1> QED
  BY <1>3, <1>4

\* And after a move.
LEMMA MovedLinked ==
    ASSUME TypeOK, EngineInv, Linked, Moved
    PROVE  Linked'
<1>0. /\ MoveEffect /\ saved' = saved /\ pCtx \in Frontier /\ progress \in Progress
      /\ progress'.initialized = progress.initialized
  BY DEF Moved, TypeOK, EngineTypeOK, MoveEffect, Continues, EndsPhase, PhaseEnded, Advances,
         Advanced
<1>1. CASE Continues
  BY <1>1 DEF Continues, Linked
<1>2. CASE EndsPhase
  BY <1>2 DEF EndsPhase, PhaseEnded, Linked, WavePhase
<1>3. CASE Advances
  <2>1. /\ activity = "loop"
        /\ progress.phase \in {"advance_frontier", "advance_extra_wave"}
        /\ pCtx' = AdvanceSeedFrontier(pCtx)
        /\ progress'.wave = IF AdvanceOpensWave(pCtx) THEN progress.wave + 1
                            ELSE progress.wave
        /\ progress'.phase \in WavePhase => AdvanceOpensWave(pCtx)
        /\ progress'.phase \notin {"advance_frontier", "advance_extra_wave"}
    BY <1>3 DEF Advances, Advanced, WavePhase
  <2>2. /\ saved.progress.initialized /\ progress.wave = saved.progress.wave
        /\ Scheduled(pCtx) \subseteq Scheduled(saved.ctx)
    BY <2>1 DEF Linked
  <2>3. AdvanceOpensWave(pCtx) => CollectionSeeds(pCtx') = Scheduled(pCtx)
    BY <1>0, <2>1, AdvanceKeys DEF CollectionSeeds, Scheduled
  <2> QED
    BY <1>0, <2>1, <2>2, <2>3 DEF Linked
<1> QED
  BY <1>0, <1>1, <1>2, <1>3 DEF MoveEffect

\* Every step keeps the store sound and linked to the processor.
LEMMA SavedKept ==
    ASSUME TypeOK, EngineInv, SavedInv, Step
    PROVE  SavedInv'
<1>0. /\ Sound(saved.ctx, saved.progress, ran, late) /\ Linked
      /\ Sound(pCtx, progress, ran, late) /\ ActivityInv
      /\ saved.ctx \in Frontier /\ saved.progress \in Progress
      /\ ran \in [Key -> SUBSET Nat] /\ late \in SUBSET Key
  BY DEF SavedInv, EngineInv, EngineTypeOK, TypeOK, Snapshot
<1>1. CASE Deliver
  BY <1>0, <1>1, DeliveredLinked DEF Deliver, Resume, SavedInv
<1>2. CASE Moved
  <2>1. Linked'
    BY <1>0, <1>2, MovedLinked
  <2>2. saved' = saved /\ late \subseteq late' /\ MoveEffect
    BY <1>2 DEF Moved, MoveEffect
  <2>3. Sound(saved.ctx, saved.progress, ran', late)
    BY <1>0, <2>2, SavedCollecting DEF MoveEffect
  <2>4. Sound(saved.ctx, saved.progress, ran', late')
    BY <2>2, <2>3, LateSound
  <2> QED
    BY <2>1, <2>2, <2>4 DEF SavedInv
<1>3. ASSUME UNCHANGED <<engineVars, saved>> PROVE SavedInv'
  BY <1>0, <1>3 DEF engineVars, SavedInv, Linked
<1>4. ASSUME NEW k \in Root, NEW c, Discard(k, c) PROVE SavedInv'
  BY <1>3, <1>4 DEF Discard
<1>5. ASSUME Settled, NEW pivots, Saves(pivots) PROVE SavedInv'
  <2>1. /\ saved'.ctx = pCtx' /\ saved'.progress = progress'
        /\ UNCHANGED <<pCtx, progress, ran, late>>
        /\ progress.initialized
        /\ activity' = "loop" => activity \in Activity
    BY <1>0, <1>5 DEF Settled, Saves, ActivityInv, TypeOK, EngineTypeOK
  <2>2. progress.phase \in WavePhase \cup {"advance_frontier", "advance_extra_wave"} =>
           /\ CollectionSeeds(pCtx) \subseteq CollectionSeeds(pCtx)
           /\ Scheduled(pCtx) \subseteq Scheduled(pCtx)
    OBVIOUS
  <2> QED
    BY <1>0, <2>1, <2>2 DEF SavedInv, Linked
<1>6. CASE WritesNothing
  BY <1>0, <1>6 DEF WritesNothing, Settled, SavedInv, Linked
<1>7. ASSUME NEW k \in Root, NEW d \in {"accepted", "rejected"},
             DecidePivot(k, d), Decides(k, d)
      PROVE  SavedInv'
  <2>1. /\ late \subseteq late' /\ late' \in SUBSET Key
        /\ saved.ctx.inProgress => saved'.ctx.known \ saved.ctx.known \subseteq late'
        /\ saved'.ctx \in Frontier
        /\ UNCHANGED <<pCtx, progress, activity, ran>>
    BY <1>7, DecidedLate
  <2>2. /\ saved'.progress = saved.progress
        /\ KeptKeys(saved.ctx, saved'.ctx) \/ NewKey(saved.ctx, saved'.ctx, k)
    BY <1>7 DEF Decides
  <2>3. k \in Key /\ Nodes["reconsideration"] # 0
    BY ReconsidererAssumption DEF Root
  <2>4. Sound(saved'.ctx, saved'.progress, ran, late')
    BY <1>0, <2>1, <2>2, <2>3, DiscoverySound
  <2>5. /\ CollectionSeeds(saved'.ctx) = CollectionSeeds(saved.ctx)
        /\ Scheduled(saved.ctx) \subseteq Scheduled(saved'.ctx)
        /\ KeysOf(saved.ctx.seeds) \subseteq KeysOf(saved'.ctx.seeds)
    BY <2>2 DEF KeptKeys, NewKey, CollectionSeeds, Scheduled
  <2>6. Linked'
    BY <1>0, <2>1, <2>2, <2>5 DEF Linked
  <2> QED
    BY <2>1, <2>4, <2>6 DEF SavedInv
<1>8. CASE Reexecute
  BY <1>3, <1>8 DEF Reexecute
<1>20. CASE RefuseClaim
  BY <1>3, <1>20 DEF RefuseClaim
<1>9. CASE UNCHANGED vars
  BY <1>3, <1>9 DEF vars, runVars
<1> QED
  BY <1>1, <1>2, <1>4, <1>5, <1>6, <1>7, <1>8, <1>9, <1>20
     DEF Step, WritesHydrated, WritesBroker, WritesSnapshot

-----------------------------------------------------------------------------
(* The reviewer's decisions.                                               *)

\* What a snapshot shows of a root has the broker's decisions.
LEMMA HydratedDecisions ==
    ASSUME TypeOK, NEW k \in Root
    PROVE  /\ Hydrated[k] = "accepted" <=> broker[k] = "accepted"
           /\ broker[k] # "none" => Hydrated[k] = broker[k]
           /\ Hydrated[k] = "auto_accepted" <=> broker[k] = "auto_accepted"
           /\ mode = "autonomous" /\ broker[k] # "pending_review" =>
                 Hydrated[k] # "pending_review"
           /\ Hydrated[k] = "pending_review" =>
                 broker[k] = "pending_review" \/ Owed(mode, broker, discards)
<1>1. Hydrated[k] = IF broker[k] = "none" /\ discards[k] # "none"
                    THEN autoRejectedDiscardStatus(mode, discards[k]) ELSE broker[k]
  BY HydratedFields
<1>2. autoRejectedDiscardStatus(mode, discards[k]) \in {"pending_review", "auto_rejected"}
  BY DiscardStatusTypes
<1>3. mode = "autonomous" =>
         autoRejectedDiscardStatus(mode, discards[k]) # "pending_review"
  BY DEF autoRejectedDiscardStatus
<1> HIDE DEF Hydrated
<1> QED
  BY <1>1, <1>2, <1>3 DEF Owed

\* Every step keeps what the pivots know of the decisions.
LEMMA PivotsKept ==
    ASSUME TypeOK, PivotInv, Step
    PROVE  PivotInv'
<1>0. /\ mode \in Mode /\ broker \in Pivots /\ snapPivots \in Pivots /\ saved.pivots \in Pivots
      /\ decided \in [Root -> {"none", "accepted", "rejected"}]
  BY DEF TypeOK, Snapshot
<1>1. /\ mode = "autonomous" => \A k \in Root :
            /\ broker[k] # "pending_review" /\ snapPivots[k] # "pending_review"
            /\ saved.pivots[k] # "pending_review" /\ decided[k] = "none"
      /\ mode = "manual" => \A k \in Root :
            /\ broker[k] # "auto_accepted" /\ snapPivots[k] # "auto_accepted"
            /\ saved.pivots[k] # "auto_accepted"
      /\ \A k \in Root :
            /\ broker[k] = "accepted" <=> snapPivots[k] = "accepted"
            /\ broker[k] = "accepted" => saved.pivots[k] = "accepted"
            /\ saved.pivots[k] = "accepted" => decided[k] = "accepted"
  BY DEF PivotInv
<1>2. CASE Deliver
  BY <1>1, <1>2 DEF Deliver, PivotInv
<1>3. CASE Moved
  <2>1. /\ UNCHANGED <<mode, snapPivots, saved, decided>>
        /\ \A j \in Root : broker'[j] # broker[j] =>
              /\ broker[j] = "none"
              /\ broker'[j] = IF mode = "manual" THEN "pending_review" ELSE "auto_accepted"
    BY <1>3 DEF Moved, Answers
  <2>2. ASSUME NEW j \in Root
        PROVE  /\ broker'[j] = "accepted" <=> broker[j] = "accepted"
               /\ mode = "autonomous" => broker'[j] # "pending_review"
               /\ mode = "manual" => broker'[j] # "auto_accepted"
    BY <1>1, <2>1
  <2> QED
    BY <1>1, <2>1, <2>2 DEF PivotInv
<1>4. ASSUME UNCHANGED <<mode, broker, snapPivots, saved, decided>> PROVE PivotInv'
  BY <1>1, <1>4 DEF PivotInv
<1>5. ASSUME NEW k \in Root, NEW c, Discard(k, c) PROVE PivotInv'
  BY <1>4, <1>5 DEF Discard
<1>6. \A k \in Root :
         /\ Hydrated[k] = "accepted" <=> broker[k] = "accepted"
         /\ Hydrated[k] = "auto_accepted" <=> broker[k] = "auto_accepted"
         /\ mode = "autonomous" /\ broker[k] # "pending_review" =>
               Hydrated[k] # "pending_review"
  BY HydratedDecisions
<1>7. CASE WritesHydrated
  <2>1. /\ UNCHANGED <<mode, broker, decided>>
        /\ saved'.pivots = Hydrated /\ snapPivots' = Hydrated
    BY <1>7 DEF WritesHydrated, Settled, Saves
  <2> HIDE DEF Hydrated
  <2> QED
    BY <1>1, <1>6, <2>1 DEF PivotInv
<1>8. CASE WritesBroker
  BY <1>1, <1>8 DEF WritesBroker, Settled, Saves, PivotInv
<1>9. CASE WritesSnapshot
  BY <1>1, <1>9 DEF WritesSnapshot, Settled, Saves, PivotInv
<1>10. CASE WritesNothing
  <2>1. /\ UNCHANGED <<mode, broker, decided, saved>>
        /\ snapPivots' = Hydrated \/ snapPivots' = snapPivots
    BY <1>10 DEF WritesNothing, Settled
  <2> HIDE DEF Hydrated
  <2> QED
    BY <1>1, <1>6, <2>1 DEF PivotInv
<1>11. ASSUME NEW k \in Root, NEW d \in {"accepted", "rejected"},
              DecidePivot(k, d), Decides(k, d)
       PROVE  PivotInv'
  <2>1. /\ UNCHANGED <<mode, broker, snapPivots>>
        /\ saved.pivots[k] = "pending_review"
        /\ decided' = [decided EXCEPT ![k] = d]
        /\ saved'.pivots = [saved.pivots EXCEPT ![k] = d]
    BY <1>11 DEF DecidePivot, Decides
  <2>2. \A j \in Root : /\ decided'[j] = IF j = k THEN d ELSE decided[j]
                        /\ saved'.pivots[j] = IF j = k THEN d ELSE saved.pivots[j]
    BY <1>0, <2>1 DEF Pivots
  <2>3. mode # "autonomous"
    BY <1>1, <2>1
  <2> QED
    BY <1>1, <2>1, <2>2, <2>3 DEF PivotInv
<1>12. CASE Reexecute
  BY <1>4, <1>12 DEF Reexecute
<1>20. CASE RefuseClaim
  BY <1>4, <1>20 DEF RefuseClaim
<1>13. CASE UNCHANGED vars
  BY <1>4, <1>13 DEF vars, runVars
<1> QED
  BY <1>2, <1>3, <1>5, <1>7, <1>8, <1>9, <1>10, <1>11, <1>12, <1>13, <1>20 DEF Step

\* Every step keeps the seeds of a manual run approved.
LEMMA ApprovedKept ==
    ASSUME TypeOK, Sound(saved.ctx, saved.progress, ran, late), PivotInv, ApprovedInv, Step
    PROVE  ApprovedInv'
<1> SUFFICES ASSUME mode' = "manual" PROVE ApprovedInv'
  BY DEF ApprovedInv
<1>0. mode = "manual" /\ submitted' = submitted
  BY DEF Step, Deliver, Moved, Discard, WritesHydrated, WritesBroker, WritesSnapshot,
         WritesNothing, Settled, DecidePivot, Reexecute, RefuseClaim,
           Fault, vars
<1>1. \A k \in Root \ submitted :
         /\ k \in pCtx.known => broker[k] = "accepted"
         /\ k \in saved.ctx.known => saved.pivots[k] = "accepted"
  BY <1>0 DEF ApprovedInv
<1>2. CASE Deliver
  <2> DEFINE c == RestoreSchedulerState(saved.ctx)
  <2>1. /\ pCtx' = ResumeContext(c, saved.progress)
        /\ broker' = saved.pivots /\ saved' = saved
    BY <1>2 DEF Deliver, Resume
  <2>2. KeptKeys(saved.ctx, c) /\ c.seeds = saved.ctx.seeds /\ saved.ctx.known = KeysOf(saved.ctx.seeds)
    BY DeliveredSound DEF Sound, FrontierSound
  <2>3. saved.ctx.seeds \in Slice
    BY DEF TypeOK, Snapshot, Frontier
  <2>4. c.known = saved.ctx.known
    BY <2>2 DEF KeptKeys
  <2>5. InitializeSeedFrontier(c.seeds).known = saved.ctx.known
    BY <2>2, <2>3, InitializeKeys
  <2>6. pCtx'.known = saved.ctx.known
    BY <2>1, <2>4, <2>5 DEF ResumeContext
  <2> QED
    BY <1>0, <1>1, <2>1, <2>6 DEF ApprovedInv
<1>3. CASE Moved
  <2>1. saved' = saved
    BY <1>3 DEF Moved
  <2>2. CASE broker' = broker /\ pCtx'.known \cap Root \subseteq pCtx.known
    BY <1>0, <1>1, <2>1, <2>2 DEF ApprovedInv
  <2>3. ASSUME NEW k \in Root, Answers(k) PROVE ApprovedInv'
    <3>1. \A j \in Root : broker[j] # "none" => broker'[j] = broker[j]
      BY <2>3 DEF Answers
    <3>2. broker'[k] # "auto_accepted"
      BY <1>0, <2>3 DEF Answers, PivotInv
    <3>3. \/ pCtx'.known = pCtx.known
          \/ pCtx'.known = pCtx.known \cup {k} /\ broker'[k] = "accepted"
      BY <2>3, <3>2 DEF Answers, KeptKeys, NewKey
    <3> QED
      BY <1>0, <1>1, <2>1, <3>1, <3>3 DEF ApprovedInv
  <2> QED
    BY <1>3, <2>2, <2>3 DEF Moved
<1>4. ASSUME UNCHANGED <<pCtx, broker, saved>> PROVE ApprovedInv'
  BY <1>0, <1>1, <1>4 DEF ApprovedInv
<1>5. ASSUME NEW k \in Root, NEW c, Discard(k, c) PROVE ApprovedInv'
  BY <1>4, <1>5 DEF Discard, engineVars
<1>6. CASE WritesHydrated
  <2>1. /\ UNCHANGED <<pCtx, broker>> /\ saved'.ctx = pCtx /\ saved'.pivots = Hydrated
    BY <1>6 DEF WritesHydrated, Settled, Saves
  <2>2. \A k \in Root : Hydrated[k] = "accepted" <=> broker[k] = "accepted"
    BY HydratedDecisions
  <2> HIDE DEF Hydrated
  <2> QED
    BY <1>0, <1>1, <2>1, <2>2 DEF ApprovedInv
<1>7. CASE WritesBroker
  BY <1>0, <1>1, <1>7 DEF WritesBroker, Settled, Saves, ApprovedInv
<1>8. CASE WritesSnapshot
  BY <1>0, <1>1, <1>8 DEF WritesSnapshot, Settled, Saves, ApprovedInv, PivotInv
<1>9. CASE WritesNothing
  BY <1>4, <1>9 DEF WritesNothing, Settled
<1>10. ASSUME NEW k \in Root, NEW d \in {"accepted", "rejected"},
              DecidePivot(k, d), Decides(k, d)
       PROVE  ApprovedInv'
  <2>1. /\ UNCHANGED <<pCtx, broker>>
        /\ saved.pivots[k] = "pending_review"
        /\ saved'.pivots = [saved.pivots EXCEPT ![k] = d]
        /\ \/ saved'.ctx.known = saved.ctx.known
           \/ d = "accepted" /\ saved'.ctx.known = saved.ctx.known \cup {k}
    BY <1>10 DEF DecidePivot, Decides, KeptKeys, NewKey
  <2>2. \A j \in Root : saved'.pivots[j] = IF j = k THEN d ELSE saved.pivots[j]
    BY <2>1 DEF TypeOK, Snapshot, Pivots
  <2> QED
    BY <1>0, <1>1, <2>1, <2>2 DEF ApprovedInv
<1>11. CASE Reexecute
  BY <1>4, <1>11 DEF Reexecute, engineVars
<1>20. CASE RefuseClaim
  BY <1>4, <1>20 DEF RefuseClaim, engineVars
<1>12. CASE UNCHANGED vars
  BY <1>4, <1>12 DEF vars, runVars, engineVars
<1> QED
  BY <1>2, <1>3, <1>5, <1>6, <1>7, <1>8, <1>9, <1>10, <1>11, <1>12, <1>20 DEF Step

\* Every step keeps the dispatches and the reviewer's decisions in order.
LEMMA DecisionsKept ==
    ASSUME TypeOK, DecisionInv, Step
    PROVE  DecisionInv'
<1>0. /\ broker \in Pivots /\ snapPivots \in Pivots /\ saved.pivots \in Pivots
      /\ decided \in [Root -> {"none", "accepted", "rejected"}]
      /\ dispatched \in Nat /\ faults \in Nat /\ overlap \in BOOLEAN
  BY LiveAssumption DEF TypeOK, Snapshot
<1> DEFINE Pending == hasPendingReview(saved.pivots)
<1>1. /\ ~overlap =>
            /\ dispatched > 0 => dispatched = 1 /\ activity = "idle" /\ ~Pending
            /\ Pending => activity \in {"idle", "failed"}
            /\ \A k \in Root : decided[k] # "none" => saved.pivots[k] = decided[k]
      /\ ~overlap /\ activity # "idle" => \A k \in Root : decided[k] # "none" =>
            broker[k] = decided[k] /\ snapPivots[k] = decided[k]
      /\ faults = 0 => ~overlap /\ activity # "failed"
  BY DEF DecisionInv, DispatchedOnlyWhenIdle, DecisionsSurvive
<1> HIDE DEF Pending
<1> USE DEF DecisionInv, DispatchedOnlyWhenIdle, DecisionsSurvive
<1>2. CASE Deliver
  <2>1. /\ activity = "idle" /\ dispatched > 0 /\ dispatched' = dispatched - 1
        /\ activity' = "loop" /\ broker' = saved.pivots /\ snapPivots' = saved.pivots
        /\ UNCHANGED <<saved, faults, decided, overlap>>
    BY <1>2 DEF Deliver, Resume
  <2>2. ~overlap => dispatched' = 0 /\ ~Pending
    BY <1>0, <1>1, <2>1
  <2> QED
    BY <1>1, <2>1, <2>2 DEF Pending
<1>3. CASE Moved
  <2>1. /\ activity \in {"loop", "collect", "nodes"}
        /\ UNCHANGED <<snapPivots, saved, dispatched, decided, overlap>>
        /\ \/ faults' = faults /\ activity' # "failed"
           \/ faults' = faults + 1
        /\ \A k \in Root : broker[k] # "none" => broker'[k] = broker[k]
    BY <1>3 DEF Moved, MoveEffect, Answers
  <2>2. faults' = 0 => faults = 0 /\ activity' # "failed"
    BY <1>0, <2>1
  <2>3. ~overlap => dispatched = 0 /\ ~Pending
    BY <1>0, <1>1, <2>1
  <2> QED
    BY <1>0, <1>1, <2>1, <2>2, <2>3 DEF Pending
<1>4. ASSUME NEW k \in Root, NEW c, Discard(k, c) PROVE DecisionInv'
  BY <1>1, <1>4 DEF Discard, engineVars, Pending
<1>5. ASSUME Settled
      PROVE  /\ UNCHANGED <<broker, dispatched, decided, overlap>>
             /\ ~overlap => dispatched = 0
             /\ faults' = 0 => faults = 0
             /\ faults' = faults + 1 => faults' # 0
             /\ ~overlap => \A k \in Root : decided[k] # "none" =>
                   broker[k] = decided[k] /\ snapPivots[k] = decided[k]
  BY <1>0, <1>1, <1>5 DEF Settled
<1>6. \A k \in Root : broker[k] # "none" => Hydrated[k] = broker[k]
  BY HydratedDecisions
<1>7. CASE WritesHydrated
  <2>1. /\ saved'.pivots = Hydrated /\ snapPivots' = Hydrated /\ Settled
        /\ \/ activity' = "loop" /\ ~hasPendingReview(Hydrated)
           \/ activity' = "idle"
           \/ activity' = "failed" /\ faults' = faults + 1
    BY <1>7 DEF WritesHydrated, Saves
  <2> HIDE DEF Hydrated
  <2>2. ~overlap => \A k \in Root : decided[k] # "none" => Hydrated[k] = decided[k]
    BY <1>5, <1>6, <2>1
  <2> QED
    BY <1>1, <1>5, <2>1, <2>2
<1>8. CASE WritesBroker
  BY <1>1, <1>5, <1>8 DEF WritesBroker, Saves
<1>9. CASE WritesSnapshot
  BY <1>1, <1>5, <1>9 DEF WritesSnapshot, Saves
<1>10. CASE WritesNothing
  <2>1. /\ saved' = saved /\ Settled /\ faults' = faults + 1
        /\ snapPivots' = Hydrated \/ snapPivots' = snapPivots
        /\ activity' \in {"idle", "failed"}
    BY <1>10 DEF WritesNothing
  <2> HIDE DEF Hydrated
  <2>2. ~overlap => \A k \in Root : decided[k] # "none" => snapPivots'[k] = decided[k]
    BY <1>5, <1>6, <2>1
  <2> QED
    BY <1>1, <1>5, <2>1, <2>2 DEF Pending
<1>11. ASSUME NEW k \in Root, NEW d \in {"accepted", "rejected"},
              DecidePivot(k, d), Decides(k, d)
       PROVE  DecisionInv'
  <2>1. /\ saved.pivots[k] = "pending_review"
        /\ saved'.pivots = [saved.pivots EXCEPT ![k] = d]
        /\ decided' = [decided EXCEPT ![k] = d]
        /\ dispatched' = IF hasPendingReview(saved'.pivots) THEN dispatched
                         ELSE dispatched + 1
        /\ overlap' = (overlap \/ activity # "idle")
        /\ UNCHANGED <<activity, broker, snapPivots, faults>>
    BY <1>11 DEF DecidePivot, Decides
  <2>2. Pending
    BY <1>0, <2>1 DEF Pending, hasPendingReview, Pivots
  <2>3. \A j \in Root : /\ decided'[j] = IF j = k THEN d ELSE decided[j]
                        /\ saved'.pivots[j] = IF j = k THEN d ELSE saved.pivots[j]
    BY <1>0, <2>1 DEF Pivots
  <2>4. ~overlap' => ~overlap /\ activity = "idle" /\ dispatched = 0
    <3>1. ~overlap' => ~overlap /\ activity = "idle"
      BY <2>1
    <3> QED
      BY <1>0, <1>1, <2>2, <3>1
  <2>5. faults = 0 => ~overlap' /\ activity # "failed"
    BY <1>1, <2>1, <2>2
  <2>6. ~overlap' => /\ dispatched' > 0 => /\ dispatched' = 1
                                           /\ ~hasPendingReview(saved'.pivots)
    BY <2>1, <2>4
  <2> QED
    BY <1>1, <2>1, <2>3, <2>4, <2>5, <2>6
<1>12. CASE Reexecute
  BY <1>0, <1>1, <1>12 DEF Reexecute, engineVars, Pending
<1>20. CASE RefuseClaim
  <2>1. /\ UNCHANGED <<activity, saved, broker, snapPivots, decided, overlap>>
        /\ dispatched > 0 /\ dispatched' = dispatched - 1 /\ faults' = faults + 1
    BY <1>20 DEF RefuseClaim, Fault, engineVars
  <2>2. ~overlap => dispatched' = 0
    BY <1>0, <1>1, <2>1
  <2>3. faults' # 0
    BY <1>0, <2>1
  <2> QED
    BY <1>1, <2>1, <2>2, <2>3 DEF Pending
<1>13. CASE UNCHANGED vars
  BY <1>1, <1>13 DEF vars, runVars, engineVars, Pending
<1> HIDE DEF DecisionInv, DispatchedOnlyWhenIdle, DecisionsSurvive
<1> QED
  BY <1>2, <1>3, <1>4, <1>7, <1>8, <1>9, <1>10, <1>11, <1>12, <1>13, <1>20 DEF Step

-----------------------------------------------------------------------------
(* Reviews and faults.                                                     *)

\* A processor or a snapshot that has decided more owes no more.
LEMMA OwedShrinks ==
    ASSUME NEW m, NEW b, NEW c, NEW o,
           \A k \in Root : b[k] # "none" => c[k] # "none",
           Owed(m, c, o)
    PROVE  Owed(m, b, o)
BY DEF Owed

\* A snapshot shows what the broker owes, and owes nothing itself.
LEMMA HydratedOwes ==
    ASSUME TypeOK
    PROVE  /\ ~Owed(mode, Hydrated, discards)
           /\ Owed(mode, broker, discards) => hasPendingReview(Hydrated)
           /\ hasPendingReview(broker) => hasPendingReview(Hydrated)
           /\ hasPendingReview(Hydrated) =>
                 hasPendingReview(broker) \/ Owed(mode, broker, discards)
<1>1. /\ Hydrated \in Pivots /\ DOMAIN Hydrated = Root
      /\ \A k \in Root : Hydrated[k] =
            IF broker[k] = "none" /\ discards[k] # "none"
            THEN autoRejectedDiscardStatus(mode, discards[k]) ELSE broker[k]
  BY HydratedFields DEF Pivots
<1>2. DOMAIN broker = Root
  BY DEF TypeOK, Pivots
<1>3. \A c : autoRejectedDiscardStatus(mode, c) \in {"pending_review", "auto_rejected"}
  BY DiscardStatusTypes
<1> HIDE DEF Hydrated
<1> QED
  BY <1>1, <1>2, <1>3 DEF Owed, hasPendingReview

\* A move passes at most one more checkpoint, and then it is at it.
LEMMA MovePasses ==
    ASSUME EngineInv, MoveEffect
    PROVE  /\ Passed(pCtx', progress') \in 0..2 /\ Passed(pCtx, progress) \in 0..2
           /\ Passed(pCtx', progress') <=
                 Passed(pCtx, progress) + (IF activity' = "checkpoint" THEN 1 ELSE 0)
<1>0. /\ pCtx \in Frontier /\ progress \in Progress
      /\ progress.phase \in {"extra_wave", "advance_extra_wave"} =>
            (progress.phase = "extra_wave" <=> pCtx.inProgress)
  BY DEF EngineInv, EngineTypeOK, Sound, Position, Frontier
<1>1. CASE Continues
  BY <1>0, <1>1 DEF Continues, Passed
<1>2. CASE EndsPhase
  BY <1>0, <1>2 DEF EndsPhase, PhaseEnded, Passed, WavePhase
<1>3. CASE Advances
  BY <1>0, <1>3 DEF Advances, Advanced, Passed, WavePhase
<1> QED
  BY <1>1, <1>2, <1>3 DEF MoveEffect

\* Every step keeps the account of faults.
LEMMA DebtKept ==
    ASSUME TypeOK, EngineInv, Sound(saved.ctx, saved.progress, ran, late), DebtInv, Step
    PROVE  DebtInv'
<1>0. /\ broker \in Pivots /\ snapPivots \in Pivots /\ saved.pivots \in Pivots
      /\ faults \in Nat /\ pCtx \in Frontier /\ saved.ctx \in Frontier
  BY LiveAssumption DEF TypeOK, EngineTypeOK, Snapshot
<1>1. /\ /\ activity # "idle"
         /\ Owed(mode, broker, discards) \/ Owed(mode, snapPivots, discards)
         => faults + (IF activity = "checkpoint" THEN 1 ELSE 0) >= Passed(pCtx, progress)
      /\ Owed(mode, saved.pivots, saved.discards) =>
            faults >= Passed(saved.ctx, saved.progress)
  BY DEF DebtInv
<1>2. Passed(pCtx, progress) \in 0..2 /\ Passed(saved.ctx, saved.progress) \in 0..2
  BY DEF Passed
<1>3. CASE Deliver
  <2> DEFINE c == RestoreSchedulerState(saved.ctx)
  <2>1. /\ pCtx' = ResumeContext(c, saved.progress)
        /\ progress' = ResumeProgress(saved.progress)
        /\ activity' = "loop" /\ broker' = saved.pivots /\ snapPivots' = saved.pivots
        /\ discards' = saved.discards
        /\ UNCHANGED <<mode, saved, faults>>
    BY <1>3 DEF Deliver, Resume
  <2>2. c.inProgress = saved.ctx.inProgress
    BY <1>0, RestoreKeys DEF SameControl
  <2>3. \/ Passed(pCtx', progress') = Passed(saved.ctx, saved.progress)
        \/ Passed(pCtx', progress') = 0
    <3>1. CASE saved.progress.initialized
      BY <2>1, <2>2, <3>1 DEF ResumeContext, ResumeProgress, Passed
    <3>2. CASE ~saved.progress.initialized
      BY <2>1, <3>2 DEF ResumeProgress, Passed, WavePhase
    <3> QED
      BY <3>1, <3>2
  <2> QED
    BY <1>0, <1>1, <1>2, <2>1, <2>3 DEF DebtInv
<1>4. CASE Moved
  <2>1. /\ activity \in {"loop", "collect", "nodes"} /\ MoveEffect
        /\ UNCHANGED <<mode, snapPivots, discards, saved>>
        /\ faults' \in {faults, faults + 1}
        /\ \A k \in Root : broker[k] # "none" => broker'[k] # "none"
    BY <1>4 DEF Moved, MoveEffect, Answers
  <2>2. Owed(mode, broker', discards) => Owed(mode, broker, discards)
    BY <2>1, OwedShrinks
  <2>3. /\ Passed(pCtx', progress') \in 0..2
        /\ Passed(pCtx', progress') <=
              Passed(pCtx, progress) + (IF activity' = "checkpoint" THEN 1 ELSE 0)
    BY <2>1, MovePasses
  <2> QED
    BY <1>0, <1>1, <1>2, <2>1, <2>2, <2>3 DEF DebtInv
<1>5. ASSUME NEW k \in Root, NEW c, Discard(k, c) PROVE DebtInv'
  <2>1. /\ UNCHANGED <<pCtx, progress, activity, mode, saved, faults>>
        /\ progress.phase \in WavePhase
    BY <1>5 DEF Discard, engineVars
  <2>2. Passed(pCtx', progress') = 0
    BY <2>1 DEF Passed
  <2> QED
    BY <1>0, <1>1, <2>1, <2>2 DEF DebtInv
<1>6. ASSUME Settled
      PROVE  /\ UNCHANGED <<pCtx, progress, mode, broker, discards>>
             /\ activity # "idle" /\ activity' # "checkpoint"
             /\ faults' \in Nat /\ faults' >= faults
  BY <1>0, <1>6 DEF Settled
<1>7. CASE WritesHydrated
  <2>1. /\ Settled /\ snapPivots' = Hydrated
        /\ saved'.ctx = pCtx /\ saved'.progress = progress
        /\ saved'.pivots = Hydrated /\ saved'.discards = discards
        /\ \/ activity' = "loop" /\ ~hasPendingReview(Hydrated)
           \/ activity' = "idle"
           \/ activity = "checkpoint" /\ activity' = "failed" /\ faults' = faults + 1
    BY <1>7 DEF WritesHydrated, Saves
  <2>2. /\ ~Owed(mode, Hydrated, discards)
        /\ Owed(mode, broker, discards) => hasPendingReview(Hydrated)
    BY HydratedOwes
  <2> HIDE DEF Hydrated
  <2> QED
    BY <1>0, <1>1, <1>2, <1>6, <2>1, <2>2 DEF DebtInv
<1>8. CASE WritesBroker
  <2>1. /\ Settled /\ saved'.ctx = pCtx /\ saved'.progress = progress
        /\ saved'.pivots = broker /\ saved'.discards = discards
        /\ activity # "checkpoint" /\ activity' = "idle"
    BY <1>8 DEF WritesBroker, Saves
  <2> QED
    BY <1>0, <1>1, <1>2, <1>6, <2>1 DEF DebtInv
<1>9. CASE WritesSnapshot
  <2>1. /\ Settled /\ saved'.ctx = pCtx /\ saved'.progress = progress
        /\ saved'.pivots = snapPivots /\ saved'.discards = discards
        /\ activity # "checkpoint" /\ activity' = "idle"
    BY <1>9 DEF WritesSnapshot, Saves
  <2> QED
    BY <1>0, <1>1, <1>2, <1>6, <2>1 DEF DebtInv
<1>10. CASE WritesNothing
  <2>1. /\ Settled /\ saved' = saved /\ faults' = faults + 1
        /\ \/ activity' = "failed" /\ activity = "checkpoint" /\ snapPivots' = Hydrated
           \/ activity' = "idle"
    BY <1>10 DEF WritesNothing
  <2>2. ~Owed(mode, Hydrated, discards)
    BY HydratedOwes
  <2> HIDE DEF Hydrated
  <2> QED
    BY <1>0, <1>1, <1>2, <1>6, <2>1, <2>2 DEF DebtInv
<1>11. ASSUME NEW k \in Root, NEW d \in {"accepted", "rejected"},
              DecidePivot(k, d), Decides(k, d)
       PROVE  DebtInv'
  <2>1. /\ UNCHANGED <<pCtx, progress, activity, mode, broker, snapPivots, discards, faults>>
        /\ saved'.progress = saved.progress /\ saved'.discards = saved.discards
        /\ saved.pivots[k] = "pending_review"
        /\ saved'.pivots = [saved.pivots EXCEPT ![k] = d]
        /\ saved'.ctx.inProgress = saved.ctx.inProgress
    BY <1>11 DEF DecidePivot, Decides, KeptKeys, NewKey, SameControl
  <2>2. \A j \in Root : saved.pivots[j] # "none" => saved'.pivots[j] # "none"
    BY <1>0, <2>1 DEF Pivots
  <2>3. Owed(mode, saved'.pivots, saved.discards) => Owed(mode, saved.pivots, saved.discards)
    BY <2>2 DEF Owed
  <2>4. Passed(saved'.ctx, saved'.progress) = Passed(saved.ctx, saved.progress)
    BY <2>1 DEF Passed
  <2> QED
    BY <1>0, <1>1, <1>2, <2>1, <2>3, <2>4 DEF DebtInv
<1>12. ASSUME UNCHANGED <<pCtx, progress, activity, mode, broker, snapPivots, discards,
                          saved, faults>>
       PROVE  DebtInv'
  BY <1>1, <1>12 DEF DebtInv
<1>13. CASE Reexecute
  BY <1>12, <1>13 DEF Reexecute, engineVars
<1>20. CASE RefuseClaim
  <2>1. /\ UNCHANGED <<pCtx, progress, activity, mode, broker, snapPivots, discards, saved>>
        /\ faults' = faults + 1
    BY <1>20 DEF RefuseClaim, Fault, engineVars
  <2>2. /\ Passed(pCtx', progress') = Passed(pCtx, progress)
        /\ Passed(saved'.ctx, saved'.progress) = Passed(saved.ctx, saved.progress)
    BY <2>1
  <2> QED
    BY <1>0, <1>1, <1>2, <2>1, <2>2 DEF DebtInv
<1>14. CASE UNCHANGED vars
  BY <1>12, <1>14 DEF vars, runVars, engineVars
<1> QED
  BY <1>3, <1>4, <1>5, <1>7, <1>8, <1>9, <1>10, <1>11, <1>13, <1>14, <1>20 DEF Step

\* A step that leaves the processor and the pending reviews as they are keeps
\* the order of reviews; so does one in which a decision overlaps.
LEMMA ReviewsStay ==
    ASSUME TypeOK, ReviewInv,
           UNCHANGED <<pCtx, progress, activity, broker, snapPivots>>,
           overlap' \in BOOLEAN, ~overlap' => ~overlap,
           faults' \in {faults, faults + 1},
           saved'.progress = saved.progress,
           saved'.ctx.inProgress = saved.ctx.inProgress,
           hasPendingReview(saved'.pivots) => hasPendingReview(saved.pivots)
    PROVE  ReviewInv'
<1>1. faults \in Nat
  BY LiveAssumption DEF TypeOK
<1>2. faults >= 2 => faults' >= 2
  BY <1>1
<1> QED
  BY <1>2 DEF ReviewInv

\* Every step keeps the order of reviews.
LEMMA ReviewsKept ==
    ASSUME TypeOK, EngineInv, DecisionInv, DebtInv, ReviewInv, Step
    PROVE  ReviewInv'
<1>0. /\ broker \in Pivots /\ snapPivots \in Pivots /\ saved.pivots \in Pivots
      /\ faults \in Nat /\ pCtx \in Frontier /\ progress \in Progress
      /\ saved.ctx \in Frontier /\ overlap \in BOOLEAN /\ ActivityInv
      /\ Position(pCtx, progress)
  BY LiveAssumption DEF TypeOK, EngineInv, EngineTypeOK, Sound, Snapshot
<1>1. ~overlap =>
        /\ \/ /\ activity \notin {"idle", "checkpoint", "failed"}
              /\ progress.phase \in Late \cup {"advance_extra_wave"}
           \/ activity = "failed" /\ progress.phase \in Late /\ ~pCtx.inProgress
           => ~hasPendingReview(broker) /\ ~hasPendingReview(snapPivots)
        /\ hasPendingReview(saved.pivots) /\ saved.progress.phase \in Late =>
              saved.ctx.inProgress \/ faults >= 2
  BY DEF ReviewInv
<1>2. CASE Deliver
  <2>1. /\ dispatched > 0 /\ activity' = "loop"
        /\ broker' = saved.pivots /\ snapPivots' = saved.pivots
        /\ UNCHANGED <<saved, faults, overlap>>
    BY <1>2 DEF Deliver, Resume
  <2>2. ~overlap => ~hasPendingReview(saved.pivots)
    BY <2>1 DEF DecisionInv, DispatchedOnlyWhenIdle
  <2> QED
    BY <2>1, <2>2 DEF ReviewInv
<1>3. CASE Moved
  <2>1. /\ activity \in {"loop", "collect", "nodes"} /\ MoveEffect
        /\ UNCHANGED <<snapPivots, saved, overlap>>
        /\ faults' \in Nat /\ faults' >= faults
        /\ broker' = broker \/ (Judging /\ UNCHANGED <<progress, activity>>)
    BY <1>0, <1>3 DEF Moved, MoveEffect
  <2>2. CASE Judging /\ UNCHANGED <<progress, activity>>
    <3>1. progress.phase \notin Late \cup {"advance_extra_wave"}
      BY <1>0, <2>2 DEF Judging, ActivityInv, WavePhase, Late
    <3> QED
      BY <1>0, <1>1, <2>1, <2>2, <3>1 DEF ReviewInv
  <2>3. CASE broker' = broker
    <3>1. /\ activity' # "checkpoint"
          /\ progress'.phase \in Late \cup {"advance_extra_wave"}
          => progress.phase \in Late \cup {"advance_extra_wave"}
      <4>1. CASE Continues
        BY <4>1 DEF Continues
      <4>2. CASE EndsPhase
        BY <4>2 DEF EndsPhase, PhaseEnded, Late
      <4>3. CASE Advances
        BY <4>3 DEF Advances, Advanced, Late
      <4> QED
        BY <2>1, <4>1, <4>2, <4>3 DEF MoveEffect
    <3> QED
      BY <1>0, <1>1, <2>1, <2>3, <3>1 DEF ReviewInv
  <2> QED
    BY <2>1, <2>2, <2>3
<1>4. ASSUME NEW k \in Root, NEW c, Discard(k, c) PROVE ReviewInv'
  BY <1>0, <1>4, ReviewsStay DEF Discard, engineVars
<1>5. /\ activity = "checkpoint" /\ progress.phase \in Late => pCtx.inProgress
      /\ activity = "finished" => progress.phase \in Late
  BY <1>0 DEF ActivityInv, Late
<1>6. ASSUME Settled
      PROVE  /\ UNCHANGED <<pCtx, progress, broker, overlap>>
             /\ faults' \in Nat /\ faults' >= faults
  BY <1>0, <1>6 DEF Settled
<1>7. CASE WritesHydrated
  <2>1. /\ Settled /\ snapPivots' = Hydrated
        /\ saved'.ctx = pCtx /\ saved'.progress = progress /\ saved'.pivots = Hydrated
        /\ \/ activity' = "loop" /\ ~hasPendingReview(Hydrated) /\ activity = "checkpoint"
           \/ activity' = "idle" /\ activity \in {"checkpoint", "finished"}
           \/ activity' = "failed" /\ activity = "checkpoint"
    BY <1>7 DEF WritesHydrated, Saves
  <2>2. /\ hasPendingReview(broker) => hasPendingReview(Hydrated)
        /\ hasPendingReview(Hydrated) =>
              hasPendingReview(broker) \/ Owed(mode, broker, discards)
    BY HydratedOwes
  <2> HIDE DEF Hydrated
  <2>3. ASSUME ~overlap, hasPendingReview(Hydrated), progress.phase \in Late,
               ~pCtx.inProgress
        PROVE  faults >= 2
    <3>1. activity = "finished"
      BY <1>5, <2>1, <2>3
    <3>2. Owed(mode, broker, discards)
      BY <1>1, <2>2, <2>3, <3>1
    <3>3. Passed(pCtx, progress) = 2
      BY <2>3 DEF Passed, Late, WavePhase
    <3> QED
      BY <1>0, <3>1, <3>2, <3>3 DEF DebtInv
  <2> QED
    BY <1>0, <1>5, <1>6, <2>1, <2>2, <2>3 DEF ReviewInv
<1>8. CASE WritesBroker
  <2>1. /\ Settled /\ saved'.ctx = pCtx /\ saved'.progress = progress
        /\ saved'.pivots = broker
        /\ activity \in {"failed", "finished"} /\ activity' = "idle"
    BY <1>8 DEF WritesBroker, Saves
  <2> QED
    BY <1>0, <1>1, <1>5, <1>6, <2>1 DEF ReviewInv
<1>9. CASE WritesSnapshot
  <2>1. /\ Settled /\ saved'.ctx = pCtx /\ saved'.progress = progress
        /\ saved'.pivots = snapPivots
        /\ activity = "nodes" /\ activity' = "idle"
    BY <1>9 DEF WritesSnapshot, Saves
  <2> QED
    BY <1>0, <1>1, <1>6, <2>1 DEF ReviewInv
<1>10. CASE WritesNothing
  <2>1. /\ Settled /\ saved' = saved
        /\ \/ activity = "checkpoint" /\ activity' = "failed"
           \/ activity' = "idle"
    BY <1>10 DEF WritesNothing
  <2> QED
    BY <1>0, <1>1, <1>5, <1>6, <2>1 DEF ReviewInv
<1>11. ASSUME NEW k \in Root, NEW d \in {"accepted", "rejected"},
              DecidePivot(k, d), Decides(k, d)
       PROVE  ReviewInv'
  <2>1. /\ UNCHANGED <<pCtx, progress, activity, broker, snapPivots, faults>>
        /\ saved'.progress = saved.progress
        /\ saved.pivots[k] = "pending_review"
        /\ saved'.ctx.inProgress = saved.ctx.inProgress
        /\ overlap' = (overlap \/ activity # "idle")
    BY <1>11 DEF DecidePivot, Decides, KeptKeys, NewKey, SameControl
  <2>2. hasPendingReview(saved.pivots)
    BY <1>0, <2>1 DEF hasPendingReview, Pivots
  <2>3. overlap' \in BOOLEAN /\ (~overlap' => ~overlap)
    BY <1>0, <2>1
  <2> QED
    BY <2>1, <2>2, <2>3, ReviewsStay
<1>12. CASE Reexecute
  BY <1>0, <1>12, ReviewsStay DEF Reexecute, engineVars
<1>20. CASE RefuseClaim
  <2>1. /\ UNCHANGED <<pCtx, progress, activity, saved, broker, snapPivots, overlap>>
        /\ faults' = faults + 1
    BY <1>20 DEF RefuseClaim, Fault, engineVars
  <2> QED
    BY <1>0, <2>1, ReviewsStay
<1>13. CASE UNCHANGED vars
  BY <1>0, <1>13, ReviewsStay DEF vars, runVars, engineVars
<1> QED
  BY <1>2, <1>3, <1>4, <1>7, <1>8, <1>9, <1>10, <1>11, <1>12, <1>13, <1>20 DEF Step

\* With one fault at most nothing is scheduled behind the last advance.
LEMMA NothingLeftKept ==
    ASSUME TypeOK, EngineInv, Sound(saved.ctx, saved.progress, ran, late), ReviewInv,
           NothingLeftInv, Step
    PROVE  NothingLeftInv'
<1> SUFFICES ASSUME ~overlap', faults' <= 1 PROVE NothingLeftInv'
  BY DEF NothingLeftInv
<1>0. /\ faults \in Nat /\ overlap \in BOOLEAN /\ saved.pivots \in Pivots
      /\ saved.ctx \in Frontier
  BY LiveAssumption DEF TypeOK, Snapshot
<1>1. ~overlap /\ faults <= 1
  <2>1. overlap' = overlap \/ overlap' = (overlap \/ activity # "idle")
    BY DEF Step, Deliver, Moved, Discard, WritesHydrated, WritesBroker, WritesSnapshot,
           WritesNothing, Settled, DecidePivot, Reexecute, RefuseClaim,
           Fault, vars, runVars
  <2>2. faults' \in {faults, faults + 1}
    BY DEF Step, Deliver, Moved, Discard, WritesHydrated, WritesBroker, WritesSnapshot,
           WritesNothing, Settled, DecidePivot, Reexecute, RefuseClaim,
           Fault, vars, runVars
  <2>3. ~overlap
    BY <1>0, <2>1
  <2> QED
    BY <1>0, <2>2, <2>3
<1>2. NothingLeft(pCtx, progress) /\ NothingLeft(saved.ctx, saved.progress)
  BY <1>1 DEF NothingLeftInv
<1>3. CASE Deliver
  <2> DEFINE c == RestoreSchedulerState(saved.ctx)
  <2>1. /\ pCtx' = ResumeContext(c, saved.progress)
        /\ progress' = ResumeProgress(saved.progress) /\ saved' = saved
    BY <1>3 DEF Deliver, Resume
  <2>2. Scheduled(c) = Scheduled(saved.ctx)
    BY DeliveredSound DEF KeptKeys, Scheduled
  <2> HIDE DEF c
  <2>3. CASE saved.progress.initialized
    BY <1>2, <2>1, <2>2, <2>3
       DEF ResumeContext, ResumeProgress, NothingLeft, NothingLeftInv
  <2>4. CASE ~saved.progress.initialized
    BY <1>2, <2>1, <2>4 DEF ResumeProgress, NothingLeft, NothingLeftInv, Late
  <2> QED
    BY <2>3, <2>4
<1>4. CASE Moved
  BY <1>2, <1>4, MoveNothingLeft DEF Moved, NothingLeftInv
<1>5. ASSUME UNCHANGED <<pCtx, progress>>, \/ saved' = saved
                                           \/ saved'.ctx = pCtx /\ saved'.progress = progress
      PROVE  NothingLeftInv'
  BY <1>2, <1>5 DEF NothingLeftInv
<1>6. ASSUME NEW k \in Root, NEW c, Discard(k, c) PROVE NothingLeftInv'
  BY <1>5, <1>6 DEF Discard, engineVars
<1>7. ASSUME NEW k \in Root, NEW d \in {"accepted", "rejected"},
             DecidePivot(k, d), Decides(k, d)
      PROVE  NothingLeftInv'
  <2>1. /\ UNCHANGED <<pCtx, progress>>
        /\ saved'.progress = saved.progress
        /\ saved.pivots[k] = "pending_review"
        /\ KeptKeys(saved.ctx, saved'.ctx) \/ NewKey(saved.ctx, saved'.ctx, k)
    BY <1>7 DEF DecidePivot, Decides
  <2>2. hasPendingReview(saved.pivots)
    BY <1>0, <2>1 DEF hasPendingReview, Pivots
  <2>3. saved.progress.phase \in Late => saved.ctx.inProgress
    BY <1>0, <1>1, <2>2 DEF ReviewInv
  <2>4. saved.ctx.inProgress => Scheduled(saved'.ctx) = Scheduled(saved.ctx)
    BY <2>1 DEF KeptKeys, NewKey, Scheduled
  <2> QED
    BY <1>2, <2>1, <2>3, <2>4 DEF NothingLeftInv, NothingLeft
<1>8. CASE Reexecute
  BY <1>5, <1>8 DEF Reexecute, engineVars
<1>20. CASE RefuseClaim
  BY <1>5, <1>20 DEF RefuseClaim, engineVars
<1>9. CASE UNCHANGED vars
  BY <1>5, <1>9 DEF vars, runVars, engineVars
<1>10. CASE WritesHydrated \/ WritesBroker \/ WritesSnapshot \/ WritesNothing
  BY <1>5, <1>10
     DEF WritesHydrated, WritesBroker, WritesSnapshot, WritesNothing, Settled, Saves
<1> QED
  BY <1>3, <1>4, <1>6, <1>7, <1>8, <1>9, <1>10, <1>20 DEF Step

\* Without a fault only a run that is reviewed is completed.
LEMMA CompletionKept ==
    ASSUME TypeOK, EngineInv, DecisionInv, DebtInv, ReviewInv,
           ReviewedBeforeCompletion, Step
    PROVE  ReviewedBeforeCompletion'
<1> SUFFICES ASSUME faults' = 0 PROVE ReviewedBeforeCompletion'
  BY DEF ReviewedBeforeCompletion
<1>0. faults = 0
  <2>1. faults' \in {faults, faults + 1} /\ faults \in Nat
    BY LiveAssumption
    DEF TypeOK, Step, Deliver, Moved, Discard, WritesHydrated, WritesBroker,
        WritesSnapshot, WritesNothing, Settled, DecidePivot, Reexecute, RefuseClaim,
        Fault, vars, runVars
  <2> QED
    BY <2>1
<1>1. ASSUME saved' = saved PROVE ReviewedBeforeCompletion'
  BY <1>0, <1>1 DEF ReviewedBeforeCompletion
<1>2. ASSUME saved'.status # "completed" PROVE ReviewedBeforeCompletion'
  BY <1>2 DEF ReviewedBeforeCompletion
<1>3. CASE WritesHydrated
  <2>1. CASE saved'.status # "completed"
    BY <1>2, <2>1
  <2>2. CASE saved'.status = "completed"
    <3>1. activity = "finished" /\ saved'.pivots = Hydrated
      BY <1>3, <2>2 DEF WritesHydrated, Saves
    <3>2. progress.phase = "completed" /\ ~overlap
      BY <1>0, <3>1 DEF EngineInv, ActivityInv, DecisionInv
    <3>3. ~hasPendingReview(broker)
      BY <3>1, <3>2 DEF ReviewInv, Late
    <3>4. ~Owed(mode, broker, discards)
      <4>1. Passed(pCtx, progress) \in {1, 2}
        BY <3>2 DEF Passed, WavePhase
      <4> QED
        BY <1>0, <3>1, <4>1 DEF DebtInv
    <3>5. ~hasPendingReview(Hydrated)
      BY <3>3, <3>4, HydratedOwes
    <3> QED
      BY <3>1, <3>5 DEF ReviewedBeforeCompletion
  <2> QED
    BY <2>1, <2>2
<1>4. CASE WritesBroker \/ WritesSnapshot
  BY <1>2, <1>4 DEF WritesBroker, WritesSnapshot
<1>5. ASSUME NEW k \in Root, NEW d, Decides(k, d) PROVE ReviewedBeforeCompletion'
  BY <1>5 DEF Decides, ReviewedBeforeCompletion
<1>6. Deliver \/ Moved \/ WritesNothing \/ Reexecute \/ RefuseClaim \/ UNCHANGED vars
        => saved' = saved
  BY DEF Deliver, Moved, WritesNothing, Reexecute, RefuseClaim, vars, runVars
<1>7. ASSUME NEW k \in Root, NEW c, Discard(k, c) PROVE saved' = saved
  BY <1>7 DEF Discard
<1> QED
  BY <1>1, <1>3, <1>4, <1>5, <1>6, <1>7 DEF Step

-----------------------------------------------------------------------------
(* The theorems.                                                           *)

\* A run that has been created satisfies the invariant.
LEMMA LiveInitInv == LiveInit => LiveInv
<1> SUFFICES ASSUME LiveInit PROVE LiveInv
  OBVIOUS
<1>0. Init
  BY DEF LiveInit
<1>1. EngineInv /\ NothingLeft(pCtx, progress)
  BY <1>0, InitSound
<1>2. /\ mode \in Mode /\ submitted = KeysOf(pCtx.seeds)
      /\ saved = [ctx |-> pCtx, progress |-> progress, pivots |-> NoPivots,
                  discards |-> NoPivots, status |-> "queued"]
      /\ broker = NoPivots /\ snapPivots = NoPivots /\ discards = NoPivots
      /\ decided = NoPivots /\ overlap = FALSE
      /\ dispatched = 1 /\ faults = 0 /\ redelivered = 0
      /\ activity = "idle"
  BY <1>0 DEF LiveInit, Init
<1>3. /\ NoPivots \in Pivots /\ NoPivots \in [Root -> Discarded]
      /\ NoPivots \in [Root -> {"none", "accepted", "rejected"}]
      /\ \A k \in Root : NoPivots[k] = "none"
      /\ DOMAIN NoPivots = Root
  BY DEF NoPivots, Pivots, PivotStatus, Discarded
<1>4. /\ pCtx \in Frontier /\ progress \in Progress
      /\ Sound(pCtx, progress, ran, late) /\ EngineTypeOK
  BY <1>1 DEF EngineInv, EngineTypeOK
<1>5. /\ saved.ctx = pCtx /\ saved.progress = progress /\ saved.pivots = NoPivots
      /\ saved.discards = NoPivots /\ saved.status = "queued"
  BY <1>2
<1>6. submitted \in SUBSET Key
  BY <1>2 DEF KeysOf
<1>7. saved \in Snapshot
  BY <1>2, <1>3, <1>4 DEF Snapshot, RunStatus
<1> HIDE DEF NoPivots
<1>8. TypeOK
  <2>1. dispatched \in Nat /\ faults \in 0..MaxFaults /\ redelivered \in 0..MaxRedeliveries
    BY <1>2, LiveAssumption
  <2>2. overlap \in BOOLEAN
    BY <1>2
  <2> QED
    BY <1>2, <1>3, <1>4, <1>6, <1>7, <2>1, <2>2 DEF TypeOK
<1>9. SavedInv
  BY <1>2, <1>4, <1>5 DEF SavedInv, Linked
<1>10. PivotInv
  BY <1>2, <1>3, <1>5 DEF PivotInv
<1>11. ApprovedInv
  BY <1>2, <1>4, <1>5 DEF ApprovedInv, Sound, FrontierSound
<1>12. ~hasPendingReview(NoPivots)
  BY <1>3 DEF hasPendingReview
<1>13. DecisionInv
  BY <1>2, <1>3, <1>5, <1>12 DEF DecisionInv, DispatchedOnlyWhenIdle, DecisionsSurvive
<1>14. DebtInv
  BY <1>2, <1>3, <1>5 DEF DebtInv, Owed
<1>15. ReviewInv
  BY <1>2, <1>5, <1>12 DEF ReviewInv
<1>16. NothingLeftInv
  BY <1>1, <1>5 DEF NothingLeftInv
<1> QED
  BY <1>1, <1>5, <1>8, <1>9, <1>10, <1>11, <1>12, <1>13, <1>14, <1>15, <1>16
     DEF LiveInv, ReviewedBeforeCompletion

\* The invariant holds in every state of a live run.
THEOREM LiveInvariant == LiveSpec => []LiveInv
<1>1. LiveInv /\ [LiveNext]_vars => LiveInv'
  <2> SUFFICES ASSUME LiveInv, [LiveNext]_vars PROVE LiveInv'
    OBVIOUS
  <2>0. /\ TypeOK /\ EngineInv /\ SavedInv /\ PivotInv /\ ApprovedInv
        /\ DecisionInv /\ DebtInv /\ ReviewInv /\ NothingLeftInv
        /\ ReviewedBeforeCompletion
    BY DEF LiveInv
  <2>1. Sound(saved.ctx, saved.progress, ran, late) /\ FrontierSound(saved.ctx)
    BY <2>0 DEF SavedInv, Sound
  <2>2. Step
    BY <2>0, <2>1, Steps
  <2>3. TypeOK' /\ EngineInv' /\ SavedInv'
    BY <2>0, <2>1, <2>2, TypesKept, EngineKept, SavedKept
  <2>4. PivotInv' /\ ApprovedInv' /\ DecisionInv'
    BY <2>0, <2>1, <2>2, PivotsKept, ApprovedKept, DecisionsKept
  <2>5. DebtInv' /\ ReviewInv' /\ NothingLeftInv' /\ ReviewedBeforeCompletion'
    BY <2>0, <2>1, <2>2, DebtKept, ReviewsKept, NothingLeftKept, CompletionKept
  <2> QED
    BY <2>3, <2>4, <2>5 DEF LiveInv
<1> QED
  BY <1>1, LiveInitInv, PTL DEF LiveSpec

\* Type correctness over all deliveries, faults and decisions.
THEOREM LiveTypes == LiveSpec => []TypeOK
BY LiveInvariant, PTL DEF LiveInv

\* However often the run is interrupted and resumed, the engine's wave counter
\* and the scheduler's depth agree, and at most maxDepth + 2 waves are numbered.
THEOREM LiveWavesMatch == LiveSpec => []WaveMatchesDepth
<1>1. LiveInv => WaveMatchesDepth
  BY WavesMatch DEF LiveInv, EngineInv, EngineTypeOK
<1> QED
  BY <1>1, LiveInvariant, PTL

\* A key is collected in one wave only, even when the deliveries of a run repeat
\* its waves.
THEOREM LiveOneWave == LiveSpec => []CollectedInOneWave
<1>1. LiveInv => CollectedInOneWave
  BY DEF LiveInv, EngineInv
<1> QED
  BY <1>1, LiveInvariant, PTL

\* With one fault at most no seed is skipped, by a resumed run or by a decision.
THEOREM LiveSeedsCollected == LiveSpec => []SeedsCollected
<1>1. LiveInv => SeedsCollected
  <2> SUFFICES ASSUME LiveInv, ~overlap, faults <= 1 PROVE NoScheduledSeedLost
    BY DEF SeedsCollected
  <2>1. Sound(pCtx, progress, ran, late) /\ NothingLeft(pCtx, progress)
    BY DEF LiveInv, EngineInv, NothingLeftInv
  <2> QED
    BY <2>1, NoSeedLost
<1> QED
  BY <1>1, LiveInvariant, PTL

\* A decision of the reviewer survives failures, panics, crashes and later
\* checkpoints.
THEOREM DecisionsAreKept == LiveSpec => []DecisionsSurvive
<1>1. LiveInv => DecisionsSurvive
  BY DEF LiveInv, DecisionInv
<1> QED
  BY <1>1, LiveInvariant, PTL

\* A rejected root stays out, whatever judges find afterwards.
THEOREM RejectionIsKept == LiveSpec => []RejectedStaysOut
<1>1. LiveInv => RejectedStaysOut
  <2> SUFFICES ASSUME LiveInv, NEW k \in Root \ submitted, decided[k] = "rejected"
               PROVE  k \notin pCtx.known \cup saved.ctx.known
    BY DEF RejectedStaysOut
  <2>1. mode = "manual"
    BY DEF LiveInv, TypeOK, Mode, PivotInv
  <2> QED
    BY <2>1 DEF LiveInv, PivotInv, ApprovedInv
<1> QED
  BY <1>1, LiveInvariant, PTL

\* In a manual run only the reviewer makes a root a seed.
THEOREM OnlyApprovedRoots == LiveSpec => []ManualNeedsApproval
<1>1. LiveInv => ManualNeedsApproval
  <2> SUFFICES ASSUME LiveInv, mode = "manual",
                      NEW k \in (pCtx.known \cup saved.ctx.known) \cap Root,
                      k \notin submitted
               PROVE  decided[k] = "accepted"
    BY DEF ManualNeedsApproval
  <2> QED
    BY DEF LiveInv, PivotInv, ApprovedInv
<1> QED
  BY <1>1, LiveInvariant, PTL

\* A run without a fault is completed only when every pivot is decided.
THEOREM CompletedIsReviewed == LiveSpec => []ReviewedBeforeCompletion
BY LiveInvariant, PTL DEF LiveInv

\* A run is dispatched once at a time and only while no processor works on it,
\* unless a decision has overlapped with a failing processor.
THEOREM DispatchedOnce == LiveSpec => []DispatchedOnlyWhenIdle
<1>1. LiveInv => DispatchedOnlyWhenIdle
  BY DEF LiveInv, DecisionInv
<1> QED
  BY <1>1, LiveInvariant, PTL

-----------------------------------------------------------------------------
(* The life of a run.                                                      *)

\* What the pivots know of the reviewer's rejections.
RejectedInv ==
    \A k \in Root :
        /\ broker[k] = "rejected" <=> snapPivots[k] = "rejected"
        /\ broker[k] = "rejected" => saved.pivots[k] = "rejected"
        /\ saved.pivots[k] = "rejected" => decided[k] = "rejected"

\* Without faults the status says where the run is.
StatusInv ==
    ~overlap /\ faults = 0 =>
        /\ saved.status = "awaiting_review" <=> hasPendingReview(saved.pivots)
        /\ dispatched > 0 => saved.status = "queued"

\* Every step keeps what the pivots know of the rejections.
LEMMA RejectionsKept ==
    ASSUME TypeOK, RejectedInv, Step
    PROVE  RejectedInv'
<1>0. /\ broker \in Pivots /\ snapPivots \in Pivots /\ saved.pivots \in Pivots
      /\ decided \in [Root -> {"none", "accepted", "rejected"}]
  BY DEF TypeOK, Snapshot
<1>1. \A k \in Root :
         /\ broker[k] = "rejected" <=> snapPivots[k] = "rejected"
         /\ broker[k] = "rejected" => saved.pivots[k] = "rejected"
         /\ saved.pivots[k] = "rejected" => decided[k] = "rejected"
  BY DEF RejectedInv
<1>2. CASE Deliver
  BY <1>1, <1>2 DEF Deliver, RejectedInv
<1>3. CASE Moved
  <2>1. /\ UNCHANGED <<snapPivots, saved, decided>>
        /\ \A j \in Root : broker'[j] # broker[j] =>
              broker[j] = "none" /\ broker'[j] \in {"pending_review", "auto_accepted"}
    BY <1>3 DEF Moved, Answers
  <2>2. \A j \in Root : broker'[j] = "rejected" <=> broker[j] = "rejected"
    BY <2>1
  <2> QED
    BY <1>1, <2>1, <2>2 DEF RejectedInv
<1>4. ASSUME UNCHANGED <<broker, snapPivots, saved, decided>> PROVE RejectedInv'
  BY <1>1, <1>4 DEF RejectedInv
<1>5. ASSUME NEW k \in Root, NEW c, Discard(k, c) PROVE RejectedInv'
  BY <1>4, <1>5 DEF Discard
<1>6. \A k \in Root : Hydrated[k] = "rejected" <=> broker[k] = "rejected"
  BY HydratedFields, DiscardStatusTypes
<1>7. CASE WritesHydrated
  <2>1. UNCHANGED <<broker, decided>> /\ saved'.pivots = Hydrated /\ snapPivots' = Hydrated
    BY <1>7 DEF WritesHydrated, Settled, Saves
  <2> HIDE DEF Hydrated
  <2> QED
    BY <1>1, <1>6, <2>1 DEF RejectedInv
<1>8. CASE WritesBroker
  BY <1>1, <1>8 DEF WritesBroker, Settled, Saves, RejectedInv
<1>9. CASE WritesSnapshot
  BY <1>1, <1>9 DEF WritesSnapshot, Settled, Saves, RejectedInv
<1>10. CASE WritesNothing
  <2>1. /\ UNCHANGED <<broker, decided, saved>>
        /\ snapPivots' = Hydrated \/ snapPivots' = snapPivots
    BY <1>10 DEF WritesNothing, Settled
  <2> HIDE DEF Hydrated
  <2> QED
    BY <1>1, <1>6, <2>1 DEF RejectedInv
<1>11. ASSUME NEW k \in Root, NEW d \in {"accepted", "rejected"},
              DecidePivot(k, d), Decides(k, d)
       PROVE  RejectedInv'
  <2>1. /\ UNCHANGED <<broker, snapPivots>>
        /\ saved.pivots[k] = "pending_review"
        /\ decided' = [decided EXCEPT ![k] = d]
        /\ saved'.pivots = [saved.pivots EXCEPT ![k] = d]
    BY <1>11 DEF DecidePivot, Decides
  <2>2. \A j \in Root : /\ decided'[j] = IF j = k THEN d ELSE decided[j]
                        /\ saved'.pivots[j] = IF j = k THEN d ELSE saved.pivots[j]
    BY <1>0, <2>1 DEF Pivots
  <2> QED
    BY <1>1, <2>1, <2>2 DEF RejectedInv
<1>12. CASE Reexecute
  BY <1>4, <1>12 DEF Reexecute
<1>20. CASE RefuseClaim
  BY <1>4, <1>20 DEF RefuseClaim
<1>13. CASE UNCHANGED vars
  BY <1>4, <1>13 DEF vars, runVars
<1> QED
  BY <1>2, <1>3, <1>5, <1>7, <1>8, <1>9, <1>10, <1>11, <1>12, <1>13, <1>20 DEF Step

\* A fault is counted.
LEMMA FaultsCount ==
    ASSUME TypeOK, Faults
    PROVE  faults' = faults + 1 /\ faults' > 0
<1>1. faults \in Nat BY LiveAssumption DEF TypeOK
<1>2. faults' = faults + 1
  BY DEF Faults, NodeError, CheckpointError, PersistArtifactFailure, HandlePanic, Crash,
         RefuseClaim, Fault
<1> QED BY <1>1, <1>2

\* Every step keeps the status in line.
LEMMA StatusKept ==
    ASSUME LiveInv, LiveInv', StatusInv, [LiveNext]_vars
    PROVE  StatusInv'
<1> SUFFICES ASSUME ~overlap', faults' = 0
             PROVE  /\ saved'.status = "awaiting_review" <=> hasPendingReview(saved'.pivots)
                    /\ dispatched' > 0 => saved'.status = "queued"
  BY DEF StatusInv
<1>0. TypeOK /\ dispatched \in Nat /\ faults \in Nat /\ DispatchedOnlyWhenIdle
  BY LiveAssumption DEF LiveInv, TypeOK, DecisionInv
<1>1. ASSUME UNCHANGED <<saved, dispatched, overlap, faults>>
      PROVE  /\ saved'.status = "awaiting_review" <=> hasPendingReview(saved'.pivots)
             /\ dispatched' > 0 => saved'.status = "queued"
  BY <1>1 DEF StatusInv
<1>2. ASSUME overlap' = overlap, faults' = faults
      PROVE  /\ saved.status = "awaiting_review" <=> hasPendingReview(saved.pivots)
             /\ dispatched > 0 => saved.status = "queued"
             /\ dispatched > 0 => dispatched = 1 /\ activity = "idle"
             /\ activity # "failed"
  BY <1>2 DEF StatusInv, DispatchedOnlyWhenIdle, LiveInv, DecisionInv
<1>3. CASE Deliver
  <2>1. UNCHANGED <<saved, overlap, faults>> /\ dispatched > 0 /\ dispatched' = dispatched - 1
    BY <1>3 DEF Deliver
  <2>2. dispatched' = 0 BY <1>2, <2>1
  <2> QED BY <1>2, <2>1, <2>2
<1>4. CASE EngineStep BY <1>1, <1>4 DEF EngineStep, runVars
<1>5. CASE AfterCheckpoint
  <2>1. UNCHANGED <<dispatched, overlap, faults>> /\ activity = "checkpoint"
    BY <1>5 DEF AfterCheckpoint
  <2>2. Hydrated \in Pivots /\ CheckpointStatus(Hydrated) \in RunStatus
    BY <1>0, HydratedFields DEF CheckpointStatus, RunStatus
  <2>3. saved'.pivots = Hydrated /\ saved'.status = CheckpointStatus(Hydrated)
    BY <1>0, <1>5, <2>2, SaveEffect DEF AfterCheckpoint, Saves
  <2>4. ~(dispatched' > 0) BY <1>0, <1>2, <2>1
  <2> HIDE DEF Hydrated
  <2> QED BY <2>3, <2>4 DEF CheckpointStatus
<1>6. CASE CompleteRun
  <2>1. UNCHANGED <<dispatched, overlap, faults>> /\ activity = "finished"
    BY <1>6 DEF CompleteRun
  <2>2. saved'.status = "completed" BY <1>6 DEF CompleteRun, Save
  <2>3. ~hasPendingReview(saved'.pivots)
    BY <2>2 DEF LiveInv, ReviewedBeforeCompletion
  <2>4. ~(dispatched' > 0) BY <1>0, <1>2, <2>1
  <2> QED BY <2>2, <2>3, <2>4
<1>7. CASE PersistPipelineFailure
  <2>1. UNCHANGED <<overlap, faults>> /\ activity = "failed"
    BY <1>7 DEF PersistPipelineFailure
  <2> QED BY <1>2, <2>1
<1>8. CASE Review
  <2>1. PICK k \in Root, d \in {"accepted", "rejected"} : DecidePivot(k, d)
    BY <1>8 DEF Review
  <2> DEFINE pivots == [saved.pivots EXCEPT ![k] = d]
  <2>2. saved \in Snapshot /\ saved.pivots \in Pivots BY <1>0 DEF TypeOK, Snapshot
  <2>3. /\ saved' = DecidedSnapshot(k, d) /\ saved.pivots[k] = "pending_review"
        /\ dispatched' = IF hasPendingReview(saved'.pivots) THEN dispatched ELSE dispatched + 1
        /\ overlap' = (overlap \/ activity # "idle") /\ faults' = faults
    BY <2>1 DEF DecidePivot
  <2>4. /\ saved'.pivots = pivots
        /\ saved'.status = IF hasPendingReview(pivots) THEN "awaiting_review"
                           ELSE IF saved.status = "awaiting_review" THEN "queued"
                           ELSE saved.status
    BY <2>2, <2>3 DEF DecidedSnapshot, Snapshot
  <2>5. hasPendingReview(saved.pivots) BY <2>2, <2>3 DEF hasPendingReview, Pivots
  <2>6. ~overlap /\ faults = 0 BY <1>0, <2>3 DEF TypeOK
  <2>7. saved.status = "awaiting_review" /\ dispatched = 0
    BY <1>0, <2>5, <2>6 DEF StatusInv, DispatchedOnlyWhenIdle
  <2> HIDE DEF pivots
  <2> QED BY <2>3, <2>4, <2>7
<1>9. CASE Judgements
  BY <1>1, <1>9 DEF Judgements, Approve, Discard, Follow, runVars
<1>10. CASE Faults BY <1>0, <1>10, FaultsCount
<1>11. CASE Reexecute BY <1>0, <1>11 DEF Reexecute
<1>12. CASE UNCHANGED vars BY <1>1, <1>12 DEF vars, runVars
<1> QED
  BY <1>3, <1>4, <1>5, <1>6, <1>7, <1>8, <1>9, <1>10, <1>11, <1>12 DEF LiveNext, Process

\* A review is pending, seen as a set.
LEMMA PendingIsOpen ==
    ASSUME NEW pivots \in Pivots
    PROVE  hasPendingReview(pivots) <=> PendingReviews(pivots) # {}
BY DEF hasPendingReview, PendingReviews, Pivots

\* A processor nobody has overtaken writes the decisions of the store.
LEMMA DecisionsStay ==
    ASSUME LiveInv, RejectedInv, ~overlap, activity # "idle",
           NEW pivots \in {Hydrated, broker, snapPivots}
    PROVE  DecisionsIn(pivots) = DecisionsIn(saved.pivots)
<1> DEFINE Human == {"accepted", "rejected"}
<1>0. TypeOK /\ PivotInv /\ DecisionInv BY DEF LiveInv
<1>1. ASSUME NEW k \in Root, NEW v \in Human
      PROVE  pivots[k] = v <=> saved.pivots[k] = v
  <2>1. Hydrated[k] = v <=> broker[k] = v
    BY <1>0, HydratedFields, DiscardStatusTypes
  <2>2. /\ broker[k] = v <=> snapPivots[k] = v
        /\ broker[k] = v => saved.pivots[k] = v
        /\ saved.pivots[k] = v => decided[k] = v
    BY <1>0, <1>1 DEF PivotInv, RejectedInv
  <2>3. decided[k] = v => broker[k] = v BY <1>0 DEF DecisionInv
  <2> HIDE DEF Hydrated
  <2> QED BY <2>1, <2>2, <2>3
<1>2. ASSUME NEW k \in Root
      PROVE  (IF pivots[k] \in Human THEN pivots[k] ELSE "none")
               = (IF saved.pivots[k] \in Human THEN saved.pivots[k] ELSE "none")
  <2>1. CASE pivots[k] \in Human BY <1>1, <2>1
  <2>2. CASE saved.pivots[k] \in Human BY <1>1, <2>2
  <2>3. CASE pivots[k] \notin Human /\ saved.pivots[k] \notin Human BY <2>3
  <2> QED BY <2>1, <2>2, <2>3
<1> QED BY <1>2 DEF DecisionsIn

\* A write of the processor is one of the run's life.
LEMMA WriteMaps ==
    ASSUME LiveInv, RejectedInv, activity # "idle", UNCHANGED overlap,
           NEW pivots \in {Hydrated, broker, snapPivots}, saved'.pivots = pivots,
           NEW state, saved'.status = state
    PROVE  Lifecycle!Write(state)
<1>1. overlap \/ DecisionsIn(saved'.pivots) = DecisionsIn(saved.pivots) BY DecisionsStay
<1>2. PendingReviews(saved'.pivots) \subseteq Root BY DEF PendingReviews
<1> QED BY <1>1, <1>2 DEF Lifecycle!Write

\* Every step of a live run is a step of the run's life, or none that is seen.
LEMMA LifecycleStep ==
    ASSUME LiveInv, LiveInv', RejectedInv, StatusInv, [LiveNext]_vars
    PROVE  [Lifecycle!Next]_Lifecycle!vars
<1>0. /\ TypeOK /\ DispatchedOnlyWhenIdle /\ faults \in Nat /\ saved \in Snapshot
      /\ saved.pivots \in Pivots /\ Hydrated \in Pivots /\ broker \in Pivots
      /\ snapPivots \in Pivots /\ overlap \in BOOLEAN
      /\ activity = "failed" => faults > 0
      /\ overlap => faults > 0
      /\ EngineInv
  <2>1. TypeOK /\ DecisionInv /\ EngineInv BY DEF LiveInv
  <2>2. faults \in Nat BY <2>1, LiveAssumption DEF TypeOK
  <2>3. faults = 0 \/ faults > 0 BY <2>2
  <2> QED BY <2>1, <2>2, <2>3, HydratedFields DEF TypeOK, Snapshot, DecisionInv
<1>1. ASSUME UNCHANGED <<saved, faults, overlap>>, activity' = "idle" <=> activity = "idle"
      PROVE  UNCHANGED Lifecycle!vars
  BY <1>1 DEF Lifecycle!vars
<1>2. overlap \/ PendingReviews(saved.pivots) = {} \/ activity \in {"idle", "failed"}
  BY <1>0, PendingIsOpen DEF DispatchedOnlyWhenIdle
<1>3. CASE Deliver
  <2>1. /\ activity = "idle" /\ activity' = "loop" /\ dispatched > 0
        /\ UNCHANGED <<saved, faults, overlap>>
    BY <1>3 DEF Deliver, Resume
  <2>2. \/ overlap
        \/ /\ PendingReviews(saved.pivots) = {}
           /\ faults > 0 \/ saved.status = "queued"
    BY <1>0, <2>1, PendingIsOpen DEF DispatchedOnlyWhenIdle, StatusInv
  <2>3. Lifecycle!Start BY <2>1, <2>2 DEF Lifecycle!Start
  <2> QED BY <2>3 DEF Lifecycle!Next
<1>4. CASE EngineStep
  <2>1. activity # "idle" /\ activity' # "idle"
    BY <1>4 DEF EngineStep, At, StartWave, SkipEmptyWave, CollectorReturns,
           AllCollectorsReturned, AdvanceFrontier, Reconsider, AdvanceExtraWave,
           FilterOrExport, NodeReturns, Finish, NodesFrom, PhaseDone
  <2> QED BY <1>1, <1>4, <2>1 DEF EngineStep, runVars
<1>5. CASE AfterCheckpoint
  <2>1. /\ UNCHANGED <<overlap, faults>> /\ activity = "checkpoint"
        /\ activity' = IF hasPendingReview(Hydrated) THEN "idle" ELSE "loop"
    BY <1>5 DEF AfterCheckpoint
  <2>2. saved'.pivots = Hydrated /\ saved'.status = CheckpointStatus(Hydrated)
    BY <1>5 DEF AfterCheckpoint, Save
  <2> DEFINE open == PendingReviews(saved'.pivots)
             state == IF open = {} THEN "running" ELSE "awaiting_review"
  <2>3. hasPendingReview(Hydrated) <=> open # {} BY <1>0, <2>2, PendingIsOpen
  <2>4. saved'.status = state
    <3> HIDE DEF open, Hydrated
    <3> QED BY <2>2, <2>3 DEF CheckpointStatus
  <2>5. Lifecycle!Write(state)
    <3> HIDE DEF state
    <3> QED BY <2>1, <2>2, <2>4, WriteMaps
  <2>6. (activity' # "idle") = (open = {})
    <3> HIDE DEF open, Hydrated
    <3> QED BY <2>1, <2>3
  <2>7. overlap \/ PendingReviews(saved.pivots) = {} BY <1>2, <2>1
  <2>8. Lifecycle!Checkpoint BY <2>1, <2>5, <2>6, <2>7 DEF Lifecycle!Checkpoint
  <2> QED BY <2>8 DEF Lifecycle!Next
<1>6. CASE CompleteRun
  <2>1. UNCHANGED <<overlap, faults>> /\ activity = "finished" /\ activity' = "idle"
    BY <1>6 DEF CompleteRun, Idle
  <2>2. saved'.pivots = Hydrated /\ saved'.status = "completed" BY <1>6 DEF CompleteRun, Save
  <2>3. faults > 0 \/ PendingReviews(saved'.pivots) = {}
    <3>1. faults = 0 => ~hasPendingReview(saved'.pivots)
      BY <2>1, <2>2 DEF LiveInv, ReviewedBeforeCompletion
    <3>2. faults = 0 \/ faults > 0 BY <1>0
    <3>3. saved'.pivots \in Pivots BY <1>0, <2>2
    <3> QED BY <3>1, <3>2, <3>3, PendingIsOpen
  <2>4. Lifecycle!Write("completed") BY <2>1, <2>2, WriteMaps
  <2>5. Lifecycle!Complete BY <2>1, <2>3, <2>4 DEF Lifecycle!Complete
  <2> QED BY <2>5 DEF Lifecycle!Next
<1>7. ASSUME activity # "idle", activity' = "idle", UNCHANGED overlap, faults' > 0,
             NEW pivots \in {broker, snapPivots}, Save(pivots, "failed")
      PROVE  Lifecycle!Next
  <2>1. saved'.pivots = pivots /\ saved'.status = "failed" BY <1>7 DEF Save
  <2>2. Lifecycle!Write("failed") BY <1>7, <2>1, WriteMaps
  <2>3. Lifecycle!Fail BY <1>7, <2>2 DEF Lifecycle!Fail
  <2> QED BY <2>3 DEF Lifecycle!Next
<1>8. CASE PersistPipelineFailure
  BY <1>0, <1>7, <1>8 DEF PersistPipelineFailure, Idle
<1>9. CASE Review
  <2>1. PICK k \in Root, d \in {"accepted", "rejected"} : DecidePivot(k, d)
    BY <1>9 DEF Review
  <2> DEFINE pivots == [saved.pivots EXCEPT ![k] = d]
  <2>2. /\ saved' = DecidedSnapshot(k, d) /\ saved.pivots[k] = "pending_review"
        /\ overlap' = (overlap \/ activity # "idle")
        /\ UNCHANGED <<faults, activity>>
    BY <2>1 DEF DecidePivot
  <2>3. /\ saved'.pivots = pivots
        /\ saved'.status = IF hasPendingReview(pivots) THEN "awaiting_review"
                           ELSE IF saved.status = "awaiting_review" THEN "queued"
                           ELSE saved.status
    BY <1>0, <2>2 DEF DecidedSnapshot, Snapshot
  <2>4. pivots \in Pivots /\ \A j \in Root : pivots[j] = IF j = k THEN d ELSE saved.pivots[j]
    BY <1>0 DEF Pivots, PivotStatus
  <2> HIDE DEF pivots
  <2>5. PendingReviews(saved'.pivots) = PendingReviews(saved.pivots) \ {k}
    BY <2>3, <2>4 DEF PendingReviews
  <2>6. DecisionsIn(saved'.pivots) = [DecisionsIn(saved.pivots) EXCEPT ![k] = d]
    BY <2>3, <2>4 DEF DecisionsIn
  <2>7. k \in PendingReviews(saved.pivots) BY <2>2 DEF PendingReviews
  <2>8. activity # "idle" => faults > 0 BY <1>0, <1>2, <2>7
  <2>9. hasPendingReview(pivots) <=> PendingReviews(saved'.pivots) # {}
    BY <2>3, <2>4, PendingIsOpen
  <2>10. Lifecycle!Decide(k, d)
    BY <2>2, <2>3, <2>5, <2>6, <2>7, <2>8, <2>9 DEF Lifecycle!Decide
  <2> QED BY <2>10 DEF Lifecycle!Next
<1>10. CASE Judgements
  <2>1. /\ activity # "idle" /\ activity' = activity
        /\ UNCHANGED <<saved, faults, overlap>>
    BY <1>10 DEF Judgements, Approve, Discard, Follow, DiscoverRoot, FollowHost, Judging,
           engineVars, runVars
  <2> QED BY <1>1, <2>1
<1>11. CASE Faults
  <2>1. faults' > 0 BY <1>0, <1>11, FaultsCount
  <2>2. ASSUME activity # "idle", UNCHANGED <<saved, overlap>> PROVE Lifecycle!Next
    <3>1. Lifecycle!Stumble BY <2>1, <2>2 DEF Lifecycle!Stumble
    <3> QED BY <3>1 DEF Lifecycle!Next
  <2>3. CASE NodeError BY <2>2, <2>3 DEF NodeError, NodeFails
  <2>4. CASE Crash BY <2>2, <2>4 DEF Crash
  <2>8. CASE RefuseClaim
    <3>1. UNCHANGED <<saved, overlap>> /\ activity' = activity
      BY <2>8 DEF RefuseClaim, engineVars
    <3>2. Lifecycle!Stumble BY <2>1, <3>1 DEF Lifecycle!Stumble
    <3> QED BY <3>2 DEF Lifecycle!Next
  <2>5. CASE PersistArtifactFailure BY <1>7, <2>1, <2>5 DEF PersistArtifactFailure, Idle
  <2>6. CASE HandlePanic BY <1>7, <2>1, <2>6 DEF HandlePanic, Idle
  <2>7. ASSUME NEW kind \in {"save", "project"}, CheckpointError(kind) PROVE Lifecycle!Next
    <3>1. activity = "checkpoint" /\ activity' = "failed" /\ UNCHANGED overlap
      BY <2>7 DEF CheckpointError
    <3>2. CASE kind # "project" BY <2>2, <2>7, <3>1, <3>2 DEF CheckpointError
    <3>3. CASE kind = "project"
      <4> DEFINE open == PendingReviews(saved'.pivots)
                 state == IF open = {} THEN "running" ELSE "awaiting_review"
      <4>1. saved'.pivots = Hydrated /\ saved'.status = CheckpointStatus(Hydrated)
        BY <2>7, <3>3 DEF CheckpointError, Save
      <4>2. hasPendingReview(Hydrated) <=> open # {} BY <1>0, <4>1, PendingIsOpen
      <4>3. saved'.status = state
        <5> HIDE DEF open, Hydrated
        <5> QED BY <4>1, <4>2 DEF CheckpointStatus
      <4>4. Lifecycle!Write(state)
        <5> HIDE DEF state
        <5> QED BY <3>1, <4>1, <4>3, WriteMaps
      <4>5. overlap \/ PendingReviews(saved.pivots) = {} BY <1>2, <3>1
      <4>6. Lifecycle!Checkpoint BY <2>1, <3>1, <4>4, <4>5 DEF Lifecycle!Checkpoint
      <4> QED BY <4>6 DEF Lifecycle!Next
    <3> QED BY <3>2, <3>3
  <2> QED BY <1>11, <2>3, <2>4, <2>5, <2>6, <2>7, <2>8 DEF Faults
<1>12. CASE Reexecute BY <1>1, <1>12 DEF Reexecute, engineVars
<1>13. CASE UNCHANGED vars BY <1>1, <1>13 DEF vars, runVars, engineVars
<1> QED
  BY <1>3, <1>4, <1>5, <1>6, <1>8, <1>9, <1>10, <1>11, <1>12, <1>13 DEF LiveNext, Process

\* The checkpoint store shows the life of a run (RunLifecycle), whatever fails and
\* whenever the reviewer decides.
THEOREM LiveImplementsLifecycle == LiveSpec => ImplementsLifecycle
<1>1. LiveInit => RejectedInv /\ StatusInv /\ Lifecycle!Init
  <2> SUFFICES ASSUME LiveInit PROVE RejectedInv /\ StatusInv /\ Lifecycle!Init
    OBVIOUS
  <2>1. /\ saved.pivots = NoPivots /\ saved.status = "queued" /\ broker = NoPivots
        /\ snapPivots = NoPivots /\ faults = 0 /\ overlap = FALSE /\ activity = "idle"
    BY DEF LiveInit, Init
  <2>2. \A k \in Root : NoPivots[k] = "none" BY DEF NoPivots
  <2>3. ~hasPendingReview(NoPivots) BY DEF NoPivots, hasPendingReview
  <2> HIDE DEF NoPivots
  <2>4. RejectedInv BY <2>1, <2>2 DEF RejectedInv
  <2>5. StatusInv BY <2>1, <2>3 DEF StatusInv
  <2>6. PendingReviews(NoPivots) = {} BY <2>2 DEF PendingReviews
  <2>7. DecisionsIn(NoPivots) = [k \in Root |-> "none"] BY <2>2 DEF DecisionsIn
  <2>8. Lifecycle!Init BY <2>1, <2>6, <2>7 DEF Lifecycle!Init
  <2> QED BY <2>4, <2>5, <2>8
<1>2. LiveInv /\ LiveInv' /\ RejectedInv /\ StatusInv /\ [LiveNext]_vars
         => RejectedInv' /\ StatusInv'
  <2> SUFFICES ASSUME LiveInv, LiveInv', RejectedInv, StatusInv, [LiveNext]_vars
               PROVE  RejectedInv' /\ StatusInv'
    OBVIOUS
  <2>1. TypeOK /\ EngineInv /\ FrontierSound(saved.ctx)
    BY DEF LiveInv, SavedInv, Sound
  <2>2. Step BY <2>1, Steps
  <2> QED BY <2>1, <2>2, RejectionsKept, StatusKept
<1>3. LiveInv /\ LiveInv' /\ RejectedInv /\ StatusInv /\ [LiveNext]_vars
         => [Lifecycle!Next]_Lifecycle!vars
  BY LifecycleStep
<1> QED
  BY <1>1, <1>2, <1>3, LiveInvariant, PTL DEF LiveSpec, ImplementsLifecycle, Lifecycle!Spec

=============================================================================
