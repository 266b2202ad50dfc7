---------------------------- MODULE PipelineEngine ----------------------------
(***************************************************************************)
(* dag.Engine: one call of Resume, from the frontier of submitted seeds to *)
(* the exporters.  Collectors run concurrently within a wave; enrichers,   *)
(* expanders, reconsiderers, filters and exporters run one at a time, in   *)
(* order.  Spec is the command line's Run: no checkpoint callback and no   *)
(* promotion handler.  Module LiveRun puts the live service around the     *)
(* same actions.                                                           *)
(***************************************************************************)
EXTENDS FrontierOps

CONSTANTS
    Submission,     \* possible values of PipelineContext.Seeds at creation
    Host,           \* keys of PTR hostnames: only enqueued, never promoted
    Collector,      \* the collectors
    Nodes           \* how many sequential nodes each phase has

WavePhase == {"collection_wave", "extra_wave"}
NodePhase == WavePhase \cup {"reconsideration", "filtering", "exporting"}
Phase == NodePhase \cup {"advance_frontier", "advance_extra_wave", "completed"}

ASSUME EngineAssumption ==
    /\ Submission \subseteq Slice
    /\ Host \subseteq Key
    /\ IsFiniteSet(Collector)
    /\ Nodes \in [NodePhase -> Nat]

VARIABLES
    pCtx,       \* the scheduler fields of the PipelineContext
    progress,   \* RunProgress
    activity,   \* where Resume is: see Activity
    working,    \* collectors of the current wave that have not returned
    node,       \* the sequential node that runs, counted from 1
    ran,        \* history: the wave numbers in which a key was collected
    late        \* history: keys first seen while the extra wave was running

engineVars == <<pCtx, progress, activity, working, node, ran, late>>

\* "idle": not in Resume; "loop": at the switch on the phase; "collect",
\* "nodes": inside runWave or a sequential stage; "checkpoint": in the
\* callback; the rest are the ways Resume returns.
Activity == {"idle", "loop", "collect", "nodes", "checkpoint",
             "failed", "finished"}

Progress == [initialized : BOOLEAN, wave : Nat, phase : Phase]

\* A context that has only been created: seeds, and no scheduler state yet.
\* The phase of a zero RunProgress is never looked at.
NewContext(submitted) ==
    [seeds |-> submitted, collection |-> NoSeeds, pending |-> NoSeeds,
     known |-> KeysOf(submitted), candidates |-> NoCandidates,
     depth |-> 0, maxDepth |-> 0, reserved |-> FALSE, inProgress |-> FALSE]
NewProgress == [initialized |-> FALSE, wave |-> 0, phase |-> "collection_wave"]

EngineTypeOK ==
    /\ pCtx \in Frontier
    /\ progress \in Progress
    /\ activity \in Activity
    /\ working \in SUBSET Collector
    /\ node \in Nat
    /\ ran \in [Key -> SUBSET Nat]
    /\ late \in SUBSET Key

-----------------------------------------------------------------------------
(* Entering Resume with the context c and the progress p.                  *)

ResumeContext(c, p) ==
    IF p.initialized THEN c ELSE InitializeSeedFrontier(c.seeds)
ResumeProgress(p) ==
    IF p.initialized THEN p
    ELSE [initialized |-> TRUE, wave |-> 0, phase |-> "collection_wave"]

Resume(c, p) ==
    /\ activity = "idle"
    /\ pCtx' = ResumeContext(c, p)
    /\ progress' = ResumeProgress(p)
    /\ activity' = "loop"
    /\ UNCHANGED <<working, node, ran, late>>

-----------------------------------------------------------------------------
(* The phases.                                                             *)

At(phases) == activity = "loop" /\ progress.phase \in phases

PhaseAfter_StaysInReconsideration(phase) ==
    CASE phase = "collection_wave" -> "advance_frontier"
      [] phase = "reconsideration" -> "reconsideration"
      [] phase = "extra_wave"      -> "filtering"
      [] phase = "filtering"       -> "exporting"
      [] phase = "exporting"       -> "completed"

PhaseAfter_WrongName(phase) ==
    CASE phase = "collection_wave" -> "advance_frontier"
      [] phase = "reconsideration" -> "advance_extra_wave"
      [] phase = "extra_wave"      -> "filter"
      [] phase = "filtering"       -> "exporting"
      [] phase = "exporting"       -> "completed"

PhaseAfter(phase) ==
    CASE phase = "collection_wave" -> "advance_frontier"
      [] phase = "reconsideration" -> "advance_extra_wave"
      [] phase = "extra_wave"      -> "filtering"
      [] phase = "filtering"       -> "exporting"
      [] phase = "exporting"       -> "completed"

\* Waves and the reconsideration end in a checkpoint, the other phases in the
\* next turn of the loop.
PhaseDone ==
    /\ progress' = [progress EXCEPT !.phase = PhaseAfter(progress.phase)]
    /\ activity' = IF progress.phase \in {"filtering", "exporting"}
                   THEN "loop" ELSE "checkpoint"
    /\ node' = 0

NodesFrom(i) ==
    IF i <= Nodes[progress.phase]
    THEN activity' = "nodes" /\ node' = i /\ UNCHANGED progress
    ELSE PhaseDone

StartWave ==
    /\ At(WavePhase)
    /\ CollectionSeeds(pCtx) # {}
    /\ activity' = "collect"
    /\ working' = Collector
    /\ ran' = [k \in Key |-> IF k \in CollectionSeeds(pCtx)
                             THEN ran[k] \cup {progress.wave} ELSE ran[k]]
    /\ UNCHANGED <<pCtx, progress, node, late>>

SkipEmptyWave ==
    /\ At(WavePhase)
    /\ CollectionSeeds(pCtx) = {}
    /\ PhaseDone
    /\ UNCHANGED <<pCtx, working, ran, late>>

\* A collector returns, fails or panics: the error is only recorded.
CollectorReturns(c) ==
    /\ activity = "collect"
    /\ c \in working
    /\ working' = working \ {c}
    /\ UNCHANGED <<pCtx, progress, activity, node, ran, late>>

AllCollectorsReturned ==
    /\ activity = "collect"
    /\ working = {}
    /\ NodesFrom(1)
    /\ UNCHANGED <<pCtx, working, ran, late>>

AdvanceFrontier_KeepsWave ==
    /\ At({"advance_frontier"})
    /\ pCtx' = AdvanceSeedFrontier(pCtx)
    /\ progress' = IF AdvanceOpensWave(pCtx)
                   THEN [progress EXCEPT !.phase = "collection_wave"]
                   ELSE [progress EXCEPT !.phase = "reconsideration"]
    /\ UNCHANGED <<activity, working, node, ran, late>>

AdvanceFrontier ==
    /\ At({"advance_frontier"})
    /\ pCtx' = AdvanceSeedFrontier(pCtx)
    /\ progress' = IF AdvanceOpensWave(pCtx)
                   THEN [progress EXCEPT !.wave = @ + 1,
                                         !.phase = "collection_wave"]
                   ELSE [progress EXCEPT !.phase = "reconsideration"]
    /\ UNCHANGED <<activity, working, node, ran, late>>

Reconsider ==
    /\ At({"reconsideration"})
    /\ pCtx' = IF Nodes["reconsideration"] > 0
               THEN ReserveExtraCollectionWave(pCtx) ELSE pCtx
    /\ NodesFrom(1)
    /\ UNCHANGED <<working, ran, late>>

AdvanceExtraWave_NeverOpens ==
    /\ At({"advance_extra_wave"})
    /\ pCtx' = pCtx
    /\ progress' = [progress EXCEPT !.phase = "filtering"]
    /\ UNCHANGED <<activity, working, node, ran, late>>

AdvanceExtraWave ==
    /\ At({"advance_extra_wave"})
    /\ pCtx' = AdvanceSeedFrontier(pCtx)
    /\ progress' = IF AdvanceOpensWave(pCtx)
                   THEN [progress EXCEPT !.wave = @ + 1,
                                         !.phase = "extra_wave"]
                   ELSE [progress EXCEPT !.phase = "filtering"]
    /\ UNCHANGED <<activity, working, node, ran, late>>

FilterOrExport ==
    /\ At({"filtering", "exporting"})
    /\ NodesFrom(1)
    /\ UNCHANGED <<pCtx, working, ran, late>>

NodeReturns ==
    /\ activity = "nodes"
    /\ NodesFrom(node + 1)
    /\ UNCHANGED <<pCtx, working, ran, late>>

\* A sequential node's error ends Resume; the phase stays where it is.
NodeFails ==
    /\ activity = "nodes"
    /\ activity' = "failed"
    /\ node' = 0
    /\ UNCHANGED <<pCtx, progress, working, ran, late>>

Finish ==
    /\ At({"completed"})
    /\ activity' = "finished"
    /\ UNCHANGED <<pCtx, progress, working, node, ran, late>>

CheckpointReturns ==
    /\ activity = "checkpoint"
    /\ activity' = "loop"
    /\ UNCHANGED <<pCtx, progress, working, node, ran, late>>

-----------------------------------------------------------------------------
(* What running nodes add.  Every caller of PromoteSeedCandidate presents  *)
(* evidence a judge has reasoned about.                                    *)

Judging ==
    \/ activity = "collect" /\ working # {}
    \/ activity = "nodes" /\ progress.phase \in WavePhase \cup {"reconsideration"}

ReasonedOffer == [own |-> {}, sig |-> {}, seedStrong |-> FALSE,
                  sigStrong |-> FALSE, reasoned |-> TRUE]

NoteLate == late' = late \cup (IF pCtx.inProgress THEN pCtx'.known \ pCtx.known
                               ELSE {})

DiscoverRoot(k, decision) ==
    /\ Judging
    /\ pCtx' = PromoteSeedCandidate(pCtx, k, ReasonedOffer, decision)
    /\ NoteLate
    /\ UNCHANGED <<progress, activity, working, node, ran>>

\* The IP enricher follows PTR hostnames inside a seed's own scope.
FollowHost(h) ==
    /\ activity = "nodes" /\ progress.phase \in WavePhase
    /\ pCtx' = EnqueueSeed(pCtx, h, {})
    /\ NoteLate
    /\ UNCHANGED <<progress, activity, working, node, ran>>

-----------------------------------------------------------------------------
(* The command line: Run.                                                  *)

Init ==
    /\ \E submitted \in Submission : pCtx = NewContext(submitted)
    /\ progress = NewProgress
    /\ activity = "idle"
    /\ working = {}
    /\ node = 0
    /\ ran = [k \in Key |-> {}]
    /\ late = {}

Control ==
    \/ Resume(pCtx, progress)
    \/ StartWave \/ SkipEmptyWave
    \/ \E c \in Collector : CollectorReturns(c)
    \/ AllCollectorsReturned
    \/ AdvanceFrontier \/ Reconsider \/ AdvanceExtraWave \/ FilterOrExport
    \/ NodeReturns \/ NodeFails
    \/ CheckpointReturns
    \/ Finish

Discoveries ==
    \/ \E k \in Key \ Host : DiscoverRoot(k, "accepted")
    \/ \E h \in Host : FollowHost(h)

Next == Control \/ Discoveries

\* Every stage returns (the collectors and enrichers bound their own network
\* calls) and Go's scheduler runs a goroutine that can run.
Spec == Init /\ [][Next]_engineVars /\ WF_engineVars(Control)

-----------------------------------------------------------------------------
(* Properties.                                                             *)

\* The wave number that Resume counts and the depth that the scheduler counts
\* are two counters in two objects: one is the other plus the extra wave.  The
\* run therefore never executes more than maxDepth + 2 waves.
WaveMatchesDepth ==
    progress.initialized =>
        /\ progress.wave = pCtx.depth + (IF pCtx.inProgress THEN 1 ELSE 0)
        /\ progress.wave <= maxCollectionDepth + 1
        /\ progress.phase = "extra_wave" => pCtx.inProgress

\* A key is collected in one wave only, however often it is found again and
\* whatever is resumed; a repeated wave has the number it had before.
CollectedInOneWave ==
    \A k \in Key : \A v, w \in ran[k] : v = w

\* When the run reaches its filters every seed has been collected, except those
\* first seen in the extra wave, which are recorded only.  No seed is still
\* waiting for a wave.
NoScheduledSeedLost ==
    progress.phase \in {"filtering", "exporting", "completed"} =>
        /\ KeysOf(pCtx.pending) = {}
        /\ \A k \in pCtx.known : ran[k] # {} \/ k \in late

\* Every call of Resume returns: discoveries can prolong a run only as far as
\* the frontier's bounds allow.
ResumeReturns == <>(activity \in {"failed", "finished"})

=============================================================================
