------------------------- MODULE PipelineEngineProofs -------------------------
(***************************************************************************)
(* For any keys, submissions, collectors and nodes per phase: the engine   *)
(* collects every key in one wave, loses no scheduled seed and runs at     *)
(* most maxDepth + 2 waves.  The invariants are stated for a context f and *)
(* a progress p, so that module LiveRunProofs can also state them for the  *)
(* pair a snapshot holds; what a step of the engine does to them is shown  *)
(* here once for both.                                                     *)
(***************************************************************************)
EXTENDS PipelineEngine, FrontierOpsProofs, TLAPS

Scheduled(f) == KeysOf(f.pending)
Late == {"filtering", "exporting", "completed"}

\* The frontier of the scheduler: what is scheduled is known and in one slice
\* only, and some later advance may still take it.
FrontierSound(f) ==
    /\ f.known = KeysOf(f.seeds)
    /\ CollectionSeeds(f) \subseteq f.known /\ Scheduled(f) \subseteq f.known
    /\ \A k \in CollectionSeeds(f) : k \notin Scheduled(f)
    /\ f.inProgress => ~f.reserved
    /\ Scheduled(f) # {} => ~f.inProgress /\ (f.reserved \/ f.depth < f.maxDepth)
    /\ f.depth <= f.maxDepth

\* Where the engine is in the frontier.  With a reconsiderer the extra wave is
\* reserved when the engine reaches its advance; without one nothing is
\* scheduled there.
Position(f, p) ==
    IF p.initialized
    THEN /\ f.maxDepth = maxCollectionDepth
         /\ p.wave = f.depth + (IF f.inProgress THEN 1 ELSE 0)
         /\ p.phase \in {"collection_wave", "advance_frontier"} =>
               ~f.inProgress /\ ~f.reserved
         /\ p.phase = "reconsideration" =>
               /\ ~f.inProgress
               /\ Nodes["reconsideration"] = 0 => Scheduled(f) = {}
         /\ p.phase = "advance_extra_wave" =>
               /\ ~f.inProgress
               /\ IF Nodes["reconsideration"] = 0 THEN Scheduled(f) = {} ELSE f.reserved
         /\ p.phase = "extra_wave" => f.inProgress
    ELSE p.phase = "collection_wave"

\* Where Resume is in its phase.
ActivityInv ==
    /\ activity # "idle" => progress.initialized
    /\ activity = "collect" => progress.phase \in WavePhase
    /\ activity = "nodes" => progress.phase \in NodePhase
    /\ activity = "nodes" /\ progress.phase = "reconsideration" =>
          Nodes["reconsideration"] # 0 /\ pCtx.reserved
    /\ activity = "checkpoint" =>
          progress.phase \in {"advance_frontier", "advance_extra_wave", "filtering"}
    /\ activity = "checkpoint" /\ progress.phase = "filtering" => pCtx.inProgress
    /\ activity = "finished" => progress.phase = "completed"
    /\ \/ activity = "collect"
       \/ activity = "nodes" /\ progress.phase \in WavePhase
       => \A k \in CollectionSeeds(pCtx) : ran[k] # {}

\* The waves r[k] a key was collected in are the one its slice says, even when
\* that wave has been interrupted and will be repeated.
History(f, p, r) ==
    \A k \in Key :
        IF p.initialized
        THEN /\ k \in CollectionSeeds(f) => r[k] \subseteq {p.wave}
             /\ k \in Scheduled(f) => r[k] \subseteq {p.wave + 1}
             /\ k \notin f.known => r[k] = {}
        ELSE /\ k \in KeysOf(f.seeds) => r[k] \subseteq {0}
             /\ k \notin KeysOf(f.seeds) => r[k] = {}

\* Every seed has been collected, or will be, or came in the extra wave.
Covered(f, p, r, l) ==
    p.initialized =>
        \A k \in f.known : \/ r[k] # {}
                           \/ k \in l
                           \/ k \in Scheduled(f)
                           \/ k \in CollectionSeeds(f) /\ p.phase \in WavePhase

\* Nothing is scheduled any more when the filters run.
NothingLeft(f, p) == p.phase \in Late => Scheduled(f) = {}

Sound(f, p, r, l) ==
    FrontierSound(f) /\ Position(f, p) /\ History(f, p, r) /\ Covered(f, p, r, l)

EngineInv == /\ EngineTypeOK /\ Sound(pCtx, progress, ran, late) /\ ActivityInv
             /\ CollectedInOneWave

\* A step of the engine other than its entry, or a discovery.
EngineMove ==
    \/ StartWave \/ SkipEmptyWave
    \/ \E c \in Collector : CollectorReturns(c)
    \/ AllCollectorsReturned
    \/ AdvanceFrontier \/ Reconsider \/ AdvanceExtraWave \/ FilterOrExport
    \/ NodeReturns \/ NodeFails
    \/ CheckpointReturns
    \/ Finish
    \/ \E k \in Key : \E d : DiscoverRoot(k, d)
    \/ \E h \in Host : FollowHost(h)

-----------------------------------------------------------------------------
(* The end of a phase, and types.                                          *)

\* Where a phase that is done leads.
PhaseEnded ==
    /\ progress' \in Progress
    /\ progress'.wave = progress.wave /\ progress'.initialized = progress.initialized
    /\ \/ /\ progress.phase = "collection_wave"
          /\ progress'.phase = "advance_frontier" /\ activity' = "checkpoint"
       \/ /\ progress.phase = "reconsideration"
          /\ progress'.phase = "advance_extra_wave" /\ activity' = "checkpoint"
       \/ /\ progress.phase = "extra_wave"
          /\ progress'.phase = "filtering" /\ activity' = "checkpoint"
       \/ /\ progress.phase = "filtering"
          /\ progress'.phase = "exporting" /\ activity' = "loop"
       \/ /\ progress.phase = "exporting"
          /\ progress'.phase = "completed" /\ activity' = "loop"
    /\ node' \in Nat

\* Its next node, or the end of the phase.
NextNode(i) ==
    \/ /\ i <= Nodes[progress.phase]
       /\ activity' = "nodes" /\ node' = i /\ progress' = progress
    \/ i > Nodes[progress.phase] /\ PhaseEnded

\* PhaseDone ends the phase.
LEMMA PhaseDoneEnds ==
    ASSUME progress \in Progress, progress.phase \in NodePhase, PhaseDone
    PROVE  PhaseEnded
<1>1. /\ progress' = [progress EXCEPT !.phase = PhaseAfter(progress.phase)]
      /\ activity' = IF progress.phase \in {"filtering", "exporting"}
                     THEN "loop" ELSE "checkpoint"
      /\ node' = 0
  BY DEF PhaseDone
<1> USE <1>1 DEF PhaseAfter, PhaseEnded, Progress, Phase, NodePhase, WavePhase
<1>2. CASE progress.phase = "collection_wave"
  BY <1>2
<1>3. CASE progress.phase = "reconsideration"
  BY <1>3
<1>4. CASE progress.phase = "extra_wave"
  BY <1>4
<1>5. CASE progress.phase = "filtering"
  BY <1>5
<1>6. CASE progress.phase = "exporting"
  BY <1>6
<1> QED
  BY <1>2, <1>3, <1>4, <1>5, <1>6

\* NodesFrom starts a node or ends the phase.
LEMMA NodesFromNext ==
    ASSUME progress \in Progress, progress.phase \in NodePhase, NEW i \in Nat, NodesFrom(i)
    PROVE  NextNode(i)
<1>1. Nodes[progress.phase] \in Nat
  BY EngineAssumption
<1> QED
  BY <1>1, PhaseDoneEnds DEF NodesFrom, NextNode

\* Advancing counts a wave and goes to the phase of the wave, or goes on.
Advanced(wave, next) ==
    /\ progress' \in Progress
    /\ progress'.initialized = progress.initialized
    /\ progress'.wave = IF AdvanceOpensWave(pCtx) THEN progress.wave + 1
                        ELSE progress.wave
    /\ progress'.phase = IF AdvanceOpensWave(pCtx) THEN wave ELSE next

\* AdvanceFrontier opens a wave or goes on to the reconsideration.
LEMMA AdvanceFrontierAdvances ==
    ASSUME progress \in Progress, AdvanceFrontier
    PROVE  Advanced("collection_wave", "reconsideration")
<1>1. "collection_wave" \in Phase /\ "reconsideration" \in Phase
  BY DEF Phase, NodePhase, WavePhase
<1>2. CASE AdvanceOpensWave(pCtx)
  <2>1. progress' = [progress EXCEPT !.wave = @ + 1, !.phase = "collection_wave"]
    BY <1>2 DEF AdvanceFrontier
  <2>2. progress.wave + 1 \in Nat
    BY DEF Progress
  <2> QED
    BY <1>1, <1>2, <2>1, <2>2 DEF Advanced, Progress
<1>3. CASE ~AdvanceOpensWave(pCtx)
  <2>1. progress' = [progress EXCEPT !.phase = "reconsideration"]
    BY <1>3 DEF AdvanceFrontier
  <2> QED
    BY <1>1, <1>3, <2>1 DEF Advanced, Progress
<1> QED
  BY <1>2, <1>3

\* AdvanceExtraWave opens the extra wave or goes on to the filters.
LEMMA AdvanceExtraWaveAdvances ==
    ASSUME progress \in Progress, AdvanceExtraWave
    PROVE  Advanced("extra_wave", "filtering")
<1>1. "extra_wave" \in Phase /\ "filtering" \in Phase
  BY DEF Phase, NodePhase, WavePhase
<1>2. CASE AdvanceOpensWave(pCtx)
  <2>1. progress' = [progress EXCEPT !.wave = @ + 1, !.phase = "extra_wave"]
    BY <1>2 DEF AdvanceExtraWave
  <2>2. progress.wave + 1 \in Nat
    BY DEF Progress
  <2> QED
    BY <1>1, <1>2, <2>1, <2>2 DEF Advanced, Progress
<1>3. CASE ~AdvanceOpensWave(pCtx)
  <2>1. progress' = [progress EXCEPT !.phase = "filtering"]
    BY <1>3 DEF AdvanceExtraWave
  <2> QED
    BY <1>1, <1>3, <2>1 DEF Advanced, Progress
<1> QED
  BY <1>2, <1>3

\* Every move keeps the types.
LEMMA MoveTypes == EngineInv /\ EngineMove => EngineTypeOK'
<1> SUFFICES ASSUME EngineInv, EngineMove PROVE EngineTypeOK'
  OBVIOUS
<1>0. /\ pCtx \in Frontier /\ progress \in Progress /\ activity \in Activity
      /\ working \in SUBSET Collector /\ node \in Nat
      /\ ran \in [Key -> SUBSET Nat] /\ late \in SUBSET Key
      /\ activity = "collect" => progress.phase \in NodePhase
      /\ activity = "nodes" => progress.phase \in NodePhase
      /\ progress.wave \in Nat
  BY DEF EngineInv, EngineTypeOK, ActivityInv, NodePhase, Progress
<1> USE <1>0 DEF EngineTypeOK, Activity, At
<1>1. CASE StartWave
  BY <1>1 DEF StartWave
<1>2. CASE SkipEmptyWave
  <2>1. PhaseEnded
    BY <1>2, PhaseDoneEnds DEF SkipEmptyWave, NodePhase
  <2> QED
    BY <1>2, <2>1 DEF SkipEmptyWave, PhaseEnded
<1>3. ASSUME NEW c \in Collector, CollectorReturns(c) PROVE EngineTypeOK'
  BY <1>3 DEF CollectorReturns
<1>4. CASE AllCollectorsReturned
  <2>1. NextNode(1)
    BY <1>4, NodesFromNext DEF AllCollectorsReturned
  <2> QED
    BY <1>4, <2>1 DEF AllCollectorsReturned, NextNode, PhaseEnded
<1>5. CASE AdvanceFrontier
  <2>1. pCtx' \in Frontier
    BY <1>5, ControlTypes DEF AdvanceFrontier
  <2>2. progress' \in Progress
    BY <1>5, AdvanceFrontierAdvances DEF Advanced
  <2> QED
    BY <1>5, <2>1, <2>2 DEF AdvanceFrontier
<1>6. CASE Reconsider
  <2>1. NextNode(1)
    BY <1>6, NodesFromNext DEF Reconsider, NodePhase
  <2>2. pCtx' \in Frontier
    BY <1>6, ControlTypes DEF Reconsider
  <2> QED
    BY <1>6, <2>1, <2>2 DEF Reconsider, NextNode, PhaseEnded
<1>7. CASE AdvanceExtraWave
  <2>1. pCtx' \in Frontier
    BY <1>7, ControlTypes DEF AdvanceExtraWave
  <2>2. progress' \in Progress
    BY <1>7, AdvanceExtraWaveAdvances DEF Advanced
  <2> QED
    BY <1>7, <2>1, <2>2 DEF AdvanceExtraWave
<1>8. CASE FilterOrExport
  <2>1. NextNode(1)
    BY <1>8, NodesFromNext DEF FilterOrExport, NodePhase
  <2> QED
    BY <1>8, <2>1 DEF FilterOrExport, NextNode, PhaseEnded
<1>9. CASE NodeReturns
  <2>1. NextNode(node + 1)
    BY <1>9, NodesFromNext DEF NodeReturns
  <2> QED
    BY <1>9, <2>1 DEF NodeReturns, NextNode, PhaseEnded
<1>10. CASE NodeFails
  BY <1>10 DEF NodeFails
<1>11. CASE CheckpointReturns
  BY <1>11 DEF CheckpointReturns
<1>12. CASE Finish
  BY <1>12 DEF Finish
<1>13. ASSUME NEW k \in Key, NEW d, DiscoverRoot(k, d) PROVE EngineTypeOK'
  <2>1. ReasonedOffer \in OfferType
    BY DEF ReasonedOffer, OfferType
  <2>2. pCtx' \in Frontier
    BY <1>13, <2>1, PromoteTypes DEF DiscoverRoot
  <2>3. pCtx'.known \in SUBSET Key
    BY <2>2 DEF Frontier
  <2> QED
    BY <1>13, <2>2, <2>3 DEF DiscoverRoot, NoteLate
<1>14. ASSUME NEW h \in Host, FollowHost(h) PROVE EngineTypeOK'
  <2>1. h \in Key
    BY EngineAssumption
  <2>2. pCtx' \in Frontier
    BY <1>14, <2>1, EnqueueTypes DEF FollowHost
  <2>3. pCtx'.known \in SUBSET Key
    BY <2>2 DEF Frontier
  <2> QED
    BY <1>14, <2>2, <2>3 DEF FollowHost, NoteLate
<1> QED
  BY <1>1, <1>2, <1>3, <1>4, <1>5, <1>6, <1>7, <1>8, <1>9, <1>10, <1>11, <1>12,
     <1>13, <1>14 DEF EngineMove

-----------------------------------------------------------------------------
(* What the scheduler's operations and the phases do to a context f with   *)
(* progress p.                                                             *)

\* A seed that is added, or not, leaves the context sound.
LEMMA DiscoverySound ==
    ASSUME NEW f \in Frontier, NEW g \in Frontier, NEW k \in Key, NEW p \in Progress,
           NEW r \in [Key -> SUBSET Nat], NEW l \in SUBSET Key, NEW m \in SUBSET Key,
           Sound(f, p, r, l),
           KeptKeys(f, g) \/ NewKey(f, g, k),
           p.phase \in {"reconsideration", "advance_extra_wave"} =>
              Nodes["reconsideration"] # 0,
           l \subseteq m, f.inProgress => g.known \ f.known \subseteq m
    PROVE  Sound(g, p, r, m)
<1> USE DEF SameControl, Scheduled, CollectionSeeds
<1>1. CASE KeptKeys(f, g)
  BY <1>1 DEF Sound, FrontierSound, Position, History, Covered, KeptKeys
<1>2. CASE NewKey(f, g, k)
  <2>1. FrontierSound(g)
    BY <1>2 DEF Sound, FrontierSound, NewKey
  <2>2. Position(g, p)
    BY <1>2 DEF Sound, Position, NewKey
  <2>3. History(g, p, r)
    <3>1. r[k] = {}
      BY <1>2 DEF Sound, FrontierSound, History, NewKey
    <3> QED
      BY <1>2, <3>1 DEF Sound, FrontierSound, History, NewKey
  <2>4. Covered(g, p, r, m)
    BY <1>2 DEF Sound, Covered, NewKey
  <2> QED
    BY <2>1, <2>2, <2>3, <2>4 DEF Sound
<1> QED
  BY <1>1, <1>2

\* So does one that only changes evidence or candidates.
LEMMA KeptSound ==
    ASSUME NEW f, NEW g, NEW p, NEW r, NEW l, Sound(f, p, r, l), KeptKeys(f, g)
    PROVE  Sound(g, p, r, l)
BY DEF Sound, FrontierSound, Position, History, Covered, KeptKeys, SameControl,
       Scheduled, CollectionSeeds

\* An advance, from either of the phases that advance, leaves it sound and
\* schedules nothing; without another wave nothing was scheduled.
LEMMA AdvanceSound ==
    ASSUME NEW f \in Frontier, NEW p \in Progress, NEW q \in Progress,
           NEW r \in [Key -> SUBSET Nat], NEW l \in SUBSET Key,
           Sound(f, p, r, l), p.initialized, q.initialized,
           q.wave = IF AdvanceOpensWave(f) THEN p.wave + 1 ELSE p.wave,
           \/ /\ p.phase = "advance_frontier"
              /\ q.phase = IF AdvanceOpensWave(f) THEN "collection_wave"
                           ELSE "reconsideration"
           \/ /\ p.phase = "advance_extra_wave"
              /\ q.phase = IF AdvanceOpensWave(f) THEN "extra_wave" ELSE "filtering"
    PROVE  /\ Sound(AdvanceSeedFrontier(f), q, r, l)
           /\ Scheduled(AdvanceSeedFrontier(f)) = {}
<1> DEFINE g == AdvanceSeedFrontier(f)
<1>1. /\ g.seeds = f.seeds /\ g.known = f.known /\ g.maxDepth = f.maxDepth
      /\ Scheduled(g) = {}
      /\ IF AdvanceOpensWave(f)
         THEN /\ CollectionSeeds(g) = Scheduled(f)
              /\ g.reserved = FALSE
              /\ g.inProgress = f.reserved
              /\ g.depth = IF f.reserved THEN f.depth ELSE f.depth + 1
         ELSE /\ CollectionSeeds(g) = {}
              /\ g.inProgress = f.inProgress
              /\ g.depth = f.depth
              /\ g.reserved => f.reserved /\ f.inProgress
  BY AdvanceKeys DEF Scheduled, CollectionSeeds
<1>2. AdvanceOpensWave(f) <=> Scheduled(f) # {} /\ ~f.inProgress
  BY DEF AdvanceOpensWave, Scheduled
<1>3. /\ f.depth \in Nat /\ f.maxDepth \in Nat /\ p.wave \in Nat
      /\ f.reserved \in BOOLEAN /\ f.inProgress \in BOOLEAN
      /\ p.phase \notin WavePhase /\ ~f.inProgress
  BY DEF Frontier, Progress, Sound, Position, WavePhase
<1> HIDE DEF g
<1>4. FrontierSound(g)
  BY <1>1, <1>2, <1>3 DEF Sound, FrontierSound
<1>5. Position(g, q)
  BY <1>1, <1>2, <1>3 DEF Sound, FrontierSound, Position
<1>6. History(g, q, r)
  BY <1>1, <1>2, <1>3 DEF Sound, FrontierSound, History
<1>7. Covered(g, q, r, l)
  BY <1>1, <1>2, <1>3 DEF Sound, Covered, WavePhase
<1>8. Sound(g, q, r, l) /\ Scheduled(g) = {}
  BY <1>1, <1>4, <1>5, <1>6, <1>7 DEF Sound
<1> QED
  BY <1>8 DEF g

\* So does the end of a phase: what the wave should collect is collected, and
\* the extra wave is reserved when the reconsideration ends.
LEMMA PhaseSound ==
    ASSUME NEW f \in Frontier, NEW p \in Progress, NEW q \in Progress,
           NEW r \in [Key -> SUBSET Nat], NEW l \in SUBSET Key,
           Sound(f, p, r, l), p.initialized, q.initialized, q.wave = p.wave,
           \/ p.phase = "collection_wave" /\ q.phase = "advance_frontier"
           \/ p.phase = "reconsideration" /\ q.phase = "advance_extra_wave"
           \/ p.phase = "extra_wave" /\ q.phase = "filtering"
           \/ p.phase = "filtering" /\ q.phase = "exporting"
           \/ p.phase = "exporting" /\ q.phase = "completed",
           p.phase \in WavePhase => \A k \in CollectionSeeds(f) : r[k] # {},
           p.phase = "reconsideration" /\ Nodes["reconsideration"] # 0 => f.reserved
    PROVE  Sound(f, q, r, l)
<1>1. Position(f, q)
  BY DEF Sound, Position
<1>2. History(f, q, r)
  BY DEF Sound, History
<1>3. Covered(f, q, r, l)
  BY DEF Sound, Covered, WavePhase
<1> QED
  BY <1>1, <1>2, <1>3 DEF Sound

\* So does the reservation of the extra wave.
LEMMA ReserveSound ==
    ASSUME NEW f \in Frontier, NEW p \in Progress,
           NEW r \in [Key -> SUBSET Nat], NEW l \in SUBSET Key,
           Sound(f, p, r, l), p.initialized, p.phase = "reconsideration"
    PROVE  /\ Sound(ReserveExtraCollectionWave(f), p, r, l)
           /\ ReserveExtraCollectionWave(f).reserved
<1> DEFINE g == ReserveExtraCollectionWave(f)
<1>1. /\ KeysOf(g.seeds) = KeysOf(f.seeds)
      /\ CollectionSeeds(g) = CollectionSeeds(f)
      /\ Scheduled(g) = Scheduled(f)
      /\ g.known = f.known
      /\ g.depth = f.depth /\ g.maxDepth = f.maxDepth
      /\ g.inProgress = f.inProgress
      /\ g.reserved <=> f.reserved \/ ~f.inProgress
  BY ReserveKeys DEF Scheduled, CollectionSeeds
<1>2. ~f.inProgress
  BY DEF Sound, Position
<1> HIDE DEF g
<1>3. Sound(g, p, r, l) /\ g.reserved
  BY <1>1, <1>2 DEF Sound, FrontierSound, Position, History, Covered, WavePhase
<1> QED
  BY <1>3 DEF g

\* The history when the wave of a context starts.
Collecting(f, p, r) ==
    [k \in Key |-> IF k \in CollectionSeeds(f) THEN r[k] \cup {p.wave} ELSE r[k]]

\* A wave that starts is the only one of its keys.
LEMMA CollectingSound ==
    ASSUME NEW f \in Frontier, NEW p \in Progress,
           NEW r \in [Key -> SUBSET Nat], NEW l \in SUBSET Key,
           Sound(f, p, r, l), p.initialized,
           \A k \in Key : \A v, w \in r[k] : v = w
    PROVE  /\ Sound(f, p, Collecting(f, p, r), l)
           /\ \A k \in CollectionSeeds(f) : Collecting(f, p, r)[k] # {}
           /\ \A k \in Key : \A v, w \in Collecting(f, p, r)[k] : v = w
<1> DEFINE s == Collecting(f, p, r)
<1>1. \A k \in Key : s[k] = IF k \in CollectionSeeds(f) THEN r[k] \cup {p.wave} ELSE r[k]
  BY DEF Collecting
<1>2. CollectionSeeds(f) \subseteq Key
  BY DEF CollectionSeeds, KeysOf
<1> HIDE DEF s
<1>3. Sound(f, p, s, l)
  <2>1. History(f, p, s)
    <3>1. CollectionSeeds(f) \subseteq f.known
          /\ \A k \in CollectionSeeds(f) : k \notin Scheduled(f)
      BY DEF Sound, FrontierSound
    <3>2. ASSUME NEW k \in Key
          PROVE  /\ k \in CollectionSeeds(f) => r[k] \subseteq {p.wave}
                 /\ k \in Scheduled(f) => r[k] \subseteq {p.wave + 1}
                 /\ k \notin f.known => r[k] = {}
      BY DEF Sound, History
    <3>3. ASSUME NEW k \in Key
          PROVE  /\ k \in CollectionSeeds(f) => s[k] \subseteq {p.wave}
                 /\ k \in Scheduled(f) => s[k] \subseteq {p.wave + 1}
                 /\ k \notin f.known => s[k] = {}
      <4>1. CASE k \in CollectionSeeds(f)
        <5>1. s[k] = r[k] \cup {p.wave} BY <1>1, <4>1
        <5>2. r[k] \subseteq {p.wave} BY <3>2, <4>1
        <5> QED BY <3>1, <4>1, <5>1, <5>2
      <4>2. CASE k \notin CollectionSeeds(f)
        <5>1. s[k] = r[k] BY <1>1, <4>2
        <5> QED BY <3>2, <4>2, <5>1
      <4> QED BY <4>1, <4>2
    <3> QED BY <3>3 DEF History
  <2>2. Covered(f, p, s, l)
    <3>1. f.known \subseteq Key
      BY DEF Frontier
    <3> QED
      BY <1>1, <3>1 DEF Sound, Covered
  <2> QED
    BY <2>1, <2>2 DEF Sound
<1>4. \A k \in CollectionSeeds(f) : s[k] # {}
  BY <1>1, <1>2
<1>5. ASSUME NEW k \in Key PROVE \A v, w \in s[k] : v = w
  <2>1. CASE k \in CollectionSeeds(f)
    <3>1. r[k] \subseteq {p.wave}
      BY <2>1 DEF Sound, History
    <3>2. s[k] \subseteq {p.wave}
      BY <1>1, <2>1, <3>1
    <3> QED
      BY <3>2
  <2>2. CASE k \notin CollectionSeeds(f)
    BY <1>1, <2>2
  <2> QED
    BY <2>1, <2>2
<1> QED
  BY <1>3, <1>4, <1>5 DEF s

-----------------------------------------------------------------------------
(* What a move of the engine preserves.                                    *)

\* What a step does: the context stays sound, Resume keeps its place in the
\* phase, and no key is collected in a second wave.
Kept == Sound(pCtx, progress, ran, late)' /\ ActivityInv' /\ CollectedInOneWave'

\* A step that moves to the next node of a phase, or ends it, keeps it.
LEMMA NextNodeKept ==
    ASSUME EngineInv, NEW i \in Nat, NextNode(i), progress.initialized,
           pCtx' \in Frontier, Sound(pCtx', progress, ran, late),
           ran' = ran, late' = late, progress.phase \in NodePhase,
           progress.phase \in WavePhase =>
              \A k \in CollectionSeeds(pCtx') : ran[k] # {},
           progress.phase = "reconsideration" /\ Nodes["reconsideration"] # 0 =>
              pCtx'.reserved,
           progress.phase = "reconsideration" /\ i <= Nodes["reconsideration"] =>
              Nodes["reconsideration"] # 0
    PROVE  Kept
<1>0. /\ progress \in Progress /\ ran \in [Key -> SUBSET Nat] /\ late \in SUBSET Key
      /\ CollectedInOneWave
  BY DEF EngineInv, EngineTypeOK
<1>1. CASE progress' = progress /\ activity' = "nodes" /\ i <= Nodes[progress.phase]
  BY <1>0, <1>1 DEF Kept, ActivityInv, CollectedInOneWave
<1>2. CASE PhaseEnded
  <2>1. Sound(pCtx', progress', ran, late)
    BY <1>0, <1>2, PhaseSound DEF PhaseEnded
  <2>2. progress.phase = "extra_wave" => pCtx'.inProgress
    BY DEF Sound, Position
  <2>3. ActivityInv'
    BY <1>2, <2>2 DEF PhaseEnded, ActivityInv
  <2> QED
    BY <1>0, <2>1, <2>3 DEF Kept, CollectedInOneWave
<1> QED
  BY <1>1, <1>2 DEF NextNode

\* So does a step that adds a seed while nodes run.
LEMMA DiscoveryKept ==
    ASSUME EngineInv, EngineTypeOK', NEW k \in Key, Judging,
           KeptKeys(pCtx, pCtx') \/ NewKey(pCtx, pCtx', k), NoteLate,
           UNCHANGED <<progress, activity, ran>>
    PROVE  Kept
<1>0. /\ pCtx \in Frontier /\ progress \in Progress
      /\ ran \in [Key -> SUBSET Nat] /\ late \in SUBSET Key
      /\ pCtx' \in Frontier /\ late' \in SUBSET Key
      /\ CollectedInOneWave /\ ActivityInv /\ Sound(pCtx, progress, ran, late)
  BY DEF EngineInv, EngineTypeOK
<1>1. progress.phase \in {"reconsideration", "advance_extra_wave"} =>
         Nodes["reconsideration"] # 0
  BY <1>0 DEF Judging, ActivityInv, WavePhase
<1>2. late \subseteq late' /\ (pCtx.inProgress => pCtx'.known \ pCtx.known \subseteq late')
  BY DEF NoteLate
<1>3. Sound(pCtx', progress, ran, late')
  BY <1>0, <1>1, <1>2, DiscoverySound
<1>4. /\ CollectionSeeds(pCtx') = CollectionSeeds(pCtx)
      /\ pCtx'.reserved = pCtx.reserved
      /\ pCtx'.inProgress = pCtx.inProgress
  BY DEF KeptKeys, NewKey, SameControl, CollectionSeeds
<1>5. ActivityInv'
  BY <1>0, <1>4 DEF ActivityInv, Judging
<1> QED
  BY <1>0, <1>3, <1>5 DEF Kept, CollectedInOneWave

\* Every move keeps it.
LEMMA MoveKept == EngineInv /\ EngineMove => Kept
<1> SUFFICES ASSUME EngineInv, EngineMove PROVE Kept
  OBVIOUS
<1>0. /\ pCtx \in Frontier /\ progress \in Progress /\ activity \in Activity
      /\ ran \in [Key -> SUBSET Nat] /\ late \in SUBSET Key /\ node \in Nat
      /\ Sound(pCtx, progress, ran, late) /\ ActivityInv /\ CollectedInOneWave
      /\ activity # "idle" => progress.initialized
      /\ EngineTypeOK'
  BY MoveTypes DEF EngineInv, EngineTypeOK, ActivityInv
<1> USE <1>0 DEF At
<1>1. CASE StartWave
  <2>1. /\ ran' = Collecting(pCtx, progress, ran)
        /\ pCtx' = pCtx /\ progress' = progress /\ late' = late
        /\ activity' = "collect" /\ progress.phase \in WavePhase /\ progress.initialized
    BY <1>1 DEF StartWave, Collecting
  <2>2. /\ Sound(pCtx, progress, ran', late)
        /\ \A k \in CollectionSeeds(pCtx) : ran'[k] # {}
        /\ \A k \in Key : \A v, w \in ran'[k] : v = w
    BY <2>1, CollectingSound DEF CollectedInOneWave
  <2> QED
    BY <2>1, <2>2 DEF Kept, ActivityInv, CollectedInOneWave
<1>2. CASE SkipEmptyWave
  <2>1. PhaseEnded
    BY <1>2, PhaseDoneEnds DEF SkipEmptyWave, NodePhase
  <2>2. /\ pCtx' = pCtx /\ ran' = ran /\ late' = late
        /\ progress.phase \in WavePhase /\ CollectionSeeds(pCtx) = {}
        /\ progress.initialized
    BY <1>2 DEF SkipEmptyWave
  <2>3. progress.phase # "reconsideration" /\ progress' \in Progress
    BY <2>1, <2>2 DEF WavePhase, PhaseEnded
  <2>4. Sound(pCtx, progress', ran, late)
    BY <2>1, <2>2, <2>3, PhaseSound DEF PhaseEnded
  <2>5. progress.phase = "extra_wave" => pCtx.inProgress
    BY <2>2 DEF Sound, Position
  <2>6. ActivityInv'
    BY <2>1, <2>2, <2>5 DEF PhaseEnded, ActivityInv, WavePhase
  <2> QED
    BY <2>2, <2>4, <2>6 DEF Kept, CollectedInOneWave
<1>3. ASSUME NEW c \in Collector, CollectorReturns(c) PROVE Kept
  BY <1>3 DEF CollectorReturns, Kept, ActivityInv, CollectedInOneWave
<1>4. CASE AllCollectorsReturned
  <2>1. progress.phase \in WavePhase /\ progress.initialized
    BY <1>4 DEF AllCollectorsReturned, ActivityInv
  <2>2. NextNode(1)
    BY <1>4, <2>1, NodesFromNext DEF AllCollectorsReturned, NodePhase
  <2>3. /\ pCtx' = pCtx /\ ran' = ran /\ late' = late
        /\ \A k \in CollectionSeeds(pCtx) : ran[k] # {}
    BY <1>4 DEF AllCollectorsReturned, ActivityInv
  <2> QED
    BY <2>1, <2>2, <2>3, NextNodeKept DEF WavePhase, NodePhase
<1>5. CASE AdvanceFrontier
  <2>1. /\ Advanced("collection_wave", "reconsideration")
        /\ progress.phase = "advance_frontier" /\ progress.initialized
        /\ pCtx' = AdvanceSeedFrontier(pCtx)
        /\ activity' = "loop" /\ ran' = ran /\ late' = late
    BY <1>5, AdvanceFrontierAdvances DEF AdvanceFrontier
  <2>2. Sound(pCtx', progress', ran, late)
    BY <2>1, AdvanceSound DEF Advanced
  <2> QED
    BY <2>1, <2>2 DEF Kept, Advanced, ActivityInv, CollectedInOneWave
<1>6. CASE Reconsider
  <2>1. /\ progress.phase = "reconsideration" /\ progress.initialized
        /\ pCtx' = IF Nodes["reconsideration"] > 0
                   THEN ReserveExtraCollectionWave(pCtx) ELSE pCtx
        /\ ran' = ran /\ late' = late
    BY <1>6 DEF Reconsider
  <2>2. NextNode(1)
    BY <1>6, <2>1, NodesFromNext DEF Reconsider, NodePhase
  <2>3. Nodes["reconsideration"] \in Nat
    BY EngineAssumption DEF NodePhase
  <2>4. /\ pCtx' \in Frontier /\ Sound(pCtx', progress, ran, late)
        /\ Nodes["reconsideration"] # 0 => pCtx'.reserved
    BY <2>1, <2>3, ReserveSound, ControlTypes
  <2> QED
    BY <2>1, <2>2, <2>3, <2>4, NextNodeKept DEF WavePhase, NodePhase
<1>7. CASE AdvanceExtraWave
  <2>1. /\ Advanced("extra_wave", "filtering")
        /\ progress.phase = "advance_extra_wave" /\ progress.initialized
        /\ pCtx' = AdvanceSeedFrontier(pCtx)
        /\ activity' = "loop" /\ ran' = ran /\ late' = late
    BY <1>7, AdvanceExtraWaveAdvances DEF AdvanceExtraWave
  <2>2. Sound(pCtx', progress', ran, late)
    BY <2>1, AdvanceSound DEF Advanced
  <2> QED
    BY <2>1, <2>2 DEF Kept, Advanced, ActivityInv, CollectedInOneWave
<1>8. CASE FilterOrExport
  <2>1. /\ progress.phase \in {"filtering", "exporting"} /\ progress.initialized
        /\ pCtx' = pCtx /\ ran' = ran /\ late' = late
    BY <1>8 DEF FilterOrExport
  <2>2. NextNode(1)
    BY <1>8, <2>1, NodesFromNext DEF FilterOrExport, NodePhase
  <2> QED
    BY <2>1, <2>2, NextNodeKept DEF WavePhase, NodePhase
<1>9. CASE NodeReturns
  <2>1. /\ activity = "nodes" /\ progress.initialized /\ progress.phase \in NodePhase
        /\ pCtx' = pCtx /\ ran' = ran /\ late' = late
    BY <1>9 DEF NodeReturns, ActivityInv
  <2>2. NextNode(node + 1)
    BY <1>9, <2>1, NodesFromNext DEF NodeReturns
  <2>3. /\ progress.phase \in WavePhase => \A k \in CollectionSeeds(pCtx) : ran[k] # {}
        /\ progress.phase = "reconsideration" =>
              Nodes["reconsideration"] # 0 /\ pCtx.reserved
    BY <2>1 DEF ActivityInv
  <2> QED
    BY <2>1, <2>2, <2>3, NextNodeKept
<1>10. CASE NodeFails
  BY <1>10 DEF NodeFails, Kept, ActivityInv, CollectedInOneWave
<1>11. CASE CheckpointReturns
  BY <1>11 DEF CheckpointReturns, Kept, ActivityInv, CollectedInOneWave
<1>12. CASE Finish
  BY <1>12 DEF Finish, Kept, ActivityInv, CollectedInOneWave
<1>13. ASSUME NEW k \in Key, NEW d, DiscoverRoot(k, d) PROVE Kept
  <2>1. ReasonedOffer \in OfferType /\ ReasonedOffer.reasoned
    BY DEF ReasonedOffer, OfferType
  <2>2. KeptKeys(pCtx, pCtx') \/ NewKey(pCtx, pCtx', k)
    BY <1>13, <2>1, PromoteKeys DEF DiscoverRoot
  <2> QED
    BY <1>13, <2>2, DiscoveryKept DEF DiscoverRoot
<1>14. ASSUME NEW h \in Host, FollowHost(h) PROVE Kept
  <2>1. h \in Key
    BY EngineAssumption
  <2>2. KeptKeys(pCtx, pCtx') \/ NewKey(pCtx, pCtx', h)
    BY <1>14, <2>1, EnqueueKeys DEF FollowHost
  <2>3. Judging
    BY <1>14 DEF FollowHost, Judging
  <2> QED
    BY <1>14, <2>1, <2>2, <2>3, DiscoveryKept DEF FollowHost
<1> QED
  BY <1>1, <1>2, <1>3, <1>4, <1>5, <1>6, <1>7, <1>8, <1>9, <1>10, <1>11, <1>12,
     <1>13, <1>14 DEF EngineMove

\* After a move nothing is scheduled in the last phases, if nothing was before:
\* they are entered from an advance that opens no wave, or from the extra wave,
\* whose seeds are recorded only.
LEMMA MoveNothingLeft ==
    ASSUME EngineInv, EngineMove, NothingLeft(pCtx, progress)
    PROVE  NothingLeft(pCtx, progress)'
<1> DEFINE Goal == NothingLeft(pCtx, progress)'
<1> SUFFICES Goal
  OBVIOUS
<1>0. /\ pCtx \in Frontier /\ progress \in Progress /\ node \in Nat
      /\ Sound(pCtx, progress, ran, late) /\ ActivityInv
      /\ progress.phase = "extra_wave" => Scheduled(pCtx) = {}
  BY DEF EngineInv, EngineTypeOK, Sound, FrontierSound, Position
<1>1. ASSUME NEW i \in Nat, NextNode(i), pCtx' = pCtx \/ progress.phase \notin Late,
             pCtx' = pCtx \/ progress.phase = "reconsideration"
      PROVE  Goal
  BY <1>0, <1>1 DEF NextNode, PhaseEnded, NothingLeft, Late
<1>2. ASSUME UNCHANGED <<pCtx, progress>> PROVE Goal
  BY <1>2 DEF NothingLeft
<1>3. ASSUME Judging, progress' = progress PROVE Goal
  BY <1>0, <1>3 DEF Judging, ActivityInv, NothingLeft, Late, WavePhase
<1> USE <1>0 DEF At
<1>4. CASE StartWave
  BY <1>2, <1>4 DEF StartWave
<1>5. CASE SkipEmptyWave
  <2>1. PhaseEnded /\ pCtx' = pCtx
    BY <1>5, PhaseDoneEnds DEF SkipEmptyWave, NodePhase
  <2> QED
    BY <2>1 DEF PhaseEnded, NothingLeft, Late
<1>6. ASSUME NEW c \in Collector, CollectorReturns(c) PROVE Goal
  BY <1>2, <1>6 DEF CollectorReturns
<1>7. CASE AllCollectorsReturned
  <2>1. NextNode(1) /\ pCtx' = pCtx
    BY <1>7, NodesFromNext DEF AllCollectorsReturned, ActivityInv, NodePhase
  <2> QED
    BY <1>1, <2>1
<1>8. CASE AdvanceFrontier
  <2>1. Advanced("collection_wave", "reconsideration")
    BY <1>8, AdvanceFrontierAdvances
  <2> QED
    BY <2>1 DEF Advanced, NothingLeft, Late
<1>9. CASE Reconsider
  <2>1. NextNode(1) /\ progress.phase = "reconsideration"
    BY <1>9, NodesFromNext DEF Reconsider, NodePhase
  <2> QED
    BY <1>1, <2>1 DEF Late
<1>10. CASE AdvanceExtraWave
  <2>1. pCtx' = AdvanceSeedFrontier(pCtx)
    BY <1>10 DEF AdvanceExtraWave
  <2>2. Scheduled(pCtx') = {}
    BY <2>1, AdvanceKeys DEF Scheduled
  <2> QED
    BY <2>2 DEF NothingLeft
<1>11. CASE FilterOrExport
  <2>1. NextNode(1) /\ pCtx' = pCtx
    BY <1>11, NodesFromNext DEF FilterOrExport, NodePhase
  <2> QED
    BY <1>1, <2>1
<1>12. CASE NodeReturns
  <2>1. NextNode(node + 1) /\ pCtx' = pCtx
    BY <1>12, NodesFromNext DEF NodeReturns, ActivityInv
  <2> QED
    BY <1>1, <2>1
<1>13. CASE NodeFails
  BY <1>2, <1>13 DEF NodeFails
<1>14. CASE CheckpointReturns
  BY <1>2, <1>14 DEF CheckpointReturns
<1>15. CASE Finish
  BY <1>2, <1>15 DEF Finish
<1>16. ASSUME NEW k \in Key, NEW d, DiscoverRoot(k, d) PROVE Goal
  BY <1>3, <1>16 DEF DiscoverRoot
<1>17. ASSUME NEW h \in Host, FollowHost(h) PROVE Goal
  BY <1>3, <1>17 DEF FollowHost, Judging
<1> HIDE DEF Goal
<1> QED
  BY <1>4, <1>5, <1>6, <1>7, <1>8, <1>9, <1>10, <1>11, <1>12, <1>13, <1>14,
     <1>15, <1>16, <1>17 DEF EngineMove

-----------------------------------------------------------------------------
(* The moves, summarised for a caller of the engine.                       *)

\* A wave starts, nodes start and return, fail or discover, or Resume finishes.
Continues ==
    /\ progress' = progress /\ pCtx'.inProgress = pCtx.inProgress
    /\ activity' \in {"collect", "nodes", "failed", "finished"}
    /\ activity' \in {"failed", "finished"} => activity \in {"loop", "nodes"}

\* A phase ends.
EndsPhase == PhaseEnded /\ pCtx'.inProgress = pCtx.inProgress

\* The frontier advances.
Advances ==
    /\ activity = "loop" /\ activity' = "loop"
    /\ pCtx' = AdvanceSeedFrontier(pCtx)
    /\ \/ /\ progress.phase = "advance_frontier"
          /\ Advanced("collection_wave", "reconsideration")
       \/ /\ progress.phase = "advance_extra_wave"
          /\ Advanced("extra_wave", "filtering")

\* What a move, other than the return of a callback, does.
MoveEffect ==
    /\ activity \in {"loop", "collect", "nodes"}
    /\ Continues \/ EndsPhase \/ Advances
    /\ late \subseteq late'
    /\ \/ ran' = ran
       \/ /\ activity = "loop" /\ progress.phase \in WavePhase
          /\ ran' = Collecting(pCtx, progress, ran)

\* Every such move has one of these effects.
LEMMA MoveEffects ==
    ASSUME EngineInv, EngineMove, activity # "checkpoint"
    PROVE  MoveEffect
<1>0. /\ pCtx \in Frontier /\ progress \in Progress /\ node \in Nat /\ ActivityInv
  BY DEF EngineInv, EngineTypeOK
<1>1. ASSUME NEW i \in Nat, NextNode(i), pCtx'.inProgress = pCtx.inProgress,
             activity \in {"loop", "collect", "nodes"}, UNCHANGED <<ran, late>>
      PROVE  MoveEffect
  BY <1>1 DEF NextNode, MoveEffect, Continues, EndsPhase
<1>2. ASSUME Judging, NoteLate, KeptKeys(pCtx, pCtx') \/ \E k \in Key : NewKey(pCtx, pCtx', k),
             UNCHANGED <<progress, activity, ran>>
      PROVE  MoveEffect
  BY <1>2 DEF Judging, NoteLate, KeptKeys, NewKey, SameControl, MoveEffect, Continues
<1> USE <1>0 DEF At
<1>3. CASE StartWave
  BY <1>3 DEF StartWave, Collecting, MoveEffect, Continues
<1>4. CASE SkipEmptyWave
  <2>1. PhaseEnded
    BY <1>4, PhaseDoneEnds DEF SkipEmptyWave, NodePhase
  <2> QED
    BY <1>4, <2>1 DEF SkipEmptyWave, MoveEffect, EndsPhase
<1>5. ASSUME NEW c \in Collector, CollectorReturns(c) PROVE MoveEffect
  BY <1>5 DEF CollectorReturns, MoveEffect, Continues
<1>6. CASE AllCollectorsReturned
  <2>1. NextNode(1)
    BY <1>6, NodesFromNext DEF AllCollectorsReturned, ActivityInv, NodePhase
  <2> QED
    BY <1>1, <1>6, <2>1 DEF AllCollectorsReturned
<1>7. CASE AdvanceFrontier
  BY <1>7, AdvanceFrontierAdvances DEF AdvanceFrontier, MoveEffect, Advances
<1>8. CASE Reconsider
  <2>1. NextNode(1)
    BY <1>8, NodesFromNext DEF Reconsider, NodePhase
  <2>2. pCtx'.inProgress = pCtx.inProgress
    BY <1>8, ReserveKeys DEF Reconsider
  <2> QED
    BY <1>1, <1>8, <2>1, <2>2 DEF Reconsider
<1>9. CASE AdvanceExtraWave
  BY <1>9, AdvanceExtraWaveAdvances DEF AdvanceExtraWave, MoveEffect, Advances
<1>10. CASE FilterOrExport
  <2>1. NextNode(1)
    BY <1>10, NodesFromNext DEF FilterOrExport, NodePhase
  <2> QED
    BY <1>1, <1>10, <2>1 DEF FilterOrExport
<1>11. CASE NodeReturns
  <2>1. NextNode(node + 1)
    BY <1>11, NodesFromNext DEF NodeReturns, ActivityInv
  <2> QED
    BY <1>1, <1>11, <2>1 DEF NodeReturns
<1>12. CASE NodeFails
  BY <1>12 DEF NodeFails, MoveEffect, Continues
<1>13. CASE Finish
  BY <1>13 DEF Finish, MoveEffect, Continues
<1>14. ASSUME NEW k \in Key, NEW d, DiscoverRoot(k, d) PROVE MoveEffect
  <2>1. ReasonedOffer \in OfferType /\ ReasonedOffer.reasoned
    BY DEF ReasonedOffer, OfferType
  <2>2. KeptKeys(pCtx, pCtx') \/ NewKey(pCtx, pCtx', k)
    BY <1>14, <2>1, PromoteKeys DEF DiscoverRoot
  <2> QED
    BY <1>2, <1>14, <2>2 DEF DiscoverRoot
<1>15. ASSUME NEW h \in Host, FollowHost(h) PROVE MoveEffect
  <2>1. h \in Key
    BY EngineAssumption
  <2>2. KeptKeys(pCtx, pCtx') \/ NewKey(pCtx, pCtx', h)
    BY <1>15, <2>1, EnqueueKeys DEF FollowHost
  <2> QED
    BY <1>2, <1>15, <2>1, <2>2 DEF FollowHost, Judging
<1>16. ~CheckpointReturns
  BY DEF CheckpointReturns
<1> QED
  BY <1>3, <1>4, <1>5, <1>6, <1>7, <1>8, <1>9, <1>10, <1>11, <1>12, <1>13,
     <1>14, <1>15, <1>16 DEF EngineMove

-----------------------------------------------------------------------------
(* The command line's run.                                                 *)

\* Resume, from a context that is new or a progress that is sound, enters the
\* loop.
LEMMA ResumeKept ==
    ASSUME EngineTypeOK, CollectedInOneWave, NEW c \in Frontier, NEW p \in Progress,
           Sound(c, p, ran, late), Resume(c, p)
    PROVE  EngineInv'
<1>0. /\ ran \in [Key -> SUBSET Nat] /\ late \in SUBSET Key
      /\ working \in SUBSET Collector /\ node \in Nat
  BY DEF EngineTypeOK
<1>1. /\ pCtx' = ResumeContext(c, p) /\ progress' = ResumeProgress(p)
      /\ activity' = "loop"
      /\ working' = working /\ node' = node /\ ran' = ran /\ late' = late
  BY DEF Resume
<1>2. pCtx' \in Frontier /\ progress' \in Progress /\ Sound(pCtx', progress', ran, late)
  <2>1. CASE p.initialized
    BY <1>1, <2>1 DEF ResumeContext, ResumeProgress
  <2>2. CASE ~p.initialized
    <3>1. c.seeds \in Slice
      BY DEF Frontier
    <3> DEFINE g == InitializeSeedFrontier(c.seeds)
               q == [initialized |-> TRUE, wave |-> 0, phase |-> "collection_wave"]
    <3>2. pCtx' = g /\ progress' = q
      BY <1>1, <2>2 DEF ResumeContext, ResumeProgress
    <3>3. /\ g \in Frontier
          /\ KeysOf(g.seeds) = KeysOf(c.seeds)
          /\ CollectionSeeds(g) = KeysOf(c.seeds)
          /\ Scheduled(g) = {}
          /\ g.known = KeysOf(c.seeds)
          /\ g.depth = 0 /\ g.maxDepth = maxCollectionDepth
          /\ g.reserved = FALSE /\ g.inProgress = FALSE
      BY <3>1, InitializeKeys DEF Scheduled, CollectionSeeds
    <3>4. /\ q \in Progress
          /\ q.initialized = TRUE /\ q.wave = 0 /\ q.phase = "collection_wave"
      BY DEF Progress, Phase, NodePhase, WavePhase
    <3>5. maxCollectionDepth \in Nat
      BY EntryTypes
    <3> HIDE DEF g, q
    <3>6. FrontierSound(g) /\ Position(g, q)
      BY <3>3, <3>4, <3>5 DEF FrontierSound, Position
    <3>7. History(g, q, ran)
      BY <1>0, <2>2, <3>3, <3>4 DEF Sound, History
    <3>8. Covered(g, q, ran, late)
      BY <3>3, <3>4 DEF Covered, WavePhase
    <3> QED
      BY <3>2, <3>3, <3>4, <3>6, <3>7, <3>8 DEF Sound
  <2> QED
    BY <2>1, <2>2
<1>3. progress'.initialized
  BY <1>1 DEF ResumeProgress
<1>4. EngineTypeOK' /\ ActivityInv' /\ CollectedInOneWave'
  BY <1>0, <1>1, <1>2, <1>3 DEF EngineTypeOK, Activity, ActivityInv, CollectedInOneWave
<1> QED
  BY <1>1, <1>2, <1>4 DEF EngineInv

\* Both specifications begin with a context that is sound.
LEMMA InitSound == Init => EngineInv /\ NothingLeft(pCtx, progress)
<1> SUFFICES ASSUME Init PROVE EngineInv /\ NothingLeft(pCtx, progress)
  OBVIOUS
<1>1. PICK submitted \in Submission : pCtx = NewContext(submitted)
  BY DEF Init
<1>2. submitted \in Slice /\ KeysOf(submitted) \in SUBSET Key
  BY EngineAssumption DEF KeysOf
<1>3. /\ progress = NewProgress /\ activity = "idle" /\ working = {} /\ node = 0
      /\ ran = [k \in Key |-> {}] /\ late = {}
  BY DEF Init
<1>4. /\ progress \in Progress /\ ~progress.initialized
      /\ progress.phase = "collection_wave"
  BY <1>3 DEF NewProgress, Progress, Phase, NodePhase, WavePhase
<1>5. /\ pCtx \in Frontier
      /\ CollectionSeeds(pCtx) = {} /\ Scheduled(pCtx) = {}
      /\ pCtx.known = KeysOf(pCtx.seeds)
      /\ pCtx.depth = 0 /\ pCtx.maxDepth = 0
      /\ pCtx.reserved = FALSE /\ pCtx.inProgress = FALSE
  BY <1>1, <1>2, EntryTypes, NoSeedsKeys
     DEF NewContext, Frontier, CollectionSeeds, Scheduled
<1>6. EngineTypeOK /\ ActivityInv /\ CollectedInOneWave
  BY <1>3, <1>4, <1>5 DEF EngineTypeOK, Activity, ActivityInv, CollectedInOneWave
<1>7. Sound(pCtx, progress, ran, late)
  BY <1>3, <1>4, <1>5 DEF Sound, FrontierSound, Position, History, Covered
<1> QED
  BY <1>4, <1>6, <1>7 DEF EngineInv, NothingLeft, Late

\* The invariant of the command line's run.  Before Resume nothing has been
\* collected and nothing is scheduled.
RunInv == EngineInv /\ NothingLeft(pCtx, progress)

\* It holds in every state of the run.
THEOREM EngineInvariant == Spec => []RunInv
<1>1. Init => RunInv
  BY InitSound DEF RunInv
<1>2. RunInv /\ [Next]_engineVars => RunInv'
  <2> SUFFICES ASSUME RunInv, [Next]_engineVars PROVE RunInv'
    OBVIOUS
  <2>0. EngineInv /\ NothingLeft(pCtx, progress)
    BY DEF RunInv
  <2>1. ASSUME EngineMove PROVE RunInv'
    BY <2>0, <2>1, MoveTypes, MoveKept, MoveNothingLeft DEF RunInv, Kept, EngineInv
  <2>2. CASE Resume(pCtx, progress)
    <3>1. EngineInv'
      BY <2>0, <2>2, ResumeKept DEF EngineInv, EngineTypeOK
    <3>2. CASE progress.initialized
      BY <2>0, <2>2, <3>1, <3>2
         DEF RunInv, Resume, ResumeContext, ResumeProgress, NothingLeft
    <3>3. CASE ~progress.initialized
      BY <2>2, <3>1, <3>3 DEF RunInv, Resume, ResumeProgress, NothingLeft, Late
    <3> QED
      BY <3>2, <3>3
  <2>3. CASE UNCHANGED engineVars
    BY <2>0, <2>3
       DEF RunInv, engineVars, EngineInv, EngineTypeOK, ActivityInv,
           CollectedInOneWave, NothingLeft
  <2>4. Control => EngineMove \/ Resume(pCtx, progress)
    BY DEF Control, EngineMove
  <2>5. Discoveries => EngineMove
    BY DEF Discoveries, EngineMove
  <2> QED
    BY <2>1, <2>2, <2>3, <2>4, <2>5 DEF Next
<1> QED
  BY <1>1, <1>2, PTL DEF Spec

\* What the invariant says of the seeds once the filters run.
LEMMA NoSeedLost ==
    ASSUME Sound(pCtx, progress, ran, late), NothingLeft(pCtx, progress)
    PROVE  NoScheduledSeedLost
BY DEF Sound, Position, Covered, NothingLeft, Late, NoScheduledSeedLost, Scheduled, WavePhase

\* The engine's wave counter and the scheduler's depth agree, and no more than
\* maxDepth + 2 waves run.
LEMMA WavesMatch ==
    ASSUME pCtx \in Frontier, progress \in Progress, Sound(pCtx, progress, ran, late)
    PROVE  WaveMatchesDepth
BY DEF Frontier, Progress, Sound, FrontierSound, Position, WaveMatchesDepth

\* Neither the concurrent collectors, nor discoveries while the engine runs, nor
\* the extra wave make the engine skip a seed: when the filters run every seed
\* has been collected or was first seen in the extra wave.
THEOREM NoSeedIsLost == Spec => []NoScheduledSeedLost
<1>1. RunInv => NoScheduledSeedLost
  BY NoSeedLost DEF RunInv, EngineInv
<1> QED
  BY <1>1, EngineInvariant, PTL

\* The two wave counters agree throughout a run of the command line, with or
\* without a reconsiderer.
THEOREM RunWavesMatch == Spec => []WaveMatchesDepth
<1>1. RunInv => WaveMatchesDepth
  BY WavesMatch DEF RunInv, EngineInv, EngineTypeOK
<1> QED
  BY <1>1, EngineInvariant, PTL

\* And every key is collected in one wave.
THEOREM RunOneWave == Spec => []CollectedInOneWave
<1>1. RunInv => CollectedInOneWave
  BY DEF RunInv, EngineInv
<1> QED
  BY <1>1, EngineInvariant, PTL

=============================================================================
