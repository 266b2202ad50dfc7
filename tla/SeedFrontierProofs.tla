------------------------- MODULE SeedFrontierProofs -------------------------
(***************************************************************************)
(* Proofs about SeedFrontier, for every set of keys, signals, submissions  *)
(* and offers and every depth bound.                                       *)
(***************************************************************************)
EXTENDS SeedFrontier, FrontierOpsProofs, TLAPS

\* The scheduler's state keeps its type under every call.
THEOREM TypeCorrect == Spec => []TypeOK
<1>1. Init => TypeOK
  <2> SUFFICES ASSUME NEW submitted \in Submission,
                      frontier = InitializeSeedFrontier(submitted),
                      collected = KeysOf(submitted),
                      opened = 0
               PROVE  TypeOK
    BY DEF Init
  <2>1. submitted \in Slice
    BY SubmissionAssumption
  <2> DEFINE merged == [k \in Key |-> IF submitted[k].n > 0
                                      THEN [n |-> 1, ev |-> submitted[k].ev]
                                      ELSE NoEntry]
  <2>2. merged \in Slice
    BY <2>1, EntryTypes DEF Slice, Entry
  <2>3. InitializeSeedFrontier(submitted) \in Frontier
    BY <2>2, EntryTypes DEF InitializeSeedFrontier, Frontier, KeysOf
  <2> QED
    BY <2>3 DEF TypeOK, KeysOf
<1>2. TypeOK /\ [Next]_vars => TypeOK'
  <2> SUFFICES ASSUME TypeOK, [Next]_vars PROVE TypeOK'
    OBVIOUS
  <2> USE DEF TypeOK
  <2>1. ASSUME NEW k \in Key, NEW o \in Offer, Enqueue(k, o.own)
        PROVE  TypeOK'
    <3>1. o.own \in SUBSET Signal
      BY OfferAssumption DEF OfferType
    <3> QED
      BY <2>1, <3>1, EnqueueTypes DEF Enqueue
  <2>2. ASSUME NEW k \in Key, NEW o \in Offer, NEW d \in Decision,
               Promote(k, o, d)
        PROVE  TypeOK'
    BY <2>2, PromoteTypes, OfferAssumption DEF Promote
  <2>3. CASE Reserve
    BY <2>3, ControlTypes DEF Reserve
  <2>4. CASE Advance
    <3>1. frontier' \in Frontier
      BY <2>4, ControlTypes DEF Advance
    <3>2. collected' \in SUBSET Key /\ opened' \in Nat
      BY <2>4 DEF Advance, KeysOf
    <3> QED
      BY <3>1, <3>2
  <2>5. CASE Restore
    BY <2>5, ControlTypes DEF Restore
  <2>6. CASE UNCHANGED vars
    BY <2>6 DEF vars
  <2> QED
    BY <2>1, <2>2, <2>3, <2>4, <2>5, <2>6 DEF Next
<1> QED
  BY <1>1, <1>2, PTL DEF Spec

-----------------------------------------------------------------------------
(* Each effect preserves the inductive invariant.                          *)

\* Merging evidence into a known seed preserves the inductive invariant.
LEMMA MergedKeepsInv ==
    ASSUME IInv, TypeOK', NEW k \in Key, NEW ev \in SUBSET Signal,
           Merged(frontier, frontier', k, ev),
           UNCHANGED <<collected, opened>>
    PROVE  IInv'
<1> USE DEF IInv
<1>1. \A j \in Key :
         /\ frontier'.seeds[j].n = frontier.seeds[j].n
         /\ frontier'.pending[j].n = frontier.pending[j].n
         /\ frontier'.collection[j].n = frontier.collection[j].n
  BY DEF Merged, mergeSeedIntoSlice, TypeOK, Frontier, Slice, Entry
<1>2. /\ KeysOf(frontier'.seeds) = KeysOf(frontier.seeds)
      /\ KeysOf(frontier'.pending) = KeysOf(frontier.pending)
      /\ KeysOf(frontier'.collection) = KeysOf(frontier.collection)
  BY <1>1 DEF KeysOf
<1>3. SeedsDeduplicated'
  BY <1>1, <1>2 DEF SeedsDeduplicated, Merged
<1>4. NoCandidateIsKnown'
  BY DEF NoCandidateIsKnown, Merged, TypeOK, Frontier
<1>5. PendingNeverCollected'
  BY <1>1, <1>2 DEF PendingNeverCollected, Merged, KeysOf
<1>6. CopiesAgree'
  <2> SUFFICES ASSUME NEW j \in Key
               PROVE  /\ frontier'.pending[j].n > 0 =>
                            frontier'.pending[j].ev = frontier'.seeds[j].ev
                      /\ frontier'.collection[j].n > 0 =>
                            frontier'.collection[j].ev = frontier'.seeds[j].ev
    BY DEF CopiesAgree
  <2>1. frontier.seeds[k].n > 0
    BY DEF Merged, SeedsDeduplicated, KeysOf
  <2>2. CASE j # k
    BY <2>2 DEF CopiesAgree, Merged, mergeSeedIntoSlice, TypeOK, Frontier,
       Slice, Entry
  <2>3. CASE j = k
    <3>1. frontier'.seeds[k].ev = frontier.seeds[k].ev \cup ev
      BY <2>1 DEF Merged, mergeSeedIntoSlice, TypeOK, Frontier, Slice
    <3>2. frontier.pending[k].n > 0 =>
             frontier'.pending[k].ev = frontier.pending[k].ev \cup ev
      BY DEF Merged, mergeSeedIntoSlice, TypeOK, Frontier, Slice
    <3>3. frontier.collection[k].n > 0 =>
             frontier'.collection[k].ev = frontier.collection[k].ev \cup ev
      BY DEF Merged, mergeSeedIntoSlice, TypeOK, Frontier, Slice
    <3> QED
      BY <2>3, <1>1, <3>1, <3>2, <3>3 DEF CopiesAgree
  <2> QED
    BY <2>2, <2>3
<1>7. HistoryInv'
  <2>1. /\ KeysOf(frontier'.collection) \subseteq collected'
        /\ collected' \subseteq frontier'.known
    BY <1>2 DEF HistoryInv, Merged
  <2>2. \A j \in Key :
           /\ frontier'.seeds[j].n = 0 => frontier'.seeds[j].ev = {}
           /\ frontier'.pending[j].n = 0 => frontier'.pending[j].ev = {}
    BY DEF HistoryInv, Merged, mergeSeedIntoSlice, TypeOK, Frontier,
       Slice, Entry
  <2> QED
    BY <2>1, <2>2 DEF HistoryInv
<1>8. BoundInv'
  BY <1>2 DEF BoundInv, Merged, SameControl
<1> QED
  BY <1>3, <1>4, <1>5, <1>6, <1>7, <1>8

\* Adding a seed that was not known preserves the inductive invariant.
LEMMA AddedKeepsInv ==
    ASSUME IInv, TypeOK', NEW k \in Key, NEW ev \in SUBSET Signal,
           Added(frontier, frontier', k, ev),
           UNCHANGED <<collected, opened>>
    PROVE  IInv'
<1> USE DEF IInv
<1> DEFINE mode == seedSchedulingMode(frontier)
<1>1. /\ frontier.seeds[k].n = 0
      /\ frontier.pending[k].n = 0
      /\ frontier.collection[k].n = 0
      /\ k \notin collected
  BY DEF Added, SeedsDeduplicated, PendingNeverCollected, HistoryInv, KeysOf,
     TypeOK, Frontier, Slice, Entry
<1>2. frontier.seeds[k].ev = {} /\ frontier.pending[k].ev = {}
  BY <1>1 DEF HistoryInv
<1>3. /\ frontier'.seeds[k] = [n |-> 1, ev |-> ev]
      /\ \A j \in Key \ {k} : frontier'.seeds[j] = frontier.seeds[j]
  BY <1>1, <1>2 DEF Added, appendSeed, TypeOK, Frontier, Slice
<1>4. /\ mode = "nextWave" => frontier'.pending[k] = [n |-> 1, ev |-> ev]
      /\ mode # "nextWave" => frontier'.pending = frontier.pending
      /\ \A j \in Key \ {k} : frontier'.pending[j] = frontier.pending[j]
  BY <1>1, <1>2 DEF Added, appendSeed, TypeOK, Frontier, Slice
<1>5. frontier'.collection = frontier.collection
  BY DEF Added
<1>6. /\ KeysOf(frontier'.seeds) = KeysOf(frontier.seeds) \cup {k}
      /\ KeysOf(frontier'.pending) \subseteq KeysOf(frontier.pending) \cup {k}
  BY <1>1, <1>3, <1>4 DEF KeysOf
<1>7. SeedsDeduplicated'
  BY <1>3, <1>6 DEF SeedsDeduplicated, Added
<1>8. NoCandidateIsKnown'
  BY DEF NoCandidateIsKnown, Added, NoCandidate, TypeOK, Frontier
<1>9. PendingNeverCollected'
  <2> SUFFICES ASSUME NEW j \in KeysOf(frontier'.pending)
               PROVE  /\ j \notin collected'
                      /\ j \in frontier'.known
                      /\ frontier'.pending[j].n = 1
    BY DEF PendingNeverCollected
  <2>1. CASE j # k
    <3>1. j \in KeysOf(frontier.pending) /\ frontier'.pending[j] = frontier.pending[j]
      BY <2>1, <1>4, <1>6 DEF KeysOf
    <3> QED
      BY <3>1 DEF PendingNeverCollected, Added
  <2>2. CASE j = k
    <3>1. frontier'.pending[k].n > 0
      BY <2>2 DEF KeysOf
    <3>2. mode = "nextWave"
      BY <3>1, <1>1, <1>4
    <3> QED
      BY <2>2, <3>2, <1>1, <1>4 DEF Added
  <2> QED
    BY <2>1, <2>2
<1>10. CopiesAgree'
  <2> SUFFICES ASSUME NEW j \in Key
               PROVE  /\ frontier'.pending[j].n > 0 =>
                            frontier'.pending[j].ev = frontier'.seeds[j].ev
                      /\ frontier'.collection[j].n > 0 =>
                            frontier'.collection[j].ev = frontier'.seeds[j].ev
    BY DEF CopiesAgree
  <2>1. CASE j # k
    BY <2>1, <1>3, <1>4, <1>5 DEF CopiesAgree
  <2>2. CASE j = k /\ mode = "nextWave"
    BY <2>2, <1>1, <1>3, <1>4, <1>5
  <2>3. CASE j = k /\ mode # "nextWave"
    BY <2>3, <1>1, <1>3, <1>4, <1>5
  <2> QED
    BY <2>1, <2>2, <2>3
<1>11. HistoryInv'
  <2>1. /\ KeysOf(frontier'.collection) \subseteq collected'
        /\ collected' \subseteq frontier'.known
    BY <1>5 DEF HistoryInv, Added
  <2>2. \A j \in Key : frontier'.seeds[j].n = 0 => frontier'.seeds[j].ev = {}
    BY <1>3 DEF HistoryInv
  <2>3. \A j \in Key : frontier'.pending[j].n = 0 => frontier'.pending[j].ev = {}
    BY <1>2, <1>4 DEF HistoryInv
  <2> QED
    BY <2>1, <2>2, <2>3 DEF HistoryInv
<1>12. BoundInv'
  <2>1. CASE mode = "nextWave"
    <3>1. ~frontier.inProgress
      BY <2>1 DEF seedSchedulingMode
    <3>2. frontier.reserved \/ frontier.depth < frontier.maxDepth
      BY <2>1 DEF seedSchedulingMode
    <3> QED
      BY <3>1, <3>2 DEF BoundInv, Added, SameControl
  <2>2. CASE mode # "nextWave"
    BY <2>2, <1>4 DEF BoundInv, Added, SameControl
  <2> QED
    BY <2>1, <2>2
<1> QED
  BY <1>7, <1>8, <1>9, <1>10, <1>11, <1>12

\* Changing the candidate of a key that is not known preserves the invariant.
LEMMA NotedKeepsInv ==
    ASSUME IInv, TypeOK', NEW k \in Key, Noted(frontier, frontier', k),
           UNCHANGED <<collected, opened>>
    PROVE  IInv'
<1> USE DEF IInv
<1>1. SeedsDeduplicated' /\ PendingNeverCollected' /\ CopiesAgree'
  BY DEF SeedsDeduplicated, PendingNeverCollected, CopiesAgree, Noted
<1>2. HistoryInv' /\ BoundInv'
  BY DEF HistoryInv, BoundInv, Noted, SameControl
<1>3. NoCandidateIsKnown'
  BY DEF NoCandidateIsKnown, Noted, TypeOK, Frontier
<1> QED
  BY <1>1, <1>2, <1>3

\* ReserveExtraCollectionWave preserves the inductive invariant.
LEMMA ReserveKeepsInv == IInv /\ TypeOK' /\ Reserve => IInv'
<1> SUFFICES ASSUME IInv, TypeOK', Reserve PROVE IInv'
  OBVIOUS
<1> USE DEF IInv
<1>1. /\ frontier'.seeds = frontier.seeds
      /\ frontier'.pending = frontier.pending
      /\ frontier'.collection = frontier.collection
      /\ frontier'.known = frontier.known
      /\ frontier'.candidates = frontier.candidates
      /\ frontier'.depth = frontier.depth
      /\ frontier'.maxDepth = frontier.maxDepth
      /\ frontier'.inProgress = frontier.inProgress
      /\ collected' = collected
      /\ opened' = opened
  BY DEF Reserve, ReserveExtraCollectionWave, TypeOK, Frontier
<1>2. /\ frontier.inProgress => frontier'.reserved = frontier.reserved
      /\ ~frontier.inProgress => frontier'.reserved
  BY DEF Reserve, ReserveExtraCollectionWave, TypeOK, Frontier
<1>3. SeedsDeduplicated' /\ PendingNeverCollected' /\ CopiesAgree'
  BY <1>1 DEF SeedsDeduplicated, PendingNeverCollected, CopiesAgree
<1>4. HistoryInv' /\ NoCandidateIsKnown'
  BY <1>1 DEF HistoryInv, NoCandidateIsKnown
<1>5. BoundInv'
  BY <1>1, <1>2 DEF BoundInv
<1> QED
  BY <1>3, <1>4, <1>5

\* RestoreSchedulerState preserves the inductive invariant.
LEMMA RestoreKeepsInv == IInv /\ TypeOK' /\ Restore => IInv'
<1> SUFFICES ASSUME IInv, TypeOK', Restore PROVE IInv'
  OBVIOUS
<1> USE DEF IInv
<1>1. /\ frontier'.seeds = frontier.seeds
      /\ frontier'.pending = frontier.pending
      /\ frontier'.collection = frontier.collection
      /\ frontier'.known = KeysOf(frontier.seeds)
      /\ frontier'.candidates = NoCandidates
      /\ SameControl(frontier, frontier')
      /\ collected' = collected
      /\ opened' = opened
  BY DEF Restore, RestoreSchedulerState, TypeOK, Frontier, SameControl
<1>2. frontier'.known = frontier.known
  BY <1>1 DEF SeedsDeduplicated
<1>3. SeedsDeduplicated' /\ PendingNeverCollected' /\ CopiesAgree'
  BY <1>1, <1>2 DEF SeedsDeduplicated, PendingNeverCollected, CopiesAgree
<1>4. HistoryInv'
  BY <1>1, <1>2 DEF HistoryInv
<1>5. NoCandidateIsKnown'
  BY <1>1 DEF NoCandidateIsKnown, NoCandidates, NoCandidate, TypeOK, Frontier
<1>6. BoundInv'
  BY <1>1 DEF BoundInv, SameControl
<1> QED
  BY <1>3, <1>4, <1>5, <1>6

\* AdvanceSeedFrontier preserves the inductive invariant.
LEMMA AdvanceKeepsInv == IInv /\ TypeOK' /\ Advance => IInv'
<1> SUFFICES ASSUME IInv, TypeOK', Advance PROVE IInv'
  OBVIOUS
<1> USE DEF IInv
<1> DEFINE f == frontier
           g == frontier'
<1>0. f \in Frontier /\ g = AdvanceSeedFrontier(f)
  BY DEF TypeOK, Advance
<1>1. /\ g.seeds = f.seeds
      /\ g.known = f.known
      /\ g.candidates = f.candidates
      /\ g.maxDepth = f.maxDepth
      /\ \/ g.pending = NoSeeds
         \/ KeysOf(f.pending) = {} /\ g.pending = f.pending
      /\ g.collection = NoSeeds \/ g.collection = f.pending
  BY <1>0, AdvanceEffect
<1>2. KeysOf(NoSeeds) = {}
  BY DEF KeysOf, NoSeeds, NoEntry
<1>3. /\ KeysOf(g.pending) = {}
      /\ KeysOf(g.collection) \subseteq KeysOf(f.pending)
  BY <1>1, <1>2
<1>4. SeedsDeduplicated' /\ NoCandidateIsKnown'
  BY <1>1 DEF SeedsDeduplicated, NoCandidateIsKnown
<1>5. PendingNeverCollected'
  BY <1>3 DEF PendingNeverCollected
<1>6. CopiesAgree'
  <2>1. \A j \in Key : g.pending[j].n = 0
    BY <1>3 DEF KeysOf, TypeOK, Frontier, Slice, Entry
  <2>2. \A j \in Key : g.collection[j].n > 0 =>
                          g.collection[j].ev = f.pending[j].ev /\ f.pending[j].n > 0
    BY <1>1 DEF NoSeeds, NoEntry
  <2> QED
    BY <1>1, <2>1, <2>2 DEF CopiesAgree
<1>7. HistoryInv'
  <2>1. collected' = collected \cup KeysOf(g.collection)
    BY DEF Advance
  <2>2. KeysOf(f.pending) \subseteq f.known
    BY DEF PendingNeverCollected
  <2>3. \A j \in Key : g.pending[j].n = 0 => g.pending[j].ev = {}
    BY <1>1 DEF HistoryInv, NoSeeds, NoEntry
  <2> QED
    BY <1>1, <1>3, <2>1, <2>2, <2>3 DEF HistoryInv
<1>8. BoundInv'
  <2>1. CASE KeysOf(f.pending) = {}
    <3>1. /\ g.depth = f.depth
          /\ g.inProgress = f.inProgress
          /\ g.reserved => f.reserved
          /\ opened' = opened
      BY <2>1, <1>0 DEF AdvanceSeedFrontier, Frontier, Advance,
         AdvanceOpensWave
    <3> QED
      BY <3>1, <1>1, <1>3 DEF BoundInv
  <2>2. CASE KeysOf(f.pending) # {}
    <3>1. ~f.inProgress /\ opened' = opened + 1
      BY <2>2 DEF BoundInv, Advance, AdvanceOpensWave
    <3>2. CASE f.reserved
      <4>1. g.depth = f.depth /\ g.inProgress /\ ~g.reserved
        BY <2>2, <3>1, <3>2, <1>0 DEF AdvanceSeedFrontier, Frontier
      <4> QED
        BY <3>1, <4>1, <1>1, <1>3 DEF BoundInv, TypeOK, Frontier
    <3>3. CASE ~f.reserved
      <4>1. g.depth = f.depth + 1 /\ ~g.inProgress /\ ~g.reserved
        BY <2>2, <3>1, <3>3, <1>0 DEF AdvanceSeedFrontier, Frontier
      <4>2. f.depth < f.maxDepth
        BY <2>2, <3>3 DEF BoundInv
      <4> QED
        BY <3>1, <4>1, <4>2, <1>1, <1>3 DEF BoundInv, TypeOK, Frontier
    <3> QED
      BY <3>2, <3>3
  <2> QED
    BY <2>1, <2>2
<1> QED
  BY <1>4, <1>5, <1>6, <1>7, <1>8

-----------------------------------------------------------------------------
(* The theorems.                                                           *)

\* InitializeSeedFrontier establishes the inductive invariant.
LEMMA InitInv == Init /\ TypeOK => IInv
<1> SUFFICES ASSUME TypeOK, NEW submitted \in Submission,
                    frontier = InitializeSeedFrontier(submitted),
                    collected = KeysOf(submitted),
                    opened = 0
             PROVE  IInv
  BY DEF Init
<1> DEFINE merged == [k \in Key |-> IF submitted[k].n > 0
                                    THEN [n |-> 1, ev |-> submitted[k].ev]
                                    ELSE NoEntry]
<1>0. submitted \in Slice
  BY SubmissionAssumption
<1>1. /\ frontier.seeds = merged
      /\ frontier.collection = merged
      /\ frontier.pending = NoSeeds
      /\ frontier.known = KeysOf(submitted)
      /\ frontier.candidates = NoCandidates
      /\ frontier.depth = 0
      /\ frontier.maxDepth = maxCollectionDepth
      /\ ~frontier.reserved
      /\ ~frontier.inProgress
  BY DEF InitializeSeedFrontier
<1>2. KeysOf(merged) = KeysOf(submitted)
  BY DEF KeysOf, NoEntry
<1>3. KeysOf(NoSeeds) = {}
  BY DEF KeysOf, NoSeeds, NoEntry
<1>4. SeedsDeduplicated
  BY <1>1, <1>2 DEF SeedsDeduplicated, NoEntry
<1>5. NoCandidateIsKnown
  BY <1>1 DEF NoCandidateIsKnown, NoCandidates, NoCandidate, KeysOf
<1>6. PendingNeverCollected
  BY <1>1, <1>3 DEF PendingNeverCollected
<1>7. CopiesAgree
  BY <1>1 DEF CopiesAgree, NoSeeds, NoEntry
<1>8. HistoryInv
  <2>1. \A j \in Key : merged[j].n = 0 => merged[j].ev = {}
    BY DEF NoEntry
  <2>2. \A j \in Key : NoSeeds[j].ev = {}
    BY DEF NoSeeds, NoEntry
  <2> HIDE DEF merged
  <2> QED
    BY <1>1, <1>2, <2>1, <2>2 DEF HistoryInv
<1>9. BoundInv
  BY <1>1, <1>3, EntryTypes DEF BoundInv
<1> QED
  BY <1>4, <1>5, <1>6, <1>7, <1>8, <1>9 DEF IInv

\* Every call of the scheduler preserves the inductive invariant.
LEMMA NextInv == IInv /\ TypeOK' /\ [Next]_vars => IInv'
<1> SUFFICES ASSUME IInv, TypeOK', [Next]_vars PROVE IInv'
  OBVIOUS
<1>0. frontier \in Frontier
  BY DEF IInv, TypeOK
<1>1. ASSUME NEW k \in Key, NEW o \in Offer, Enqueue(k, o.own)
      PROVE  IInv'
  <2>1. o.own \in SUBSET Signal
    BY OfferAssumption DEF OfferType
  <2>2. /\ frontier' = EnqueueSeed(frontier, k, o.own)
        /\ UNCHANGED <<collected, opened>>
    BY <1>1 DEF Enqueue
  <2>3. \/ frontier' = frontier
        \/ Merged(frontier, frontier', k, o.own)
        \/ Added(frontier, frontier', k, o.own)
    BY <1>0, <2>1, <2>2, EnqueueEffect
  <2>4. CASE frontier' = frontier
    BY <2>2, <2>4 DEF IInv, TypeOK, SeedsDeduplicated, NoCandidateIsKnown,
       PendingNeverCollected, CopiesAgree, HistoryInv, BoundInv
  <2> QED
    BY <2>1, <2>2, <2>3, <2>4, MergedKeepsInv, AddedKeepsInv
<1>2. ASSUME NEW k \in Key, NEW o \in Offer, NEW d \in Decision,
             Promote(k, o, d)
      PROVE  IInv'
  <2>1. o \in OfferType
    BY OfferAssumption
  <2>2. /\ frontier' = PromoteSeedCandidate(frontier, k, o, d)
        /\ UNCHANGED <<collected, opened>>
    BY <1>2 DEF Promote
  <2>3. \/ frontier' = frontier
        \/ \E ev \in SUBSET Signal : Merged(frontier, frontier', k, ev)
        \/ \E ev \in SUBSET Signal : Added(frontier, frontier', k, ev)
        \/ Noted(frontier, frontier', k)
    BY <1>0, <2>1, <2>2, PromoteEffect
  <2>4. CASE frontier' = frontier
    BY <2>2, <2>4 DEF IInv, TypeOK, SeedsDeduplicated, NoCandidateIsKnown,
       PendingNeverCollected, CopiesAgree, HistoryInv, BoundInv
  <2> QED
    BY <2>2, <2>3, <2>4, MergedKeepsInv, AddedKeepsInv, NotedKeepsInv
<1>3. CASE Reserve
  BY <1>3, ReserveKeepsInv
<1>4. CASE Advance
  BY <1>4, AdvanceKeepsInv
<1>5. CASE Restore
  BY <1>5, RestoreKeepsInv
<1>6. CASE UNCHANGED vars
  BY <1>6 DEF vars, IInv, TypeOK, SeedsDeduplicated, NoCandidateIsKnown,
     PendingNeverCollected, CopiesAgree, HistoryInv, BoundInv
<1> QED
  BY <1>1, <1>2, <1>3, <1>4, <1>5, <1>6 DEF Next

\* The inductive invariant holds in every reachable state, whatever order the
\* scheduler's callers run in.
THEOREM FrontierInvariant == Spec => []IInv
<1>1. Spec => []TypeOK
  BY TypeCorrect
<1>2. Init /\ TypeOK => IInv
  BY InitInv
<1>3. IInv /\ TypeOK' /\ [Next]_vars => IInv'
  BY NextInv
<1> QED
  BY <1>1, <1>2, <1>3, PTL DEF Spec

\* No key is ever a seed twice, and none is put into a wave a second time
\* (EnqueueSeed, PromoteSeedCandidate, RestoreSchedulerState).
THEOREM SeedsCollectedOnce == Spec => [](SeedsDeduplicated /\ PendingNeverCollected)
<1>1. IInv => SeedsDeduplicated /\ PendingNeverCollected
  BY DEF IInv
<1> QED
  BY <1>1, FrontierInvariant, PTL

\* A known key has no candidate record, and every copy of a seed carries the
\* evidence of the one in Seeds.
THEOREM CopiesConsistent == Spec => [](NoCandidateIsKnown /\ CopiesAgree)
<1>1. IInv => NoCandidateIsKnown /\ CopiesAgree
  BY DEF IInv
<1> QED
  BY <1>1, FrontierInvariant, PTL

\* AdvanceSeedFrontier opens at most maxDepth waves and one reserved wave.
THEOREM WaveBound == Spec => []WavesBounded
<1>1. IInv => WavesBounded
  <2> SUFFICES ASSUME IInv PROVE WavesBounded
    OBVIOUS
  <2>1. /\ frontier.depth \in Nat
        /\ maxCollectionDepth \in Nat
    BY EntryTypes DEF IInv, TypeOK, Frontier
  <2> QED
    BY <2>1 DEF IInv, BoundInv, WavesBounded
<1> QED
  BY <1>1, FrontierInvariant, PTL

\* While the reserved wave is in progress no call fills the collection frontier.
THEOREM LastWave == Spec => LastWaveIsLast
<1> DEFINE NoRefill == frontier.inProgress =>
              KeysOf(frontier'.collection) \subseteq KeysOf(frontier.collection)
<1>1. IInv /\ [Next]_vars => [NoRefill]_vars
  <2> SUFFICES ASSUME IInv, [Next]_vars, frontier.inProgress
               PROVE  \/ KeysOf(frontier'.collection) \subseteq
                            KeysOf(frontier.collection)
                      \/ UNCHANGED vars
    OBVIOUS
  <2>0. frontier \in Frontier /\ KeysOf(NoSeeds) = {}
    BY DEF IInv, TypeOK, KeysOf, NoSeeds, NoEntry
  <2>1. ASSUME NEW k \in Key, NEW ev \in SUBSET Signal,
               Merged(frontier, frontier', k, ev)
        PROVE  KeysOf(frontier'.collection) = KeysOf(frontier.collection)
    BY <2>0, <2>1 DEF Merged, mergeSeedIntoSlice, Frontier, Slice, KeysOf
  <2>2. ASSUME NEW k \in Key, NEW o \in Offer, Enqueue(k, o.own)
        PROVE  KeysOf(frontier'.collection) = KeysOf(frontier.collection)
    <3>1. o.own \in SUBSET Signal
      BY OfferAssumption DEF OfferType
    <3>2. \/ frontier' = frontier
          \/ Merged(frontier, frontier', k, o.own)
          \/ Added(frontier, frontier', k, o.own)
      BY <2>0, <2>2, <3>1, EnqueueEffect DEF Enqueue
    <3> QED
      BY <2>1, <3>1, <3>2 DEF Added
  <2>3. ASSUME NEW k \in Key, NEW o \in Offer, NEW d \in Decision,
               Promote(k, o, d)
        PROVE  KeysOf(frontier'.collection) = KeysOf(frontier.collection)
    <3>1. \/ frontier' = frontier
          \/ \E ev \in SUBSET Signal : Merged(frontier, frontier', k, ev)
          \/ \E ev \in SUBSET Signal : Added(frontier, frontier', k, ev)
          \/ Noted(frontier, frontier', k)
      BY <2>0, <2>3, PromoteEffect, OfferAssumption DEF Promote
    <3> QED
      BY <2>1, <3>1 DEF Added, Noted
  <2>4. CASE Reserve
    BY <2>0, <2>4 DEF Reserve, ReserveExtraCollectionWave, Frontier
  <2>5. CASE Advance
    <3>1. ~AdvanceOpensWave(frontier)
      BY DEF AdvanceOpensWave
    <3>2. frontier'.collection = NoSeeds
      BY <2>0, <2>5, <3>1, AdvanceEffect DEF Advance
    <3> QED
      BY <2>0, <3>2
  <2>6. CASE Restore
    BY <2>0, <2>6 DEF Restore, RestoreSchedulerState, Frontier
  <2> QED
    BY <2>2, <2>3, <2>4, <2>5, <2>6 DEF Next
<1> QED
  BY <1>1, FrontierInvariant, PTL DEF Spec, LastWaveIsLast

=============================================================================
