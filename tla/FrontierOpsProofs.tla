-------------------------- MODULE FrontierOpsProofs --------------------------
(***************************************************************************)
(* What the functions of FrontierOps return, for every set of keys and     *)
(* signals and every depth bound: the lemmas that the proofs about the     *)
(* scheduler, the engine and the live run cite.                            *)
(***************************************************************************)
EXTENDS FrontierOps, TLAPS

-----------------------------------------------------------------------------
(* What the operations return.                                             *)

\* The empty values of the frontier have their types.
LEMMA EntryTypes ==
    /\ NoEntry \in Entry
    /\ NoSeeds \in Slice
    /\ NoCandidate \in Candidate
    /\ NoCandidates \in [Key -> Candidate]
    /\ maxCollectionDepth \in Nat
BY MaxDepthAssumption DEF NoEntry, Entry, NoSeeds, Slice, NoCandidate,
   Candidate, NoCandidates, maxCollectionDepth

\* Appending to or merging into a slice gives a slice.
LEMMA SliceTypes ==
    ASSUME NEW s \in Slice, NEW k \in Key, NEW ev \in SUBSET Signal
    PROVE  /\ appendSeed(s, k, ev) \in Slice
           /\ mergeSeedIntoSlice(s, k, ev) \in Slice
BY DEF appendSeed, mergeSeedIntoSlice, Slice, Entry

\* mergeSeedAcrossSlicesLocked keeps the frontier's type.
LEMMA MergeTypes ==
    ASSUME NEW f \in Frontier, NEW k \in Key, NEW ev \in SUBSET Signal,
           NEW strong \in BOOLEAN, NEW reasoned \in BOOLEAN
    PROVE  mergeSeedAcrossSlices(f, k, ev, strong, reasoned) \in Frontier
<1>1. /\ mergeSeedIntoSlice(f.seeds, k, ev) \in Slice
      /\ mergeSeedIntoSlice(f.collection, k, ev) \in Slice
      /\ mergeSeedIntoSlice(f.pending, k, ev) \in Slice
  BY SliceTypes DEF Frontier
<1>2. f.candidates[k] \in Candidate
  BY DEF Frontier
<1> DEFINE c == f.candidates[k]
           d == IF c.present
                THEN [c EXCEPT !.ev = c.ev \cup ev,
                               !.strong = c.strong \/ strong,
                               !.reasoned = c.reasoned \/ reasoned]
                ELSE c
<1>3. d \in Candidate
  BY <1>2 DEF Candidate
<1>4. [f.candidates EXCEPT ![k] = d] \in [Key -> Candidate]
  BY <1>3 DEF Frontier
<1> QED
  BY <1>1, <1>4 DEF mergeSeedAcrossSlices, Frontier

\* materializeSeedCandidateLocked keeps the frontier's type.
LEMMA MaterializeTypes ==
    ASSUME NEW f \in Frontier, NEW k \in Key, NEW c \in Candidate,
           NEW schedule \in BOOLEAN
    PROVE  materializeSeedCandidate(f, k, c, schedule) \in Frontier
<1>1. c.ev \in SUBSET Signal
  BY DEF Candidate
<1>2. /\ appendSeed(f.seeds, k, c.ev) \in Slice
      /\ appendSeed(f.pending, k, c.ev) \in Slice
  BY <1>1, SliceTypes DEF Frontier
<1>3. [f.candidates EXCEPT ![k] = NoCandidate] \in [Key -> Candidate]
  BY EntryTypes DEF Frontier
<1> QED
  BY <1>2, <1>3 DEF materializeSeedCandidate, Frontier

\* The candidate PromoteSeedCandidate gathers has its type.
LEMMA GatherTypes ==
    ASSUME NEW f \in Frontier, NEW k \in Key, NEW o \in OfferType
    PROVE  gatherCandidate(f, k, o) \in Candidate
<1>1. f.candidates[k] \in Candidate
  BY DEF Frontier
<1> QED
  BY <1>1 DEF gatherCandidate, Candidate, OfferType

\* EnqueueSeed keeps the frontier's type.
LEMMA EnqueueTypes ==
    ASSUME NEW f \in Frontier, NEW k \in Key, NEW ev \in SUBSET Signal
    PROVE  EnqueueSeed(f, k, ev) \in Frontier
<1>1. mergeSeedAcrossSlices(f, k, ev, FALSE, FALSE) \in Frontier
  BY MergeTypes
<1>2. /\ appendSeed(f.seeds, k, ev) \in Slice
      /\ appendSeed(f.pending, k, ev) \in Slice
  BY SliceTypes DEF Frontier
<1>3. [f.candidates EXCEPT ![k] = NoCandidate] \in [Key -> Candidate]
  BY EntryTypes DEF Frontier
<1> QED
  BY <1>1, <1>2, <1>3 DEF EnqueueSeed, Frontier

\* PromoteSeedCandidate keeps the frontier's type.
LEMMA PromoteTypes ==
    ASSUME NEW f \in Frontier, NEW k \in Key, NEW o \in OfferType, NEW d
    PROVE  PromoteSeedCandidate(f, k, o, d) \in Frontier
<1> DEFINE c == gatherCandidate(f, k, o)
           mode == seedSchedulingMode(f)
<1>1. c \in Candidate
  BY GatherTypes
<1>2. /\ o.own \cup o.sig \in SUBSET Signal
      /\ o.seedStrong \in BOOLEAN
      /\ o.reasoned \in BOOLEAN
  BY DEF OfferType
<1>3. mergeSeedAcrossSlices(f, k, o.own \cup o.sig, o.seedStrong, o.reasoned)
        \in Frontier
  BY <1>2, MergeTypes
<1>4. /\ materializeSeedCandidate(f, k, c, FALSE) \in Frontier
      /\ materializeSeedCandidate(f, k, c, mode = "nextWave") \in Frontier
  BY <1>1, MaterializeTypes
<1>5. \A x \in Candidate : [f EXCEPT !.candidates =
                              [f.candidates EXCEPT ![k] = x]] \in Frontier
  BY DEF Frontier
<1> HIDE DEF c, mode
<1> QED
  BY <1>1, <1>3, <1>4, <1>5, EntryTypes DEF PromoteSeedCandidate, c, mode

\* Reserving, advancing and restoring keep the frontier's type.
LEMMA ControlTypes ==
    ASSUME NEW f \in Frontier
    PROVE  /\ ReserveExtraCollectionWave(f) \in Frontier
           /\ AdvanceSeedFrontier(f) \in Frontier
           /\ RestoreSchedulerState(f) \in Frontier
<1>1. ReserveExtraCollectionWave(f) \in Frontier
  BY DEF ReserveExtraCollectionWave, Frontier
<1>2. AdvanceSeedFrontier(f) \in Frontier
  <2>1. CASE KeysOf(f.pending) = {}
    BY <2>1, EntryTypes DEF AdvanceSeedFrontier, Frontier
  <2>2. CASE KeysOf(f.pending) # {} /\ f.inProgress
    BY <2>2, EntryTypes DEF AdvanceSeedFrontier, Frontier
  <2>3. CASE KeysOf(f.pending) # {} /\ ~f.inProgress /\ f.reserved
    BY <2>3, EntryTypes DEF AdvanceSeedFrontier, Frontier
  <2>4. CASE KeysOf(f.pending) # {} /\ ~f.inProgress /\ ~f.reserved
    <3>1. AdvanceSeedFrontier(f) =
            [f EXCEPT !.depth = f.depth + 1,
                      !.collection = f.pending, !.pending = NoSeeds]
      BY <2>4 DEF AdvanceSeedFrontier
    <3>2. f.depth + 1 \in Nat
      BY DEF Frontier
    <3> QED
      BY <3>1, <3>2, EntryTypes DEF Frontier
  <2> QED
    BY <2>1, <2>2, <2>3, <2>4
<1>3. RestoreSchedulerState(f) \in Frontier
  BY EntryTypes DEF RestoreSchedulerState, Frontier, KeysOf
<1> QED
  BY <1>1, <1>2, <1>3

-----------------------------------------------------------------------------
(* Every call that offers a seed has one of four effects.                  *)

SameControl(f, g) ==
    /\ g.depth = f.depth
    /\ g.maxDepth = f.maxDepth
    /\ g.reserved = f.reserved
    /\ g.inProgress = f.inProgress

Merged(f, g, k, ev) ==
    /\ k \in f.known
    /\ g.known = f.known
    /\ g.seeds = mergeSeedIntoSlice(f.seeds, k, ev)
    /\ g.collection = mergeSeedIntoSlice(f.collection, k, ev)
    /\ g.pending = mergeSeedIntoSlice(f.pending, k, ev)
    /\ \A j \in Key : g.candidates[j].present = f.candidates[j].present
    /\ SameControl(f, g)

Added(f, g, k, ev) ==
    /\ k \notin f.known
    /\ seedSchedulingMode(f) # "reject"
    /\ g.known = f.known \cup {k}
    /\ g.seeds = appendSeed(f.seeds, k, ev)
    /\ g.collection = f.collection
    /\ g.pending = IF seedSchedulingMode(f) = "nextWave"
                   THEN appendSeed(f.pending, k, ev) ELSE f.pending
    /\ g.candidates = [f.candidates EXCEPT ![k] = NoCandidate]
    /\ SameControl(f, g)

Noted(f, g, k) ==
    /\ k \notin f.known
    /\ g.known = f.known
    /\ g.seeds = f.seeds
    /\ g.collection = f.collection
    /\ g.pending = f.pending
    /\ \A j \in Key \ {k} : g.candidates[j] = f.candidates[j]
    /\ SameControl(f, g)

\* mergeSeedAcrossSlicesLocked is a Merged step.
LEMMA MergeEffect ==
    ASSUME NEW f \in Frontier, NEW k \in f.known, k \in Key,
           NEW ev \in SUBSET Signal,
           NEW strong \in BOOLEAN, NEW reasoned \in BOOLEAN
    PROVE  Merged(f, mergeSeedAcrossSlices(f, k, ev, strong, reasoned), k, ev)
<1> DEFINE g == mergeSeedAcrossSlices(f, k, ev, strong, reasoned)
           c == f.candidates[k]
           d == IF c.present
                THEN [c EXCEPT !.ev = c.ev \cup ev,
                               !.strong = c.strong \/ strong,
                               !.reasoned = c.reasoned \/ reasoned]
                ELSE c
<1>1. /\ g.known = f.known
      /\ g.seeds = mergeSeedIntoSlice(f.seeds, k, ev)
      /\ g.collection = mergeSeedIntoSlice(f.collection, k, ev)
      /\ g.pending = mergeSeedIntoSlice(f.pending, k, ev)
      /\ SameControl(f, g)
  BY DEF mergeSeedAcrossSlices, Frontier, SameControl
<1>2. g.candidates = [f.candidates EXCEPT ![k] = d]
  BY DEF mergeSeedAcrossSlices, Frontier
<1>3. c \in Candidate
  BY DEF Frontier
<1>4. d.present = c.present
  BY <1>3 DEF Candidate
<1>5. \A j \in Key : g.candidates[j].present = f.candidates[j].present
  <2> HIDE DEF d, g
  <2> QED
    BY <1>2, <1>4 DEF Frontier
<1> QED
  BY <1>1, <1>5 DEF Merged

\* materializeSeedCandidateLocked is an Added step.
LEMMA MaterializeEffect ==
    ASSUME NEW f \in Frontier, NEW k \in Key, k \notin f.known,
           NEW c \in Candidate, NEW schedule \in BOOLEAN,
           seedSchedulingMode(f) # "reject",
           schedule <=> seedSchedulingMode(f) = "nextWave"
    PROVE  Added(f, materializeSeedCandidate(f, k, c, schedule), k, c.ev)
BY DEF materializeSeedCandidate, Added, Frontier, SameControl

\* EnqueueSeed does nothing, merges into a known seed or adds a new one.
LEMMA EnqueueEffect ==
    ASSUME NEW f \in Frontier, NEW k \in Key, NEW ev \in SUBSET Signal
    PROVE  LET g == EnqueueSeed(f, k, ev)
           IN  g = f \/ Merged(f, g, k, ev) \/ Added(f, g, k, ev)
<1>1. CASE seedSchedulingMode(f) = "reject"
  BY <1>1 DEF EnqueueSeed
<1>2. CASE seedSchedulingMode(f) # "reject" /\ k \in f.known
  BY <1>2, MergeEffect DEF EnqueueSeed
<1>3. CASE seedSchedulingMode(f) # "reject" /\ k \notin f.known
  BY <1>3 DEF EnqueueSeed, Added, Frontier, SameControl
<1> QED
  BY <1>1, <1>2, <1>3

\* PromoteSeedCandidate does nothing, merges, adds, or only notes a candidate.
LEMMA PromoteEffect ==
    ASSUME NEW f \in Frontier, NEW k \in Key, NEW o \in OfferType, NEW d
    PROVE  LET g == PromoteSeedCandidate(f, k, o, d)
           IN  \/ g = f
               \/ \E ev \in SUBSET Signal : Merged(f, g, k, ev)
               \/ \E ev \in SUBSET Signal : Added(f, g, k, ev)
               \/ Noted(f, g, k)
<1> DEFINE c == gatherCandidate(f, k, o)
           mode == seedSchedulingMode(f)
           g == PromoteSeedCandidate(f, k, o, d)
           note(x) == [f EXCEPT !.candidates =
                                  [f.candidates EXCEPT ![k] = x]]
<1>1. CASE mode = "reject"
  BY <1>1 DEF PromoteSeedCandidate
<1>2. CASE mode # "reject" /\ k \in f.known
  <2>1. /\ o.own \cup o.sig \in SUBSET Signal
        /\ o.seedStrong \in BOOLEAN
        /\ o.reasoned \in BOOLEAN
    BY DEF OfferType
  <2> QED
    BY <1>2, <2>1, MergeEffect DEF PromoteSeedCandidate
<1>3. CASE mode # "reject" /\ k \notin f.known
  <2>1. c \in Candidate /\ c.ev \in SUBSET Signal
    BY GatherTypes DEF Candidate
  <2>2. \/ g = note(c) \/ g = note(NoCandidate)
        \/ g = materializeSeedCandidate(f, k, c, FALSE) /\ mode = "registerOnly"
        \/ g = materializeSeedCandidate(f, k, c, mode = "nextWave")
    BY <1>3 DEF PromoteSeedCandidate
  <2>3. \A x : Noted(f, note(x), k)
    BY <1>3 DEF Noted, Frontier, SameControl
  <2>4. mode = "registerOnly" =>
           Added(f, materializeSeedCandidate(f, k, c, FALSE), k, c.ev)
    BY <1>3, <2>1, MaterializeEffect
  <2>5. Added(f, materializeSeedCandidate(f, k, c, mode = "nextWave"),
              k, c.ev)
    BY <1>3, <2>1, MaterializeEffect
  <2> HIDE DEF c, mode, g, note
  <2> QED
    BY <2>1, <2>2, <2>3, <2>4, <2>5 DEF g
<1> QED
  BY <1>1, <1>2, <1>3

\* The four outcomes of AdvanceSeedFrontier, field by field.
LEMMA AdvanceEffect ==
    ASSUME NEW f \in Frontier, NEW g, g = AdvanceSeedFrontier(f)
    PROVE  /\ g.seeds = f.seeds
           /\ g.known = f.known
           /\ g.candidates = f.candidates
           /\ g.maxDepth = f.maxDepth
           /\ \/ g.pending = NoSeeds
              \/ KeysOf(f.pending) = {} /\ g.pending = f.pending
           /\ g.collection = NoSeeds \/ g.collection = f.pending
           /\ AdvanceOpensWave(f) \/ g.collection = NoSeeds
<1>1. CASE KeysOf(f.pending) = {}
  <2>1. g = [f EXCEPT !.reserved = f.reserved /\ f.inProgress,
                      !.collection = NoSeeds]
    BY <1>1 DEF AdvanceSeedFrontier
  <2> QED
    BY <2>1, <1>1 DEF Frontier
<1>2. CASE KeysOf(f.pending) # {} /\ f.inProgress
  <2>1. g = [f EXCEPT !.pending = NoSeeds, !.collection = NoSeeds]
    BY <1>2 DEF AdvanceSeedFrontier
  <2> QED
    BY <2>1 DEF Frontier
<1>3. CASE KeysOf(f.pending) # {} /\ ~f.inProgress /\ f.reserved
  <2>1. g = [f EXCEPT !.reserved = FALSE, !.inProgress = TRUE,
                      !.collection = f.pending, !.pending = NoSeeds]
    BY <1>3 DEF AdvanceSeedFrontier
  <2> QED
    BY <2>1, <1>3 DEF Frontier, AdvanceOpensWave
<1>4. CASE KeysOf(f.pending) # {} /\ ~f.inProgress /\ ~f.reserved
  <2>1. g = [f EXCEPT !.depth = f.depth + 1,
                      !.collection = f.pending, !.pending = NoSeeds]
    BY <1>4 DEF AdvanceSeedFrontier
  <2> QED
    BY <2>1, <1>4 DEF Frontier, AdvanceOpensWave
<1> QED
  BY <1>1, <1>2, <1>3, <1>4

-----------------------------------------------------------------------------
(* The same, as seen through the keys of the slices.                       *)

\* Evidence may have changed, the keys have not.
KeptKeys(f, g) ==
    /\ KeysOf(g.seeds) = KeysOf(f.seeds)
    /\ KeysOf(g.collection) = KeysOf(f.collection)
    /\ KeysOf(g.pending) = KeysOf(f.pending)
    /\ g.known = f.known
    /\ SameControl(f, g)

\* Key k has become a seed, scheduled unless it is only registered.
NewKey(f, g, k) ==
    /\ k \notin f.known
    /\ g.known = f.known \cup {k}
    /\ KeysOf(g.seeds) = KeysOf(f.seeds) \cup {k}
    /\ KeysOf(g.collection) = KeysOf(f.collection)
    /\ IF f.inProgress THEN KeysOf(g.pending) = KeysOf(f.pending)
       ELSE /\ f.reserved \/ f.depth < f.maxDepth
            /\ KeysOf(g.pending) = KeysOf(f.pending) \cup {k}
    /\ SameControl(f, g)

\* The keys of a slice after an append or a merge.
LEMMA SliceKeys ==
    ASSUME NEW s \in Slice, NEW k \in Key, NEW ev
    PROVE  /\ KeysOf(appendSeed(s, k, ev)) = KeysOf(s) \cup {k}
           /\ KeysOf(mergeSeedIntoSlice(s, k, ev)) = KeysOf(s)
<1>1. \A j \in Key : appendSeed(s, k, ev)[j].n = IF j = k THEN s[k].n + 1 ELSE s[j].n
  BY DEF appendSeed, Slice
<1>2. \A j \in Key : mergeSeedIntoSlice(s, k, ev)[j].n = s[j].n
  BY DEF mergeSeedIntoSlice, Slice
<1>3. \A j \in Key : s[j].n \in Nat
  BY DEF Slice, Entry
<1> QED
  BY <1>1, <1>2, <1>3 DEF KeysOf

\* The empty slice has no keys.
LEMMA NoSeedsKeys == KeysOf(NoSeeds) = {}
BY DEF KeysOf, NoSeeds, NoEntry

\* Each effect, through its keys.
LEMMA EffectKeys ==
    ASSUME NEW f \in Frontier, NEW g, NEW k \in Key, NEW ev
    PROVE  /\ Merged(f, g, k, ev) => KeptKeys(f, g)
           /\ Added(f, g, k, ev) => NewKey(f, g, k)
           /\ Noted(f, g, k) => KeptKeys(f, g)
<1> USE DEF SameControl
<1>1. f.seeds \in Slice /\ f.collection \in Slice /\ f.pending \in Slice
  BY DEF Frontier
<1>2. Merged(f, g, k, ev) => KeptKeys(f, g)
  BY <1>1, SliceKeys DEF Merged, KeptKeys
<1>3. Added(f, g, k, ev) => NewKey(f, g, k)
  BY <1>1, SliceKeys DEF Added, NewKey, seedSchedulingMode
<1>4. Noted(f, g, k) => KeptKeys(f, g)
  BY DEF Noted, KeptKeys
<1> QED
  BY <1>2, <1>3, <1>4

\* EnqueueSeed adds its key or leaves the keys alone.
LEMMA EnqueueKeys ==
    ASSUME NEW f \in Frontier, NEW k \in Key, NEW ev \in SUBSET Signal
    PROVE  KeptKeys(f, EnqueueSeed(f, k, ev)) \/ NewKey(f, EnqueueSeed(f, k, ev), k)
<1>1. KeptKeys(f, f)
  BY DEF KeptKeys, SameControl
<1> QED
  BY <1>1, EnqueueEffect, EffectKeys

\* With reasoned evidence PromoteSeedCandidate adds its key only when the
\* promotion handler has accepted it.
LEMMA PromoteKeys ==
    ASSUME NEW f \in Frontier, NEW k \in Key, NEW o \in OfferType, NEW d, o.reasoned
    PROVE  LET g == PromoteSeedCandidate(f, k, o, d)
           IN  KeptKeys(f, g) \/ (d = "accepted" /\ NewKey(f, g, k))
<1> DEFINE g == PromoteSeedCandidate(f, k, o, d)
<1>1. KeptKeys(f, f)
  BY DEF KeptKeys, SameControl
<1>2. KeptKeys(f, g) \/ NewKey(f, g, k)
  BY <1>1, PromoteEffect, EffectKeys
<1>3. ASSUME d # "accepted", k \notin f.known PROVE g.known = f.known
  <2>1. shouldPromoteSeedCandidate(gatherCandidate(f, k, o))
    BY GatherTypes DEF shouldPromoteSeedCandidate, gatherCandidate, OfferType
  <2> QED
    BY <1>3, <2>1 DEF PromoteSeedCandidate, Frontier
<1> QED
  BY <1>2, <1>3 DEF NewKey

\* A reservation of the extra wave touches no frontier and no key, and is
\* refused once the extra wave runs.
LEMMA ReserveKeys ==
    ASSUME NEW f \in Frontier
    PROVE  LET g == ReserveExtraCollectionWave(f)
           IN  /\ KeysOf(g.seeds) = KeysOf(f.seeds)
               /\ KeysOf(g.collection) = KeysOf(f.collection)
               /\ KeysOf(g.pending) = KeysOf(f.pending)
               /\ g.known = f.known
               /\ g.depth = f.depth /\ g.maxDepth = f.maxDepth
               /\ g.inProgress = f.inProgress
               /\ g.reserved <=> f.reserved \/ ~f.inProgress
BY DEF ReserveExtraCollectionWave, Frontier

\* A restored scheduler has the frontiers it was saved with and knows the keys
\* of its seeds.
LEMMA RestoreKeys ==
    ASSUME NEW f \in Frontier
    PROVE  LET g == RestoreSchedulerState(f)
           IN  /\ g.seeds = f.seeds
               /\ g.collection = f.collection
               /\ g.pending = f.pending
               /\ g.known = KeysOf(f.seeds)
               /\ SameControl(f, g)
BY DEF RestoreSchedulerState, Frontier, SameControl

\* The submitted seeds are the first frontier and all that is known.
LEMMA InitializeKeys ==
    ASSUME NEW submitted \in Slice
    PROVE  LET g == InitializeSeedFrontier(submitted)
           IN  /\ g \in Frontier
               /\ KeysOf(g.seeds) = KeysOf(submitted)
               /\ KeysOf(g.collection) = KeysOf(submitted)
               /\ KeysOf(g.pending) = {}
               /\ g.known = KeysOf(submitted)
               /\ g.depth = 0 /\ g.maxDepth = maxCollectionDepth
               /\ g.reserved = FALSE /\ g.inProgress = FALSE
<1> DEFINE merged == [k \in Key |-> IF submitted[k].n > 0
                                    THEN [n |-> 1, ev |-> submitted[k].ev]
                                    ELSE NoEntry]
           g == InitializeSeedFrontier(submitted)
<1>1. merged \in Slice
  BY EntryTypes DEF Slice, Entry
<1>2. KeysOf(merged) = KeysOf(submitted)
  BY DEF KeysOf, NoEntry
<1>3. g = [seeds |-> merged, collection |-> merged, pending |-> NoSeeds,
           known |-> KeysOf(submitted), candidates |-> NoCandidates,
           depth |-> 0, maxDepth |-> maxCollectionDepth,
           reserved |-> FALSE, inProgress |-> FALSE]
  BY DEF InitializeSeedFrontier
<1>4. KeysOf(submitted) \in SUBSET Key
  BY DEF KeysOf
<1> HIDE DEF merged, g
<1>5. g \in Frontier
  BY <1>1, <1>3, <1>4, EntryTypes DEF Frontier
<1> QED
  BY <1>2, <1>3, <1>5, NoSeedsKeys DEF g

\* AdvanceSeedFrontier opens a wave of the pending keys, the reserved one or the
\* next depth, or empties the frontier.
LEMMA AdvanceKeys ==
    ASSUME NEW f \in Frontier
    PROVE  LET g == AdvanceSeedFrontier(f)
           IN  /\ g.seeds = f.seeds /\ g.known = f.known /\ g.maxDepth = f.maxDepth
               /\ KeysOf(g.pending) = {}
               /\ IF AdvanceOpensWave(f)
                  THEN /\ KeysOf(g.collection) = KeysOf(f.pending)
                       /\ g.reserved = FALSE
                       /\ g.inProgress = f.reserved
                       /\ g.depth = IF f.reserved THEN f.depth ELSE f.depth + 1
                  ELSE /\ KeysOf(g.collection) = {}
                       /\ g.inProgress = f.inProgress
                       /\ g.depth = f.depth
                       /\ g.reserved => f.reserved /\ f.inProgress
<1> USE NoSeedsKeys
<1>1. CASE KeysOf(f.pending) = {}
  BY <1>1 DEF AdvanceSeedFrontier, AdvanceOpensWave, Frontier
<1>2. CASE KeysOf(f.pending) # {} /\ f.inProgress
  BY <1>2 DEF AdvanceSeedFrontier, AdvanceOpensWave, Frontier
<1>3. CASE KeysOf(f.pending) # {} /\ ~f.inProgress /\ f.reserved
  BY <1>3 DEF AdvanceSeedFrontier, AdvanceOpensWave, Frontier
<1>4. CASE KeysOf(f.pending) # {} /\ ~f.inProgress /\ ~f.reserved
  BY <1>4 DEF AdvanceSeedFrontier, AdvanceOpensWave, Frontier
<1> QED
  BY <1>1, <1>2, <1>3, <1>4

=============================================================================
