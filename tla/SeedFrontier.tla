----------------------------- MODULE SeedFrontier -----------------------------
(***************************************************************************)
(* The seed scheduler under any sequence of calls of its API: collectors,  *)
(* enrichers, expanders and the reconsiderer add seeds in any order, the   *)
(* engine reserves and advances, a resumed run restores a snapshot.  The   *)
(* engine's own calling discipline is module PipelineEngine; what is shown *)
(* here does not depend on it.                                             *)
(***************************************************************************)
EXTENDS FrontierOps

CONSTANTS
    Submission,   \* possible values of PipelineContext.Seeds at creation
    Offer         \* evidence the callers of PromoteSeedCandidate present

ASSUME SubmissionAssumption == Submission \subseteq Slice
ASSUME OfferAssumption == Offer \subseteq OfferType

VARIABLES
    frontier,     \* the scheduler fields of the PipelineContext
    collected,    \* history: every key that has been in a collection frontier
    opened        \* history: how often AdvanceSeedFrontier opened a wave

vars == <<frontier, collected, opened>>

Decision == {"accepted", "pending_review", "rejected"}

TypeOK ==
    /\ frontier \in Frontier
    /\ collected \in SUBSET Key
    /\ opened \in Nat

Init ==
    \E submitted \in Submission :
        /\ frontier = InitializeSeedFrontier(submitted)
        /\ collected = KeysOf(submitted)
        /\ opened = 0

Enqueue(k, ev) ==
    /\ frontier' = EnqueueSeed(frontier, k, ev)
    /\ UNCHANGED <<collected, opened>>

Promote(k, o, decision) ==
    /\ frontier' = PromoteSeedCandidate(frontier, k, o, decision)
    /\ UNCHANGED <<collected, opened>>

Reserve ==
    /\ frontier' = ReserveExtraCollectionWave(frontier)
    /\ UNCHANGED <<collected, opened>>

Advance ==
    /\ frontier' = AdvanceSeedFrontier(frontier)
    /\ collected' = collected \cup KeysOf(frontier'.collection)
    /\ opened' = IF AdvanceOpensWave(frontier) THEN opened + 1 ELSE opened

Restore ==
    /\ frontier' = RestoreSchedulerState(frontier)
    /\ UNCHANGED <<collected, opened>>

Next ==
    \/ \E k \in Key, o \in Offer : Enqueue(k, o.own)
    \/ \E k \in Key, o \in Offer, d \in Decision : Promote(k, o, d)
    \/ Reserve
    \/ Advance
    \/ Restore

Spec == Init /\ [][Next]_vars

-----------------------------------------------------------------------------
(* Properties.                                                             *)

\* Deduplication (seed_frontier.go, knownSeedKeys): whatever mixture of direct
\* enqueues, promotions, merges and restores happened, Seeds has at most one
\* entry per key, and the keys it has are exactly the keys every later call is
\* checked against.
SeedsDeduplicated ==
    /\ \A k \in Key : frontier.seeds[k].n <= 1
    /\ frontier.known = KeysOf(frontier.seeds)

\* A key waits as a candidate only while it is not a seed: a key that became a
\* seed by another path leaves no candidate behind that could promote it again.
NoCandidateIsKnown ==
    \A k \in frontier.known : ~frontier.candidates[k].present

\* A seed waiting for the next wave has never been in a wave before, and waits
\* only once: no key is collected twice however often it is rediscovered.
PendingNeverCollected ==
    \A k \in KeysOf(frontier.pending) :
        /\ k \notin collected
        /\ k \in frontier.known
        /\ frontier.pending[k].n = 1

\* The copies of a seed that the waves work on carry the evidence the copy in
\* Seeds carries (mergeSeedAcrossSlicesLocked reaches all of them).
CopiesAgree ==
    \A k \in Key :
        /\ frontier.pending[k].n > 0 =>
              frontier.pending[k].ev = frontier.seeds[k].ev
        /\ frontier.collection[k].n > 0 =>
              frontier.collection[k].ev = frontier.seeds[k].ev

\* The number of waves opened after the first is bounded by the expansion depth
\* plus the one reserved wave, for every interleaving of reservations,
\* discoveries and advances.
WavesBounded ==
    /\ opened <= maxCollectionDepth + 1
    /\ ~frontier.inProgress => opened <= maxCollectionDepth

\* What makes the bound inductive: a seed is pending only if some advance may
\* still take it, and opened counts the depth plus the extra wave.
BoundInv ==
    /\ frontier.maxDepth = maxCollectionDepth
    /\ frontier.depth <= frontier.maxDepth
    /\ opened = frontier.depth + (IF frontier.inProgress THEN 1 ELSE 0)
    /\ frontier.inProgress => KeysOf(frontier.pending) = {}
    /\ ~(frontier.inProgress /\ frontier.reserved)
    /\ KeysOf(frontier.pending) # {} /\ ~frontier.reserved
         => frontier.depth < frontier.maxDepth

\* What makes the deduplication inductive: everything that was ever in a wave is
\* known, and a key without an entry carries no evidence.
HistoryInv ==
    /\ KeysOf(frontier.collection) \subseteq collected
    /\ collected \subseteq frontier.known
    /\ \A k \in Key :
         /\ frontier.seeds[k].n = 0 => frontier.seeds[k].ev = {}
         /\ frontier.pending[k].n = 0 => frontier.pending[k].ev = {}

\* The inductive invariant of the proofs.
IInv ==
    /\ TypeOK
    /\ SeedsDeduplicated
    /\ NoCandidateIsKnown
    /\ PendingNeverCollected
    /\ CopiesAgree
    /\ HistoryInv
    /\ BoundInv

\* Once the reserved wave is in progress the collection frontier is never
\* filled again: seeds found in it are recorded but open no further wave.
LastWaveIsLast ==
    [][frontier.inProgress =>
         KeysOf(frontier'.collection) \subseteq KeysOf(frontier.collection)]_vars

=============================================================================
