----------------------------- MODULE FrontierOps -----------------------------
(***************************************************************************)
(* The scheduler part of models.PipelineContext as functions on its state. *)
(* Every Go method below runs under the context's mutex, so a call is one  *)
(* atomic step; a step is the function applied to the current frontier.    *)
(*                                                                         *)
(* A seed is reduced to its deduplication key (seedKey) and to the set of  *)
(* evidence signals it carries.  A slice of seeds is, for every key, how   *)
(* many entries have that key and what evidence they carry; the order of   *)
(* the entries decides nothing.                                            *)
(***************************************************************************)
EXTENDS Integers, FiniteSets

CONSTANTS
    Key,        \* deduplication keys of seeds (registrable roots, hosts)
    Signal,     \* evidence signals: a source and a kind, "source|kind"
    MaxDepth    \* the argument of InitializeSeedFrontier

ASSUME MaxDepthAssumption == MaxDepth \in Int

\* What one call offers: the evidence the seed carries itself, the signal of
\* the evidence argument ({} if its source or kind is empty), whether the
\* confidence of the seed / of the evidence is at least 0.9, and whether any
\* of the evidence is reasoned.
OfferType == [own : SUBSET Signal, sig : SUBSET Signal,
              seedStrong : BOOLEAN, sigStrong : BOOLEAN, reasoned : BOOLEAN]

Entry == [n : Nat, ev : SUBSET Signal]
Slice == [Key -> Entry]
NoEntry == [n |-> 0, ev |-> {}]
NoSeeds == [k \in Key |-> NoEntry]
KeysOf(slice) == {k \in Key : slice[k].n > 0}

Candidate == [present : BOOLEAN, sigs : SUBSET Signal, ev : SUBSET Signal,
              strong : BOOLEAN, reasoned : BOOLEAN]
NoCandidate == [present |-> FALSE, sigs |-> {}, ev |-> {},
                strong |-> FALSE, reasoned |-> FALSE]
NoCandidates == [k \in Key |-> NoCandidate]

Frontier == [seeds : Slice, pending : Slice, collection : Slice,
             known : SUBSET Key, candidates : [Key -> Candidate],
             depth : Nat, maxDepth : Nat,
             reserved : BOOLEAN, inProgress : BOOLEAN]

-----------------------------------------------------------------------------
(* Slices.                                                                 *)

appendSeed(slice, k, ev) ==
    [slice EXCEPT ![k] = [n |-> slice[k].n + 1, ev |-> slice[k].ev \cup ev]]

mergeSeedIntoSlice(slice, k, ev) ==
    IF slice[k].n > 0
    THEN [slice EXCEPT ![k] = [n |-> slice[k].n, ev |-> slice[k].ev \cup ev]]
    ELSE slice

mergeSeedAcrossSlices_SkipsPending(f, k, ev, strong, reasoned) ==
    [f EXCEPT !.seeds = mergeSeedIntoSlice(f.seeds, k, ev),
              !.collection = mergeSeedIntoSlice(f.collection, k, ev)]

\* The copies of one seed in Seeds, in the active frontier and in the pending
\* frontier are separate values: a merge has to reach each of them.
mergeSeedAcrossSlices(f, k, ev, strong, reasoned) ==
    [f EXCEPT !.seeds = mergeSeedIntoSlice(f.seeds, k, ev),
              !.collection = mergeSeedIntoSlice(f.collection, k, ev),
              !.pending = mergeSeedIntoSlice(f.pending, k, ev),
              !.candidates =
                 [f.candidates EXCEPT ![k] =
                    IF f.candidates[k].present
                    THEN [f.candidates[k] EXCEPT
                            !.ev = f.candidates[k].ev \cup ev,
                            !.strong = f.candidates[k].strong \/ strong,
                            !.reasoned = f.candidates[k].reasoned \/ reasoned]
                    ELSE f.candidates[k]]]

-----------------------------------------------------------------------------
(* Setting up and advancing the frontier.                                  *)

maxCollectionDepth == IF MaxDepth < 0 THEN 0 ELSE MaxDepth

InitializeSeedFrontier_DepthFromMinusOne(submitted) ==
    [seeds |-> submitted, collection |-> submitted, pending |-> NoSeeds,
     known |-> KeysOf(submitted), candidates |-> NoCandidates,
     depth |-> -1, maxDepth |-> maxCollectionDepth,
     reserved |-> FALSE, inProgress |-> FALSE]

\* submitted is PipelineContext.Seeds as the run was created: one key may have
\* several entries, which become one.
InitializeSeedFrontier(submitted) ==
    LET merged == [k \in Key |-> IF submitted[k].n > 0
                                 THEN [n |-> 1, ev |-> submitted[k].ev]
                                 ELSE NoEntry]
    IN  [seeds |-> merged, collection |-> merged, pending |-> NoSeeds,
         known |-> KeysOf(submitted), candidates |-> NoCandidates,
         depth |-> 0, maxDepth |-> maxCollectionDepth,
         reserved |-> FALSE, inProgress |-> FALSE]

CollectionSeeds(f) == KeysOf(f.collection)

ReserveExtraCollectionWave(f) ==
    IF f.reserved \/ f.inProgress THEN f ELSE [f EXCEPT !.reserved = TRUE]

\* Whether AdvanceSeedFrontier answers true: another wave is to be collected.
AdvanceOpensWave(f) == KeysOf(f.pending) # {} /\ ~f.inProgress

AdvanceSeedFrontier(f) ==
    IF KeysOf(f.pending) = {}
    THEN [f EXCEPT !.reserved = f.reserved /\ f.inProgress,
                   !.collection = NoSeeds]
    ELSE IF f.inProgress
    THEN [f EXCEPT !.pending = NoSeeds, !.collection = NoSeeds]
    ELSE IF f.reserved
    THEN [f EXCEPT !.reserved = FALSE, !.inProgress = TRUE,
                   !.collection = f.pending, !.pending = NoSeeds]
    ELSE [f EXCEPT !.depth = f.depth + 1,
                   !.collection = f.pending, !.pending = NoSeeds]

-----------------------------------------------------------------------------
(* Adding seeds.                                                           *)

seedSchedulingMode_IgnoresDepth(f) ==
    IF f.inProgress THEN "registerOnly" ELSE "nextWave"

seedSchedulingMode(f) ==
    IF f.inProgress THEN "registerOnly"
    ELSE IF f.reserved \/ f.depth < f.maxDepth THEN "nextWave"
    ELSE "reject"

EnqueueSeed_JoinsWave(f, k, ev) ==
    IF seedSchedulingMode(f) = "reject" THEN f
    ELSE IF k \in f.known
    THEN mergeSeedAcrossSlices(f, k, ev, FALSE, FALSE)
    ELSE [f EXCEPT !.candidates = [f.candidates EXCEPT ![k] = NoCandidate],
                   !.known = f.known \cup {k},
                   !.seeds = appendSeed(f.seeds, k, ev),
                   !.pending = IF seedSchedulingMode(f) = "nextWave"
                               THEN appendSeed(f.pending, k, ev)
                               ELSE f.pending,
                   !.collection = IF seedSchedulingMode(f) = "registerOnly"
                                  THEN appendSeed(f.collection, k, ev)
                                  ELSE f.collection]

\* A seed scheduled without asking the promotion handler.
EnqueueSeed(f, k, ev) ==
    IF seedSchedulingMode(f) = "reject" THEN f
    ELSE IF k \in f.known
    THEN mergeSeedAcrossSlices(f, k, ev, FALSE, FALSE)
    ELSE [f EXCEPT !.candidates = [f.candidates EXCEPT ![k] = NoCandidate],
                   !.known = f.known \cup {k},
                   !.seeds = appendSeed(f.seeds, k, ev),
                   !.pending = IF seedSchedulingMode(f) = "nextWave"
                               THEN appendSeed(f.pending, k, ev)
                               ELSE f.pending]

shouldPromoteSeedCandidate(c) ==
    c.reasoned \/ c.strong \/ \E s, t \in c.sigs : s # t

\* The candidate after this call's evidence is added to what was gathered.
\* The seed's own evidence is kept but is not one of the counted signals.
gatherCandidate(f, k, o) ==
    LET c == f.candidates[k] IN
    [present |-> TRUE,
     sigs |-> c.sigs \cup o.sig,
     ev |-> c.ev \cup o.own \cup o.sig,
     strong |-> \/ c.strong \/ o.seedStrong
                \/ o.sig # {} /\ o.sigStrong,
     reasoned |-> c.reasoned \/ o.reasoned]

materializeSeedCandidate(f, k, c, schedule) ==
    [f EXCEPT !.candidates = [f.candidates EXCEPT ![k] = NoCandidate],
              !.known = f.known \cup {k},
              !.seeds = appendSeed(f.seeds, k, c.ev),
              !.pending = IF schedule THEN appendSeed(f.pending, k, c.ev)
                          ELSE f.pending]

\* The promotion handler is asked, with the context's mutex held.
AsksHandler(f, k, o) ==
    /\ seedSchedulingMode(f) # "reject"
    /\ k \notin f.known
    /\ shouldPromoteSeedCandidate(gatherCandidate(f, k, o))

PromoteSeedCandidate_ForgetsKnown(f, k, o, decision) ==
    LET mode == seedSchedulingMode(f)
        c == gatherCandidate(f, k, o)
    IN  IF mode = "reject" THEN f
        ELSE IF ~shouldPromoteSeedCandidate(c)
        THEN IF mode = "registerOnly"
             THEN materializeSeedCandidate(f, k, c, FALSE)
             ELSE [f EXCEPT !.candidates = [f.candidates EXCEPT ![k] = c]]
        ELSE IF decision = "accepted"
        THEN materializeSeedCandidate(f, k, c, mode = "nextWave")
        ELSE [f EXCEPT !.candidates =
                          [f.candidates EXCEPT ![k] = NoCandidate]]

\* decision is the handler's answer; without a handler it is "accepted".
PromoteSeedCandidate(f, k, o, decision) ==
    LET mode == seedSchedulingMode(f)
        c == gatherCandidate(f, k, o)
    IN  IF mode = "reject" THEN f
        ELSE IF k \in f.known
        THEN mergeSeedAcrossSlices(f, k, o.own \cup o.sig,
                                   o.seedStrong, o.reasoned)
        ELSE IF ~shouldPromoteSeedCandidate(c)
        THEN IF mode = "registerOnly"
             THEN materializeSeedCandidate(f, k, c, FALSE)
             ELSE [f EXCEPT !.candidates = [f.candidates EXCEPT ![k] = c]]
        ELSE IF decision = "accepted"
        THEN materializeSeedCandidate(f, k, c, mode = "nextWave")
        ELSE [f EXCEPT !.candidates =
                          [f.candidates EXCEPT ![k] = NoCandidate]]

-----------------------------------------------------------------------------
(* Checkpoints.  A snapshot holds the context's Seeds and the scheduler    *)
(* state; the known keys are rebuilt from Seeds, gathered candidate        *)
(* evidence is not part of it.                                             *)

RestoreSchedulerState_ForgetsKnown(f) ==
    [f EXCEPT !.known = KeysOf(f.collection), !.candidates = NoCandidates]

RestoreSchedulerState(f) ==
    [f EXCEPT !.known = KeysOf(f.seeds), !.candidates = NoCandidates]

=============================================================================
