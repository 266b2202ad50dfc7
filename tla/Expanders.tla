----------------------------- MODULE Expanders -----------------------------
(***************************************************************************)
(* The stages that propose roots from what a run has learned so far:       *)
(* expand.AISearchCollector, once per wave, and after the last wave        *)
(* reconsider.DiscardedCandidateReconsiderer, whose promotions get one     *)
(* extra wave.  Each promoted root is a seed of the next wave.             *)
(*                                                                         *)
(* A seed is [id, roots]; a candidate of a search is its root, and the     *)
(* size of its evidence is what it adds to a prompt.                       *)
(***************************************************************************)
EXTENDS StageContext

CONSTANTS
    SearchWorld,        \* found: root -> what a search for it returns, a sequence of
                        \* [root, good (summary and evidence are usable)]; earlier:
                        \* evaluations other stages put on record
    SearchSeeds,        \* the seeds the run starts with
    Denylist,           \* roots of platforms that are never candidates
    EvidenceSize,       \* root -> size
    BasePrompt, MaxPromptChars, MaxReconsiderChars,
    MaxCandidates,      \* candidates kept of one search
    MaxJudgedCandidates,
    MaxSearchWaves      \* the collection depth and one

SearchRoot == DOMAIN EvidenceSize

\* Searches and seeds name registrable roots; what is on record before the first
\* search comes from other stages.
ASSUME SearchAssumption ==
    /\ \A s \in SearchSeeds : s.roots \subseteq SearchRoot
    /\ \A w \in SearchWorld :
          /\ w.found \in [SearchRoot -> Seq([root : SearchRoot, good : BOOLEAN])]
          /\ w.earlier \in Seq(Range(w.earlier))
          /\ \A e \in Range(w.earlier) :
                /\ e.by # "ai_search" /\ DOMAIN e.outcomes \subseteq SearchRoot
                /\ \A r \in DOMAIN e.outcomes : e.outcomes[r].collect \in BOOLEAN

VARIABLES
    expWorld,
    exp          \* phase, wave, extra, todo (<<seed, focus root>>), executed
                 \* (AISearchExecutedRoots), evals (JudgeEvaluations with their
                 \* seeds), pending (roots of the next wave), seed, plan, requests,
                 \* groups (seeds to reconsider), errors

expVars == <<expWorld, exp>>

NoPlan == [candidates |-> {}, truncated |-> {}, skipped |-> {}, requests |-> <<>>,
           current |-> <<>>]
NoSearchSeed == [id |-> "none", roots |-> {}]

ExpandInit ==
    /\ expWorld = CHOOSE w \in SearchWorld : TRUE
    /\ exp = [phase |-> "idle", wave |-> 1, extra |-> FALSE, todo |-> {}, executed |-> {},
              evals |-> <<>>, pending |-> {}, seed |-> NoSearchSeed, plan |-> NoPlan,
              requests |-> <<>>, groups |-> {}, errors |-> 0]

FocusRoots(seeds) == UNION {{s} \X s.roots : s \in seeds}

-----------------------------------------------------------------------------
(* A search and the requests to the judge made of it.                      *)

\* normalizeSearchResult: usable candidates, each root once, up to the limit.  They
\* are known by their places in what was found.
normalizeSearchResult(found) ==
    FirstPlaces(MaxCandidates,
        {i \in DOMAIN found :
            /\ found[i].good
            /\ \A j \in DOMAIN found : j < i /\ found[j].good => found[j].root # found[i].root})

Outcomes(seed, collect) ==
    UNION {{r \in DOMAIN e.outcomes : e.outcomes[r].collect = collect} :
              e \in {x \in Range(exp.evals) : x.seed = seed.id}}

JudgedRoots_Accepted(seed) == Outcomes(seed, TRUE)

\* judgeRootsForSeed: the roots some judge accepted or discarded for the seed.
JudgedRoots(seed) == Outcomes(seed, TRUE) \cup Outcomes(seed, FALSE)

\* Roots of the seed, roots already judged for it, platforms and roots that were
\* searched themselves are no candidates.
filterAISearchCandidates(seed, executed, found) ==
    {i \in normalizeSearchResult(found) :
        found[i].root \notin seed.roots \cup JudgedRoots(seed) \cup Denylist \cup executed}

EstimatePromptSize(roots) == BasePrompt + FoldLeft(LAMBDA n, r : n + EvidenceSize[r], 0, roots)

Fits(roots) == MaxPromptChars > 0 => EstimatePromptSize(roots) <= MaxPromptChars

Flush(plan) == IF plan.current = <<>> THEN plan
               ELSE [plan EXCEPT !.requests = Append(@, plan.current), !.current = <<>>]

PlanCandidate_FlushOnly(plan, r) ==
    IF Fits(Append(plan.current, r)) THEN [plan EXCEPT !.current = Append(@, r)]
    ELSE IF plan.current = <<>> THEN [plan EXCEPT !.skipped = @ \cup {r}]
    ELSE Flush(plan)

\* The next candidate joins the request at hand, or the one after it when it no
\* longer fits, or is skipped when it alone does not.
PlanCandidate(plan, r) ==
    IF Fits(Append(plan.current, r)) THEN [plan EXCEPT !.current = Append(@, r)]
    ELSE IF Fits(<<r>>) THEN [Flush(plan) EXCEPT !.current = <<r>>]
    ELSE [Flush(plan) EXCEPT !.skipped = @ \cup {r}]

\* The candidates for the judge: the first ones up to the cap.
selectedRoots(candidates) ==
    IF MaxJudgedCandidates > 0 THEN FirstPlaces(MaxJudgedCandidates, candidates) ELSE candidates

buildJudgeRequests(found, candidates) ==
    LET rootsOf(places) == {found[i].root : i \in places}
        judged == selectedRoots(candidates)
        planned[i \in 0..Len(found)] ==
            IF i = 0 THEN [NoPlan EXCEPT !.candidates = rootsOf(candidates),
                                         !.truncated = rootsOf(candidates \ judged)]
            ELSE IF i \in judged THEN PlanCandidate(planned[i - 1], found[i].root)
            ELSE planned[i - 1]
    IN  Flush(planned[Len(found)])

-----------------------------------------------------------------------------

\* The first wave; the record holds what other stages were told before.
ExpandStart ==
    /\ exp.phase = "idle"
    /\ \E w \in SearchWorld :
          /\ expWorld' = w
          /\ exp' = [exp EXCEPT !.phase = "search", !.evals = w.earlier,
                                !.todo = FocusRoots(SearchSeeds)]
    /\ UNCHANGED pctx

\* Without a provider or a judge the expander does nothing (an event tells so).
SearchDisabled == ~expWorld.provider \/ ~pctx.judge

\* One focus root: searched at most once in the run, whatever comes of it.
AISearchRoot(f, answers) ==
    /\ exp.phase = "search" /\ f \in exp.todo /\ ~SearchDisabled
    /\ LET executed == exp.executed \cup {f[2]}
           found == expWorld.found[f[2]]
           plan == buildJudgeRequests(found, filterAISearchCandidates(f[1], executed, found))
           next == [exp EXCEPT !.todo = @ \ {f}, !.executed = executed]
       IN  exp' = IF f[2] \in exp.executed THEN [exp EXCEPT !.todo = @ \ {f}]
                  ELSE IF ~answers THEN [next EXCEPT !.errors = @ + 1]
                  ELSE [next EXCEPT !.phase = "judge", !.seed = f[1], !.plan = plan,
                                    !.requests = plan.requests]
    /\ UNCHANGED <<expWorld, pctx>>

AIRequest == Range(Head(exp.requests))

\* A request the judge fails on is dropped; its roots stay undecided.
AIJudgeFails ==
    /\ exp.phase = "judge" /\ exp.requests # <<>>
    /\ exp' = [exp EXCEPT !.requests = Tail(@), !.errors = @ + 1]
    /\ UNCHANGED <<expWorld, pctx>>

\* seedSchedulingMode: at the depth limit and in the extra wave an accepted root
\* becomes a seed that no wave will collect.
Schedules == exp.wave < MaxSearchWaves /\ ~exp.extra

AIJudged(reply, accepted) ==
    /\ exp.phase = "judge" /\ exp.requests # <<>>
    /\ JudgeReplies("ai_search_collector", AIRequest, reply, accepted)
    /\ exp' = [exp EXCEPT !.requests = Tail(@),
                  !.evals = Append(@, [by |-> "ai_search", seed |-> exp.seed.id,
                                       outcomes |-> EvaluateCandidates(AIRequest, reply)]),
                  !.pending = IF Schedules THEN @ \cup (accepted \ pctx.known) ELSE @]
    /\ UNCHANGED expWorld

AIRootDone ==
    /\ exp.phase = "judge" /\ exp.requests = <<>>
    /\ exp' = [exp EXCEPT !.phase = "search", !.plan = NoPlan]
    /\ UNCHANGED <<expWorld, pctx>>

NextWave(e) ==
    [e EXCEPT !.phase = "search", !.wave = @ + 1, !.pending = {},
              !.todo = FocusRoots({[id |-> r, roots |-> {r}] : r \in e.pending})]

\* The wave is over.  The extra wave is the last one.
ExpandWaveDone ==
    /\ exp.phase = "search" /\ (SearchDisabled \/ exp.todo = {})
    /\ LET done == [exp EXCEPT !.todo = {}]
       IN  exp' = IF exp.extra THEN [done EXCEPT !.phase = "returned"]
                  ELSE IF exp.pending # {} THEN NextWave(done)
                  ELSE [done EXCEPT !.phase = "reconsider"]
    /\ UNCHANGED <<expWorld, pctx>>

-----------------------------------------------------------------------------
(* The reconsideration of discarded candidates.                            *)

\* aggregateDiscardedCandidates: what any judge discarded for seed s, explicitly
\* or by not mentioning it, unless a seed has that root by now.
Discards(s) ==
    UNION {{r \in DOMAIN e.outcomes : ~e.outcomes[r].collect} \ pctx.known :
              e \in {x \in Range(exp.evals) : x.seed = s}}

\* Process: the groups are formed before the first one is judged.
ReconsiderStart ==
    /\ exp.phase = "reconsider"
    /\ LET parents == {s \in {e.seed : e \in Range(exp.evals)} : Discards(s) # {}}
       IN  exp' = [exp EXCEPT !.phase = "regroup",
                      !.groups = IF pctx.judge THEN {<<s, Discards(s)>> : s \in parents} ELSE {}]
    /\ UNCHANGED <<expWorld, pctx>>

Oversized(roots) ==
    MaxReconsiderChars > 0 /\ EstimatePromptSize(SetToSeq(roots)) > MaxReconsiderChars

\* A group that is too large for a prompt, or that the judge fails on.
ReconsiderFails(g) ==
    /\ exp.phase = "regroup" /\ g \in exp.groups
    /\ exp' = [exp EXCEPT !.groups = @ \ {g}, !.errors = @ + 1]
    /\ UNCHANGED <<expWorld, pctx>>

ReconsiderJudged(g, reply, accepted) ==
    /\ exp.phase = "regroup" /\ g \in exp.groups /\ ~Oversized(g[2])
    /\ JudgeReplies("discarded_candidate_reconsiderer", g[2], reply, accepted)
    /\ exp' = [exp EXCEPT !.groups = @ \ {g},
                  !.evals = Append(@, [by |-> "reconsider", seed |-> g[1],
                                       outcomes |-> EvaluateCandidates(g[2], reply)]),
                  !.pending = @ \cup (accepted \ pctx.known)]
    /\ UNCHANGED expWorld

ReconsiderDone ==
    /\ exp.phase = "regroup" /\ exp.groups = {}
    /\ exp' = IF exp.pending = {} THEN [exp EXCEPT !.phase = "returned"]
              ELSE [NextWave(exp) EXCEPT !.extra = TRUE]
    /\ UNCHANGED <<expWorld, pctx>>

ExpandNext ==
    \/ ExpandStart
    \/ \E f \in exp.todo, answers \in BOOLEAN : AISearchRoot(f, answers)
    \/ AIJudgeFails
    \/ /\ exp.requests # <<>>
       /\ \E reply \in Replies(AIRequest), accepted \in SUBSET AIRequest : AIJudged(reply, accepted)
    \/ AIRootDone \/ ExpandWaveDone \/ ReconsiderStart
    \/ \E g \in exp.groups : ReconsiderFails(g)
    \/ \E g \in exp.groups : \E reply \in Replies(g[2]), accepted \in SUBSET g[2] :
          ReconsiderJudged(g, reply, accepted)
    \/ ReconsiderDone

-----------------------------------------------------------------------------
(* Properties.                                                             *)

\* The batches lose no candidate and exceed no limit: every candidate of a search
\* is in exactly one request, or truncated by the cap, or skipped because it does
\* not fit into a prompt of its own, and no request exceeds the prompt's limit
\* (buildJudgeRequests).
BatchesCoverCandidates ==
    LET asked(r) == Cardinality({i \in DOMAIN exp.plan.requests : r \in Range(exp.plan.requests[i])})
    IN  /\ \A r \in exp.plan.candidates :
              IF asked(r) = 0
              THEN \/ r \in exp.plan.truncated
                   \/ r \in exp.plan.skipped /\ ~Fits(<<r>>)
              ELSE asked(r) = 1 /\ r \notin exp.plan.truncated \cup exp.plan.skipped
        /\ \A i \in DOMAIN exp.plan.requests : Fits(exp.plan.requests[i])

\* In whatever waves and for whatever focus roots a root turns up, no seed's
\* search puts a root to the judge that a judge has already decided on for that
\* seed (filterAISearchCandidates over the record as it is after each search).
NotAskedAgain ==
    \A i, j \in DOMAIN exp.evals :
        /\ i < j /\ exp.evals[j].by = "ai_search" /\ exp.evals[i].seed = exp.evals[j].seed
        => DOMAIN exp.evals[i].outcomes \cap DOMAIN exp.evals[j].outcomes = {}

=============================================================================
