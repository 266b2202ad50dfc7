---------------------------- MODULE StageContext ----------------------------
(***************************************************************************)
(* What the discovery stages share: the part of PipelineContext they write *)
(* to, the ownership and web-hint judges, and the promotion of the roots a *)
(* judge approves.  The scheduler behind PromoteSeedCandidate is module    *)
(* SeedFrontier; here it may accept any of the approved roots.             *)
(*                                                                         *)
(* A confidence is reduced to the band it is in: 0 below 0.20, 1 below     *)
(* 0.50, 2 from 0.50 on.                                                   *)
(***************************************************************************)
EXTENDS Integers, FiniteSets, Sequences, SequencesExt

\* The first n of these places of a list.
FirstPlaces(n, places) == {i \in places : Cardinality({j \in places : j < i}) < n}

VARIABLE pctx   \* threshold, judge (a judge is configured), log (what judges
                \* decided), known (roots of all seeds), promoted (roots that
                \* became seeds), assets and relations, sweptLabels

Confidence == 0..2

\* SetCandidatePromotionConfidenceThreshold: manual runs promote from 0.20 on,
\* autonomous ones from 0.50 on.
Threshold == {1, 2}

NewStageContext(seedRoots) ==
    [threshold : Threshold, judge : BOOLEAN, log : {{}}, known : {seedRoots},
     promoted : {{}}, assets : {{}}, relations : {{}}, sweptLabels : {{}}]

\* What a judge's reply says of one root, and a root it does not mention.  No
\* stage looks at the confidence of a discard.
Silence == [said |-> FALSE, collect |-> FALSE, conf |-> 0]
Reply == [said : {TRUE}, collect : {TRUE}, conf : Confidence]
         \cup [said : {TRUE}, collect : {FALSE}, conf : {2}]
Replies(roots) == [roots -> Reply \cup {Silence}]

\* EvaluateCandidates: one decision for every root of the request, whatever the
\* reply says of others; a root the reply leaves out is a discard that is not
\* explicit.
EvaluateCandidates(request, reply) ==
    [r \in request |->
        [collect |-> reply[r].said /\ reply[r].collect,
         conf |-> reply[r].conf, explicit |-> reply[r].said]]

\* The roots a stage goes on to promote.
Approved(decisions, threshold) ==
    {r \in DOMAIN decisions : decisions[r].collect /\ decisions[r].conf >= threshold}

\* RecordOwnershipJudgeEvaluation and RecordWebHintJudgeEvaluation: one outcome
\* for every root of the request; a request without roots leaves no record.
RecordJudgeEvaluation(log, collector, decisions) ==
    IF DOMAIN decisions = {} THEN log
    ELSE log \cup {[collector |-> collector, outcomes |-> decisions]}

\* A stage handles the judge's reply to its request: the decisions are recorded,
\* the approved roots put to PromoteSeedCandidate, which accepts some of them
\* and schedules those it does not know yet.
JudgeReplies(collector, request, reply, accepted) ==
    LET decisions == EvaluateCandidates(request, reply)
    IN  /\ accepted \subseteq Approved(decisions, pctx.threshold)
        /\ pctx' = [pctx EXCEPT
              !.log = RecordJudgeEvaluation(@, collector, decisions),
              !.promoted = @ \cup (accepted \ pctx.known),
              !.known = @ \cup accepted]

=============================================================================
