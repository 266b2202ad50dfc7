-------------------------- MODULE WebHintCollector --------------------------
(***************************************************************************)
(* collect.WebHintCollector.Process: the home pages and security.txt files *)
(* of each seed's domains are fetched, the foreign roots they name go to   *)
(* the web-hint judge, and every turn the search can take is told to the   *)
(* run's activity log, so that a reader sees why a seed yielded nothing.   *)
(***************************************************************************)
EXTENDS StageContext, FetchRetry

CONSTANTS
    HintTarget,      \* per domain, the URLs of buildTargets in order
    HomePage,        \* the targets that are home pages; the others are security.txt
    HintWorld,       \* per target: final (root after redirects), hints <<raw, text>>
                     \* in document order, good (the body parses)
    HintSeeds,       \* seeds: sequences of domains
    HintDomainRoot,  \* registrable root of a domain
    RootsOfHint,     \* ExtractDomainCandidates and RegistrableDomain of a raw hint
    MaxSamples       \* samples kept per root

VARIABLES
    hintWorld,
    hint         \* Process: phase, seeds, seed, targets to come, candidateByRoot,
                 \* stats, newErrors, newAssets, events (by seed)

hintVars == <<hintWorld, hint, fetchVars>>

NoStats == [targets |-> 0, successful |-> 0, skipped |-> 0,
            fetchErrors |-> 0, bodyErrors |-> 0]

WebHintInit ==
    /\ FetchInit
    /\ hintWorld = CHOOSE w \in HintWorld : TRUE
    /\ hint = [phase |-> "idle", seeds |-> {}, seed |-> <<>>, targets |-> <<>>,
               cands |-> <<>>, stats |-> NoStats, errors |-> 0, assets |-> {},
               events |-> {}]

\* emitWebHintEvent: the kind, the seed, and the roots the event names.
emitWebHintEvent(events, kind, roots) ==
    events \cup {[kind |-> kind, seed |-> hint.seed, roots |-> roots]}

WebHintProcess ==
    /\ hint.phase = "idle"
    /\ hintWorld' \in HintWorld
    /\ hint' = [hint EXCEPT !.phase = "seeds", !.seeds = HintSeeds,
                   !.events = IF pctx.judge THEN @
                              ELSE emitWebHintEvent(@, "judge_disabled", {})]
    /\ UNCHANGED <<fetchVars, pctx>>

WebHintStartSeed(s) ==
    /\ hint.phase = "seeds" /\ s \in hint.seeds
    /\ hint' = [hint EXCEPT !.phase = "fetch", !.seeds = @ \ {s}, !.seed = s,
                   !.targets = FoldLeft(LAMBDA ts, d :
                                  ts \o [i \in DOMAIN HintTarget[d] |-> <<d, HintTarget[d][i]>>],
                                  <<>>, s),
                   !.cands = <<>>, !.stats = NoStats]
    /\ UNCHANGED <<hintWorld, fetchVars, pctx>>

WebHintFetch ==
    /\ hint.phase = "fetch" /\ hint.targets # <<>>
    /\ req.state = "idle" /\ req' = NewRequest
    /\ hint' = [hint EXCEPT !.stats.targets = @ + 1]
    /\ UNCHANGED <<hintWorld, ctxDone, pctx>>

\* collectWebHintCandidates: the roots of one hint that the seed does not own,
\* each with its first samples.
collectWebHintCandidates(cands, raw, text) ==
    LET owned == {HintDomainRoot[d] : d \in Range(hint.seed)}
        roots == RootsOfHint[raw] \ owned
        samples(r) == IF r \in DOMAIN cands THEN cands[r] ELSE <<>>
        keep(s) == <<raw, text>> \in Range(s) \/ Len(s) >= MaxSamples
    IN  [r \in DOMAIN cands \cup roots |->
            IF r \notin roots \/ keep(samples(r)) THEN samples(r)
            ELSE Append(samples(r), <<raw, text>>)]

\* A redirect of a home page to another root is a hint of its own, even when the
\* body then cannot be read.
RedirectHint(domain, target) ==
    LET final == hintWorld[target].final
    IN  IF target \in HomePage /\ final # HintDomainRoot[domain]
        THEN collectWebHintCandidates(hint.cands, final, "redirect") ELSE hint.cands

\* extractHTMLCandidates or extractSecurityTXTCandidates: the scanner of a
\* security.txt that fails has handed over the lines before.
BodyHints(cands, target) ==
    IF ~hintWorld[target].good /\ target \in HomePage THEN cands
    ELSE FoldLeft(LAMBDA c, h : collectWebHintCandidates(c, h[1], h[2]),
                  cands, hintWorld[target].hints)

\* The answer to the target at hand ("ok" is every status below 400 here).  A
\* fetch that failed is an event, not an error of the run.
WebHintAnswer(unreadable) ==
    /\ hint.phase = "fetch" /\ req.state = "done"
    /\ LET target == Head(hint.targets)[2]
           next == [hint EXCEPT !.targets = Tail(@)]
           redirected == [next EXCEPT !.cands = RedirectHint(Head(hint.targets)[1], target),
                                      !.stats.successful = @ + 1]
           failed(h, kind) == [h EXCEPT !.stats.bodyErrors = @ + 1, !.errors = @ + 1,
                                        !.events = emitWebHintEvent(@, kind, {})]
       IN  hint' =
           IF req.err
           THEN [next EXCEPT !.stats.fetchErrors = @ + 1,
                             !.events = emitWebHintEvent(@, "web_hint_fetch_failed", {})]
           ELSE IF req.status # "ok"
           THEN [next EXCEPT !.stats.skipped = @ + 1,
                             !.events = emitWebHintEvent(@, "web_hint_target_skipped", {})]
           ELSE IF unreadable THEN failed(redirected, "web_hint_read_failed")
           ELSE LET read == [redirected EXCEPT !.cands = BodyHints(@, target)]
                IN  IF hintWorld[target].good THEN read
                    ELSE failed(read, "web_hint_parse_failed")
    /\ req' = NoRequest
    /\ UNCHANGED <<hintWorld, ctxDone, pctx>>

HintRequest == DOMAIN hint.cands

\* All targets are through: the roots go to the judge, if there is one.
WebHintFetched ==
    /\ hint.phase = "fetch" /\ hint.targets = <<>>
    /\ LET found == emitWebHintEvent(hint.events,
                IF HintRequest = {} THEN "web_hint_no_candidates"
                ELSE "web_hint_candidates_discovered", HintRequest)
       IN  hint' = IF HintRequest = {} THEN [hint EXCEPT !.phase = "seeds", !.events = found]
                   ELSE IF pctx.judge THEN [hint EXCEPT !.phase = "judge", !.events = found]
                   ELSE [hint EXCEPT !.phase = "seeds", !.events =
                            found \cup emitWebHintEvent({}, "web_hint_candidates_unjudged", HintRequest)]
    /\ UNCHANGED <<hintWorld, fetchVars, pctx>>

NoneAccepted(events) ==
    emitWebHintEvent(events, "web_hint_no_accepted_candidates", HintRequest)

WebHintJudgeFails ==
    /\ hint.phase = "judge"
    /\ hint' = [hint EXCEPT !.phase = "seeds", !.errors = @ + 1,
                   !.events = NoneAccepted(emitWebHintEvent(@, "web_hint_judge_failed", HintRequest))]
    /\ UNCHANGED <<hintWorld, fetchVars, pctx>>

EndEvents_OneOutcome(accepted, low) ==
    IF accepted = {} THEN NoneAccepted({})
    ELSE emitWebHintEvent({}, "web_hint_candidates_accepted", accepted)

\* The last events of a judged seed: what was accepted, or that nothing was, and
\* what the judge collects below the run's threshold.
EndEvents(accepted, low) ==
    EndEvents_OneOutcome(accepted, low)
    \cup IF low = {} THEN {} ELSE emitWebHintEvent({}, "web_hint_low_confidence_skipped", low)

\* Roots the judge collects at the run's threshold are accepted; the ones that
\* PromoteSeedCandidate accepts too (materialized) become assets.
WebHintJudged(reply, materialized) ==
    /\ hint.phase = "judge"
    /\ JudgeReplies("web_hint_collector", HintRequest, reply, materialized)
    /\ LET decisions == EvaluateCandidates(HintRequest, reply)
           accepted == Approved(decisions, pctx.threshold)
           low == {r \in HintRequest : decisions[r].collect} \ accepted
       IN  hint' = [hint EXCEPT !.phase = "seeds", !.assets = @ \cup materialized,
                       !.events = emitWebHintEvent(@, "web_hint_judge_completed", HintRequest)
                                  \cup EndEvents(accepted, low)]
    /\ UNCHANGED <<hintWorld, fetchVars>>

WebHintReturn ==
    /\ hint.phase = "seeds" /\ hint.seeds = {}
    /\ hint' = [hint EXCEPT !.phase = "returned"]
    /\ pctx' = [pctx EXCEPT !.assets = @ \cup hint.assets]
    /\ UNCHANGED <<hintWorld, fetchVars>>

WebHintNext ==
    \/ WebHintProcess
    \/ \E s \in hint.seeds : WebHintStartSeed(s)
    \/ WebHintFetch
    \/ FetchNext /\ UNCHANGED <<hintWorld, hint, pctx>>
    \/ \E unreadable \in BOOLEAN : WebHintAnswer(unreadable)
    \/ WebHintFetched \/ WebHintJudgeFails
    \/ \E reply \in Replies(HintRequest), materialized \in SUBSET HintRequest :
          WebHintJudged(reply, materialized)
    \/ WebHintReturn

-----------------------------------------------------------------------------
(* Properties.                                                             *)

RootsOf(s, kinds) == UNION {e.roots : e \in {x \in hint.events : x.seed = s /\ x.kind \in kinds}}

\* "Live activity records can explain why a web-hint stage produced no assets":
\* every root a seed's pages named is, in the end, in an event that says what
\* became of it or on the judge's record as a discard, however the fetches, the
\* bodies and the judge failed; and the counts of the events account for every
\* target (Process, emitWebHintEvent).
HintsExplained ==
    /\ hint.phase = "returned" =>
          \A s \in HintSeeds : \A r \in RootsOf(s, {"web_hint_candidates_discovered"}) :
              \/ r \in RootsOf(s, {"web_hint_candidates_unjudged", "web_hint_judge_failed",
                                   "web_hint_candidates_accepted",
                                   "web_hint_low_confidence_skipped"})
              \/ \E e \in pctx.log :
                    /\ DOMAIN e.outcomes = RootsOf(s, {"web_hint_candidates_discovered"})
                    /\ ~e.outcomes[r].collect
    /\ req.state = "idle" =>
          hint.stats.targets =
              hint.stats.successful + hint.stats.skipped + hint.stats.fetchErrors

=============================================================================
