---------------------------- MODULE StagesProofs ----------------------------
(***************************************************************************)
(* Proofs about the discovery stages: what a domain lookup and the         *)
(* collectors over HTTP do with a failed answer, what the activity log of  *)
(* the web-hint stage accounts for, what the enrichers' states mean, what  *)
(* the sweeps of the DNS collector reach and whom they promote, how often  *)
(* a sitemap is parsed, what the AI search puts to its judge, and which    *)
(* pages a crawl has fetched when it is over.                              *)
(***************************************************************************)
EXTENDS Stages, FiniteSetTheorems, WellFoundedInduction, TLAPS

-----------------------------------------------------------------------------
(* A domain lookup.                                                        *)

\* WHOIS is only asked with a clean history, and the system's whois after an
\* unreadable answer of the server only with that on record.
LookupInv ==
    /\ DOMAIN lookup = {"state", "root", "attempt", "whoisErr", "result"}
    /\ DOMAIN regHist = {"unparsed", "unreached"}
    /\ lookup.state # "done" => lookup.result = "none"
    /\ lookup.state = "whois" => regHist.unparsed = {} /\ regHist.unreached = {}
    /\ lookup.state = "system" /\ lookup.whoisErr = "unsupported" =>
          regHist.unparsed = {"whois"} /\ regHist.unreached = {}
    /\ SilentOnlyIfUnreadable

\* A lookup has ended, with an error or with data, without WHOIS.
LEMMA LookupEnds ==
    ASSUME LookupInv, NEW result, result # "unsupported",
           lookup' = Ends(result), DOMAIN regHist' = DOMAIN regHist
    PROVE  LookupInv'
BY DEF LookupInv, SilentOnlyIfUnreadable, Ends

\* The answer of the RDAP server.
LEMMA RDAPAnswerKeeps ==
    ASSUME LookupInv, NEW good \in BOOLEAN, RDAPAnswer(good)
    PROVE  LookupInv'
<1>1. DOMAIN regHist' = DOMAIN regHist /\ regHist'.unparsed = {} /\ regHist'.unreached = {}
  BY DEF RDAPAnswer, LookupInv
<1>2. CASE lookup' = Ends("error") BY <1>1, <1>2, LookupEnds
<1>3. CASE lookup' = Ends("data") BY <1>1, <1>3, LookupEnds
<1>4. CASE lookup' = [lookup EXCEPT !.state = "whois", !.attempt = 1]
  BY <1>1, <1>4 DEF LookupInv, SilentOnlyIfUnreadable, RDAPAnswer
<1> QED BY <1>2, <1>3, <1>4 DEF RDAPAnswer

\* One attempt at WHOIS, of the server or of the system's program.
LEMMA WHOISAttemptKeeps ==
    ASSUME LookupInv, NEW source \in Whois,
           NEW outcome \in {"data", "unsupported", "error", "partial"},
           WHOISAttempt(source, outcome)
    PROVE  LookupInv'
<1>0. /\ source = "whois" \/ source = "system"
      /\ lookup.state = source /\ lookup.result = "none"
      /\ DOMAIN regHist' = DOMAIN regHist
      /\ outcome = "partial" => source = "system"
  BY DEF WHOISAttempt, LookupInv, Whois
<1>1. CASE lookup' = [lookup EXCEPT !.attempt = @ + 1] /\ outcome = "error"
  <2>1. regHist'.unparsed = regHist.unparsed /\ regHist'.unreached = regHist.unreached
    BY <1>0, <1>1 DEF WHOISAttempt, LookupInv
  <2> QED BY <1>0, <1>1, <2>1 DEF LookupInv, SilentOnlyIfUnreadable
<1>2. CASE lookup' = Settle(source, IF outcome = "partial" THEN "error" ELSE outcome)
  <2> DEFINE out == IF outcome = "partial" THEN "error" ELSE outcome
  <2>1. CASE out = "data"
    BY <1>0, <1>2, <2>1, LookupEnds DEF Settle, AfterWHOIS, AfterSystem
  <2>2. CASE out # "data" /\ source = "whois"
    <3>1. lookup' = [lookup EXCEPT !.state = "system", !.attempt = 1, !.whoisErr = outcome]
      BY <1>0, <1>2, <2>2 DEF Settle, AfterWHOIS
    <3>2. outcome = "unsupported" =>
             regHist'.unparsed = {"whois"} /\ regHist'.unreached = {}
      BY <1>0, <2>2, <3>1 DEF WHOISAttempt, LookupInv
    <3> QED BY <1>0, <3>1, <3>2 DEF LookupInv, SilentOnlyIfUnreadable
  <2>3. CASE out # "data" /\ source = "system"
    <3>1. lookup' = Ends(LookupError(lookup.whoisErr, out))
      BY <1>2, <2>3 DEF Settle, AfterSystem
    <3>2. CASE LookupError(lookup.whoisErr, out) # "unsupported"
      BY <1>0, <3>1, <3>2, LookupEnds
    <3>3. CASE LookupError(lookup.whoisErr, out) = "unsupported"
      <4>1. out = "unsupported" /\ lookup.whoisErr = "unsupported"
        BY <3>3 DEF LookupError
      <4>2. /\ regHist'.unparsed = Whois /\ regHist'.unreached = {}
        BY <1>0, <2>3, <4>1 DEF WHOISAttempt, LookupInv, Whois
      <4> QED BY <1>0, <3>1, <4>2 DEF LookupInv, SilentOnlyIfUnreadable, Ends
    <3> QED BY <3>2, <3>3
  <2> QED BY <1>0, <2>1, <2>2, <2>3
<1> QED BY <1>0, <1>1, <1>2 DEF WHOISAttempt

\* Every step of the registration collectors.
LEMMA RegNextKeeps ==
    ASSUME LookupInv, RegNext
    PROVE  LookupInv'
<1>1. CASE UNCHANGED <<lookup, regHist>>
  BY <1>1 DEF LookupInv, SilentOnlyIfUnreadable
<1>2. ASSUME NEW r, StartLookup(r), UNCHANGED regHist PROVE LookupInv'
  BY <1>2 DEF LookupInv, SilentOnlyIfUnreadable, StartLookup, NoLookup
<1>3. CASE RegResult
  BY <1>3 DEF LookupInv, SilentOnlyIfUnreadable, RegResult, NoLookup
<1>4. CASE \E good \in BOOLEAN : RDAPAnswer(good) BY <1>4, RDAPAnswerKeeps
<1>5. CASE \E source \in Whois, outcome \in {"data", "unsupported", "error", "partial"} :
              WHOISAttempt(source, outcome)
  BY <1>5, WHOISAttemptKeeps
<1> QED
  BY <1>1, <1>2, <1>3, <1>4, <1>5
     DEF RegNext, RegProcess, RegStartSeed, RegLookup, WHOISCancel, RegSearch,
         RegSearchFails, RegSeedDone, RegJudgeFails, RegJudged, RegReturn

\* A lookup that gives up in silence has asked both WHOIS sources, and neither
\* answer could be read (lookupDomainWHOIS).
THEOREM SilenceIsJustified == StagesSpec => []SilentOnlyIfUnreadable
<1>1. StagesInit => LookupInv
  BY DEF StagesInit, RegInit, NoLookup, LookupInv, SilentOnlyIfUnreadable
<1>2. LookupInv /\ [StagesNext]_stageVars => LookupInv'
  <2> SUFFICES ASSUME LookupInv, [StagesNext]_stageVars PROVE LookupInv'
    OBVIOUS
  <2>1. CASE RegNext BY <2>1, RegNextKeeps
  <2>2. CASE UNCHANGED <<lookup, regHist>>
    BY <2>2 DEF LookupInv, SilentOnlyIfUnreadable
  <2> QED BY <2>1, <2>2 DEF StagesNext, stageVars, regVars
<1>3. LookupInv => SilentOnlyIfUnreadable BY DEF LookupInv
<1> QED BY <1>1, <1>2, <1>3, PTL DEF StagesSpec

-----------------------------------------------------------------------------
(* Answers and their bodies.                                               *)

\* An answer of status 200 is handed out with its body open.
FetchInv ==
    /\ DOMAIN req = {"state", "attempt", "lastErr", "err", "status", "body"}
    /\ req.state = "done" /\ ReadsBody(req) => req.body = "open"

\* One step of DoRequest.
LEMMA FetchNextKeeps ==
    ASSUME FetchInv, FetchNext
    PROVE  FetchInv'
<1>1. ASSUME NEW outcome, NEW body, req' = Returned(outcome, body),
             outcome \in {"ok", "error"} => outcome = "error" \/ body = "open"
      PROVE  FetchInv'
  BY <1>1 DEF FetchInv, Returned, ReadsBody
<1>2. ASSUME NEW outcome \in Status \cup {"error"}, ReqAttempt(outcome) PROVE FetchInv'
  <2>1. CASE ~shouldRetry(outcome)
    BY <1>1, <1>2, <2>1 DEF ReqAttempt
  <2>2. CASE shouldRetry(outcome) /\ req.attempt = MaxAttempts
    BY <1>1, <1>2, <2>2 DEF ReqAttempt, shouldRetry
  <2>3. CASE shouldRetry(outcome) /\ req.attempt # MaxAttempts
    BY <1>2, <2>3 DEF ReqAttempt, FetchInv
  <2> QED BY <2>1, <2>2, <2>3
<1>3. CASE ReqWaitOver BY <1>3 DEF ReqWaitOver, FetchInv
<1>4. CASE ReqCancelled BY <1>1, <1>4 DEF ReqCancelled
<1>5. CASE CtxCancel BY <1>5 DEF CtxCancel, FetchInv, ReadsBody
<1> QED BY <1>2, <1>3, <1>4, <1>5 DEF FetchNext

\* A request is only made anew, forgotten, or moved on by DoRequest.
LEMMA RequestMoves ==
    ASSUME [StagesNext]_stageVars
    PROVE  UNCHANGED req \/ req' = NewRequest \/ req' = NoRequest \/ FetchNext
<1>1. CASE PassiveNext
  BY <1>1 DEF PassiveNext, PassiveProcess, PassiveStartSeed, PassiveQuery, PassiveAnswer,
       SweepPrefix, PassiveSeedDone, PassiveJudgeFails, PassiveJudged, PassiveReturn, fetchVars
<1>2. CASE RegNext
  BY <1>2 DEF RegNext, RegProcess, RegStartSeed, RegLookup, StartLookup, RDAPAnswer,
       WHOISAttempt, WHOISCancel, RegResult, RegSearch, RegSearchFails, RegSeedDone,
       RegJudgeFails, RegJudged, RegReturn, fetchVars
<1>3. CASE WebHintNext
  BY <1>3 DEF WebHintNext, WebHintProcess, WebHintStartSeed, WebHintFetch, WebHintAnswer,
       WebHintFetched, WebHintJudgeFails, WebHintJudged, WebHintReturn, fetchVars
<1>4. CASE UNCHANGED pasVars BY <1>4 DEF pasVars, fetchVars
<1> QED BY <1>1, <1>2, <1>3, <1>4 DEF StagesNext, stageVars

\* Every stage keeps what is known of the request.
LEMMA FetchKept ==
    ASSUME FetchInv, [StagesNext]_stageVars
    PROVE  FetchInv'
<1>1. CASE UNCHANGED req BY <1>1 DEF FetchInv, ReadsBody
<1>2. CASE req' = NewRequest \/ req' = NoRequest
  <2>1. req'.state # "done"
    <3>1. NewRequest.state = "trying" BY DEF NewRequest, NoRequest
    <3>2. NoRequest.state = "idle" BY DEF NoRequest
    <3> QED BY <1>2, <3>1, <3>2
  <2>2. DOMAIN req' = {"state", "attempt", "lastErr", "err", "status", "body"}
    BY <1>2 DEF NewRequest, NoRequest
  <2> QED BY <2>1, <2>2 DEF FetchInv
<1>3. CASE FetchNext BY <1>3, FetchNextKeeps
<1> QED BY <1>1, <1>2, <1>3, RequestMoves

BodiesInv ==
    /\ FetchInv
    /\ DOMAIN pas = {"kind", "phase", "seeds", "seed", "queries", "cidrs", "remaining",
                     "hosts", "errors", "assets", "bodies"}
    /\ ReadsOpenBody

\* Every step of the passive collectors.
LEMMA PassiveNextKeeps ==
    ASSUME BodiesInv, PassiveNext
    PROVE  /\ DOMAIN pas' = DOMAIN pas
           /\ ReadsOpenBody'
<1>1. CASE \E unreadable \in BOOLEAN : PassiveAnswer(unreadable)
  <2>1. /\ DOMAIN pas' = DOMAIN pas
        /\ pas'.bodies = IF ReadsBody(req) THEN pas.bodies \cup {req.body} ELSE pas.bodies
    BY <1>1 DEF PassiveAnswer, BodiesInv
  <2>2. req.state = "done" BY <1>1 DEF PassiveAnswer
  <2> QED BY <2>1, <2>2 DEF BodiesInv, FetchInv, ReadsOpenBody
<1>2. CASE UNCHANGED pas BY <1>2 DEF BodiesInv, ReadsOpenBody
<1>3. CASE DOMAIN pas' = DOMAIN pas /\ pas'.bodies = pas.bodies
  BY <1>3 DEF BodiesInv, ReadsOpenBody
<1>4. ASSUME NEW kind, PassiveProcess(kind) PROVE DOMAIN pas' = DOMAIN pas /\ pas'.bodies = pas.bodies
  BY <1>4 DEF PassiveProcess, BodiesInv
<1>5. ASSUME NEW s, PassiveStartSeed(s) PROVE DOMAIN pas' = DOMAIN pas /\ pas'.bodies = pas.bodies
  BY <1>5 DEF PassiveStartSeed, BodiesInv
<1>6. ASSUME NEW silent, SweepPrefix(silent)
      PROVE DOMAIN pas' = DOMAIN pas /\ pas'.bodies = pas.bodies
  BY <1>6 DEF SweepPrefix, BodiesInv
<1>7. CASE PassiveSeedDone \/ PassiveJudgeFails \/ PassiveReturn
  <2>1. DOMAIN pas' = DOMAIN pas /\ pas'.bodies = pas.bodies
    BY <1>7 DEF PassiveSeedDone, PassiveJudgeFails, PassiveReturn, BodiesInv
  <2> QED BY <1>3, <2>1
<1>8. ASSUME NEW reply, NEW accepted, PassiveJudged(reply, accepted)
      PROVE DOMAIN pas' = DOMAIN pas /\ pas'.bodies = pas.bodies
  BY <1>8 DEF PassiveJudged, BodiesInv
<1> QED BY <1>1, <1>2, <1>3, <1>4, <1>5, <1>6, <1>7, <1>8 DEF PassiveNext, PassiveQuery

\* No collector over HTTP reads the body that DoRequest has already drained and
\* closed, although the last retryable answer comes without an error
\* (DoRequest, and the status checks of the collectors).
THEOREM BodiesAreOpen == StagesSpec => []ReadsOpenBody
<1>1. StagesInit => BodiesInv
  BY DEF StagesInit, PassiveInit, FetchInit, NoRequest, BodiesInv, FetchInv, ReadsOpenBody
<1>2. BodiesInv /\ [StagesNext]_stageVars => BodiesInv'
  <2> SUFFICES ASSUME BodiesInv, [StagesNext]_stageVars PROVE BodiesInv'
    OBVIOUS
  <2>1. FetchInv' BY FetchKept DEF BodiesInv
  <2>2. CASE PassiveNext BY <2>1, <2>2, PassiveNextKeeps DEF BodiesInv
  <2>3. CASE UNCHANGED pas BY <2>1, <2>3 DEF BodiesInv, ReadsOpenBody
  <2> QED BY <2>2, <2>3 DEF StagesNext, stageVars, pasVars
<1>3. BodiesInv => ReadsOpenBody BY DEF BodiesInv
<1> QED BY <1>1, <1>2, <1>3, PTL DEF StagesSpec

-----------------------------------------------------------------------------
(* The activity log of the web-hint stage.                                 *)

Named(events, s, kinds) ==
    UNION {e.roots : e \in {x \in events : x.seed = s /\ x.kind \in kinds}}

Discovered == {"web_hint_candidates_discovered"}
Told == {"web_hint_candidates_unjudged", "web_hint_judge_failed",
         "web_hint_candidates_accepted", "web_hint_low_confidence_skipped"}

\* What HintsExplained asks of one seed.
Explained(events, log, s) ==
    \A r \in Named(events, s, Discovered) :
        \/ r \in Named(events, s, Told)
        \/ \E e \in log : /\ DOMAIN e.outcomes = Named(events, s, Discovered)
                          /\ ~e.outcomes[r].collect

\* The seeds to come have no discovery on the log, the seed at hand has one while
\* the judge is asked, and of what was discovered for the others the log tells.
EventsExplain(h, log) ==
    /\ h.phase = "idle" => h.events = {}
    /\ h.seeds \subseteq HintSeeds
    /\ h.phase = "returned" => h.seeds = {}
    /\ h.phase \in {"fetch", "judge"} => h.seed \notin h.seeds
    /\ h.phase = "fetch" => Named(h.events, h.seed, Discovered) = {}
    /\ h.phase = "judge" => /\ DOMAIN h.cands # {}
                            /\ Named(h.events, h.seed, Discovered) = DOMAIN h.cands
    /\ \A s \in h.seeds : Named(h.events, s, Discovered) = {}
    /\ \A s \in HintSeeds \ h.seeds :
          \/ h.phase = "idle"
          \/ h.phase \in {"fetch", "judge"} /\ s = h.seed
          \/ Explained(h.events, log, s)

\* A target is counted when its request starts and once more when it ends.
Balanced(h, open) ==
    /\ h.stats \in [{"targets", "successful", "skipped", "fetchErrors", "bodyErrors"} -> Nat]
    /\ h.stats.targets = h.stats.successful + h.stats.skipped + h.stats.fetchErrors
                         + (IF open THEN 1 ELSE 0)
    /\ open => h.phase = "fetch" /\ h.targets # <<>>

HintFields == {"phase", "seeds", "seed", "targets", "cands", "stats", "errors",
               "assets", "events"}

\* Of the other stages only matters that they leave the log alone.
HintInv ==
    IF stage = "web_hint"
    THEN /\ DOMAIN hint = HintFields
         /\ hint.phase \in {"idle", "seeds", "fetch", "judge", "returned"}
         /\ "log" \in DOMAIN pctx
         /\ EventsExplain(hint, pctx.log)
         /\ Balanced(hint, req.state # "idle")
    ELSE hint.phase = "idle" /\ Balanced(hint, FALSE)

\* The events of one seed are added to the log.
Adds(old, new, s) == old \subseteq new /\ \A e \in new \ old : e.seed = s

\* What two parts of a log name together.
LEMMA NamedUnion ==
    ASSUME NEW old, NEW new, NEW s, NEW kinds
    PROVE  Named(old \cup new, s, kinds) = Named(old, s, kinds) \cup Named(new, s, kinds)
BY DEF Named

\* What one event names.
LEMMA NamedOne ==
    ASSUME NEW kind, NEW seed, NEW roots, NEW s, NEW kinds
    PROVE  Named({[kind |-> kind, seed |-> seed, roots |-> roots]}, s, kinds)
           = IF seed = s /\ kind \in kinds THEN roots ELSE {}
<1> DEFINE e == [kind |-> kind, seed |-> seed, roots |-> roots]
<1>1. e.kind = kind /\ e.seed = seed /\ e.roots = roots OBVIOUS
<1> HIDE DEF e
<1>2. Named({e}, s, kinds) = IF seed = s /\ kind \in kinds THEN roots ELSE {}
  BY <1>1 DEF Named
<1> QED BY <1>2 DEF e

\* A new event names its roots, for its seed.
LEMMA EmitNames ==
    ASSUME NEW events, NEW kind, NEW roots, NEW s, NEW kinds
    PROVE  Named(emitWebHintEvent(events, kind, roots), s, kinds)
           = Named(events, s, kinds)
             \cup (IF hint.seed = s /\ kind \in kinds THEN roots ELSE {})
<1> DEFINE one == {[kind |-> kind, seed |-> hint.seed, roots |-> roots]}
<1>1. Named(one, s, kinds) = IF hint.seed = s /\ kind \in kinds THEN roots ELSE {}
  BY NamedOne
<1>2. emitWebHintEvent(events, kind, roots) = events \cup one BY DEF emitWebHintEvent
<1> HIDE DEF one
<1> QED BY <1>1, <1>2, NamedUnion

\* What other seeds have on the log stays.
LEMMA OthersNamed ==
    ASSUME NEW old, NEW new, NEW q, NEW s, Adds(old, new, q), s # q, NEW kinds
    PROVE  Named(new, s, kinds) = Named(old, s, kinds)
BY DEF Named, Adds

\* What the log explains of other seeds stays explained.
LEMMA OthersExplained ==
    ASSUME NEW old, NEW new, NEW log, NEW more, NEW q, NEW s,
           Adds(old, new, q), log \subseteq more, s # q, Explained(old, log, s)
    PROVE  Explained(new, more, s)
BY OthersNamed DEF Explained

\* The seed at hand moves on: only its own part of the log is at stake.
LEMMA SeedMoves ==
    ASSUME NEW h, NEW g, NEW log, NEW more,
           EventsExplain(h, log), h.phase \in {"fetch", "judge"}, log \subseteq more,
           Adds(h.events, g.events, h.seed), g.seeds = h.seeds, g.seed = h.seed,
           g.phase \in {"seeds", "fetch", "judge"},
           g.phase = "fetch" => Named(g.events, h.seed, Discovered) = {},
           g.phase = "judge" => /\ DOMAIN g.cands # {}
                                /\ Named(g.events, h.seed, Discovered) = DOMAIN g.cands,
           g.phase = "seeds" => Explained(g.events, more, h.seed)
    PROVE  EventsExplain(g, more)
<1>1. ASSUME NEW s \in h.seeds PROVE Named(g.events, s, Discovered) = {}
  <2>1. s # h.seed BY DEF EventsExplain
  <2>2. Named(g.events, s, Discovered) = Named(h.events, s, Discovered)
    BY <2>1, OthersNamed
  <2> QED BY <2>2 DEF EventsExplain
<1>2. ASSUME NEW s \in HintSeeds \ h.seeds
      PROVE  \/ g.phase \in {"fetch", "judge"} /\ s = g.seed
             \/ Explained(g.events, more, s)
  <2>1. CASE s = h.seed BY <2>1
  <2>2. CASE s # h.seed
    <3>1. Explained(h.events, log, s) BY <2>2 DEF EventsExplain
    <3> QED BY <2>2, <3>1, OthersExplained
  <2> QED BY <2>1, <2>2
<1> QED BY <1>1, <1>2 DEF EventsExplain

\* An event is one of the seed at hand.
LEMMA EmitAdds ==
    ASSUME NEW old, NEW events, NEW kind, NEW roots, Adds(old, events, hint.seed)
    PROVE  Adds(old, emitWebHintEvent(events, kind, roots), hint.seed)
<1>1. ASSUME NEW e \in emitWebHintEvent(events, kind, roots) \ events PROVE e.seed = hint.seed
  <2>1. e = [kind |-> kind, seed |-> hint.seed, roots |-> roots]
    BY <1>1 DEF emitWebHintEvent
  <2> QED BY <2>1
<1> QED BY <1>1 DEF Adds, emitWebHintEvent

\* Events of two additions.
LEMMA UnionAdds ==
    ASSUME NEW old, NEW new, NEW more, NEW s, Adds(old, new, s), Adds({}, more, s)
    PROVE  Adds(old, new \cup more, s)
BY DEF Adds

\* An event that discovers nothing.
LEMMA QuietEvent ==
    ASSUME NEW events, NEW kind, NEW roots, kind \notin Discovered
    PROVE  /\ Adds(events, emitWebHintEvent(events, kind, roots), hint.seed)
           /\ \A s : Named(emitWebHintEvent(events, kind, roots), s, Discovered)
                     = Named(events, s, Discovered)
<1>1. Adds(events, events, hint.seed) BY DEF Adds
<1>2. Adds(events, emitWebHintEvent(events, kind, roots), hint.seed) BY <1>1, EmitAdds
<1> QED BY <1>2, EmitNames

\* Process starts.
LEMMA HintProcessKeeps ==
    ASSUME HintInv, stage = "web_hint", UNCHANGED stage, WebHintProcess
    PROVE  HintInv'
<1> DEFINE ev == IF pctx.judge THEN hint.events
                 ELSE emitWebHintEvent(hint.events, "judge_disabled", {})
<1>1. /\ DOMAIN hint' = HintFields
      /\ hint'.phase = "seeds" /\ hint'.seeds = HintSeeds
      /\ hint'.stats = hint.stats /\ hint'.events = ev
      /\ UNCHANGED <<req, pctx>>
  BY DEF HintInv, HintFields, WebHintProcess, fetchVars
<1>2. \A s : Named(ev, s, Discovered) = {}
  <2>1. hint.events = {} BY DEF HintInv, EventsExplain, WebHintProcess
  <2>2. \A s : Named(hint.events, s, Discovered) = {} BY <2>1 DEF Named
  <2> QED BY <2>2, QuietEvent DEF Discovered
<1>3. EventsExplain(hint, pctx.log)'
  <2> HIDE DEF ev
  <2> QED BY <1>1, <1>2 DEF EventsExplain
<1>4. Balanced(hint, req.state # "idle")'
  BY <1>1 DEF HintInv, Balanced, WebHintProcess
<1> QED BY <1>1, <1>3, <1>4 DEF HintInv

\* The next seed.
LEMMA HintStartSeedKeeps ==
    ASSUME HintInv, stage = "web_hint", UNCHANGED stage,
           NEW s \in hint.seeds, WebHintStartSeed(s)
    PROVE  HintInv'
<1>1. /\ DOMAIN hint' = HintFields
      /\ hint'.phase = "fetch" /\ hint'.seeds = hint.seeds \ {s} /\ hint'.seed = s
      /\ hint'.stats = NoStats /\ hint'.events = hint.events
      /\ UNCHANGED <<req, pctx>> /\ hint.phase = "seeds"
  BY DEF HintInv, HintFields, WebHintStartSeed, fetchVars
<1>2. EventsExplain(hint, pctx.log)'
  BY <1>1 DEF EventsExplain, HintInv
<1>3. Balanced(hint, req.state # "idle")'
  <2>1. req.state = "idle" BY <1>1 DEF HintInv, Balanced
  <2>2. NoStats \in [{"targets", "successful", "skipped", "fetchErrors", "bodyErrors"} -> Nat]
    BY DEF NoStats
  <2>3. NoStats.targets = NoStats.successful + NoStats.skipped + NoStats.fetchErrors + 0
    BY DEF NoStats
  <2> QED BY <1>1, <2>1, <2>2, <2>3 DEF Balanced
<1> QED BY <1>1, <1>2, <1>3 DEF HintInv

\* Steps of a request while the collector waits for it.
LEMMA HintRequestKeeps ==
    ASSUME HintInv, stage = "web_hint", UNCHANGED <<stage, hint, pctx>>,
           FetchNext, FetchInv
    PROVE  HintInv'
<1>1. req.state # "idle" /\ req'.state # "idle"
  <2>1. ASSUME NEW outcome, NEW body, req' = Returned(outcome, body) PROVE req'.state = "done"
    BY <2>1 DEF Returned, FetchInv
  <2> QED
    BY <2>1 DEF FetchNext, ReqAttempt, ReqWaitOver, ReqCancelled, CtxCancel, FetchInv
<1> QED BY <1>1 DEF HintInv

\* A target is requested.
LEMMA HintFetchKeeps ==
    ASSUME HintInv, stage = "web_hint", UNCHANGED stage, WebHintFetch
    PROVE  HintInv'
<1>1. /\ DOMAIN hint' = HintFields
      /\ hint'.phase = "fetch" /\ hint'.seeds = hint.seeds /\ hint'.seed = hint.seed
      /\ hint'.targets = hint.targets /\ hint'.events = hint.events
      /\ hint'.stats = [hint.stats EXCEPT !.targets = @ + 1]
      /\ UNCHANGED pctx /\ hint.phase = "fetch" /\ hint.targets # <<>> /\ req.state = "idle"
      /\ req' = NewRequest
  BY DEF HintInv, HintFields, WebHintFetch
<1>2. EventsExplain(hint, pctx.log)'
  BY <1>1 DEF EventsExplain, HintInv
<1>3. req'.state = "trying" BY <1>1 DEF NewRequest, NoRequest
<1>4. Balanced(hint, TRUE)'
  BY <1>1 DEF Balanced, HintInv
<1> QED BY <1>1, <1>2, <1>3, <1>4 DEF HintInv

\* What an answer does to the counts and to the log.
LEMMA AnswerEffects ==
    ASSUME DOMAIN hint = HintFields, NEW unreadable \in BOOLEAN, WebHintAnswer(unreadable),
           hint.stats \in [{"targets", "successful", "skipped", "fetchErrors", "bodyErrors"} -> Nat]
    PROVE  /\ DOMAIN hint' = HintFields
           /\ hint'.phase = hint.phase /\ hint'.seeds = hint.seeds /\ hint'.seed = hint.seed
           /\ hint'.stats \in [{"targets", "successful", "skipped", "fetchErrors", "bodyErrors"} -> Nat]
           /\ hint'.stats.targets = hint.stats.targets
           /\ hint'.stats.successful + hint'.stats.skipped + hint'.stats.fetchErrors
              = hint.stats.successful + hint.stats.skipped + hint.stats.fetchErrors + 1
           /\ \/ hint'.events = hint.events
              \/ \E kind : /\ kind \notin Discovered
                           /\ hint'.events = emitWebHintEvent(hint.events, kind, {})
<1> DEFINE StatNames == {"targets", "successful", "skipped", "fetchErrors", "bodyErrors"}
           target == Head(hint.targets)[2]
           next == [hint EXCEPT !.targets = Tail(@)]
           redirected == [next EXCEPT !.cands = RedirectHint(Head(hint.targets)[1], target),
                                      !.stats.successful = @ + 1]
           failed(h, kind) == [h EXCEPT !.stats.bodyErrors = @ + 1, !.errors = @ + 1,
                                        !.events = emitWebHintEvent(@, kind, {})]
           read == [redirected EXCEPT !.cands = BodyHints(@, target)]
           Same(h) == /\ DOMAIN h = HintFields /\ h.phase = hint.phase
                      /\ h.seeds = hint.seeds /\ h.seed = hint.seed
<1>1. /\ Same(next) /\ next.stats = hint.stats /\ next.events = hint.events
  BY DEF HintFields
<1>2. /\ Same(redirected) /\ redirected.events = hint.events
      /\ redirected.stats = [hint.stats EXCEPT !.successful = @ + 1]
  <2> HIDE DEF next
  <2> QED BY <1>1 DEF HintFields
<1>3. /\ Same(read) /\ read.events = hint.events
      /\ read.stats = [hint.stats EXCEPT !.successful = @ + 1]
  <2> HIDE DEF redirected
  <2> QED BY <1>2 DEF HintFields
<1>4. ASSUME NEW h, NEW kind, Same(h), h.events = hint.events
      PROVE  /\ Same(failed(h, kind))
             /\ failed(h, kind).stats = [h.stats EXCEPT !.bodyErrors = @ + 1]
             /\ failed(h, kind).events = emitWebHintEvent(hint.events, kind, {})
  BY <1>4 DEF HintFields
<1>5. \/ hint' = [next EXCEPT !.stats.fetchErrors = @ + 1,
                              !.events = emitWebHintEvent(@, "web_hint_fetch_failed", {})]
      \/ hint' = [next EXCEPT !.stats.skipped = @ + 1,
                              !.events = emitWebHintEvent(@, "web_hint_target_skipped", {})]
      \/ hint' = failed(redirected, "web_hint_read_failed")
      \/ hint' = read
      \/ hint' = failed(read, "web_hint_parse_failed")
  BY DEF WebHintAnswer
<1> HIDE DEF next, redirected, read
<1>6. CASE hint' = [next EXCEPT !.stats.fetchErrors = @ + 1,
                                !.events = emitWebHintEvent(@, "web_hint_fetch_failed", {})]
  <2>1. /\ Same(hint')
        /\ hint'.stats = [hint.stats EXCEPT !.fetchErrors = @ + 1]
        /\ hint'.events = emitWebHintEvent(hint.events, "web_hint_fetch_failed", {})
    BY <1>1, <1>6 DEF HintFields
  <2>2. "web_hint_fetch_failed" \notin Discovered BY DEF Discovered
  <2> QED BY <2>1, <2>2
<1>7. CASE hint' = [next EXCEPT !.stats.skipped = @ + 1,
                                !.events = emitWebHintEvent(@, "web_hint_target_skipped", {})]
  <2>1. /\ Same(hint')
        /\ hint'.stats = [hint.stats EXCEPT !.skipped = @ + 1]
        /\ hint'.events = emitWebHintEvent(hint.events, "web_hint_target_skipped", {})
    BY <1>1, <1>7 DEF HintFields
  <2>2. "web_hint_target_skipped" \notin Discovered BY DEF Discovered
  <2> QED BY <2>1, <2>2
<1>8. CASE hint' = read BY <1>3, <1>8
<1>9. ASSUME NEW h, NEW kind, kind \notin Discovered, Same(h), h.events = hint.events,
             h.stats = [hint.stats EXCEPT !.successful = @ + 1], hint' = failed(h, kind)
      PROVE  /\ Same(hint')
             /\ hint'.stats = [[hint.stats EXCEPT !.successful = @ + 1] EXCEPT !.bodyErrors = @ + 1]
             /\ hint'.events = emitWebHintEvent(hint.events, kind, {})
  BY <1>4, <1>9
<1>10. ASSUME NEW kind, kind \notin Discovered,
              Same(hint'), hint'.events = emitWebHintEvent(hint.events, kind, {}),
              hint'.stats = [[hint.stats EXCEPT !.successful = @ + 1] EXCEPT !.bodyErrors = @ + 1]
       PROVE  /\ hint'.stats \in [StatNames -> Nat]
              /\ hint'.stats.targets = hint.stats.targets
              /\ hint'.stats.successful + hint'.stats.skipped + hint'.stats.fetchErrors
                 = hint.stats.successful + hint.stats.skipped + hint.stats.fetchErrors + 1
  <2> DEFINE mid == [hint.stats EXCEPT !.successful = @ + 1]
  <2>1. /\ mid \in [StatNames -> Nat] /\ mid.targets = hint.stats.targets
        /\ mid.successful = hint.stats.successful + 1
        /\ mid.skipped = hint.stats.skipped /\ mid.fetchErrors = hint.stats.fetchErrors
    OBVIOUS
  <2>2. hint'.stats = [mid EXCEPT !.bodyErrors = @ + 1] BY <1>10
  <2> HIDE DEF mid
  <2>3. /\ hint'.stats \in [StatNames -> Nat] /\ hint'.stats.targets = mid.targets
        /\ hint'.stats.successful = mid.successful /\ hint'.stats.skipped = mid.skipped
        /\ hint'.stats.fetchErrors = mid.fetchErrors
    BY <2>1, <2>2
  <2> QED BY <2>1, <2>3
<1>11. CASE hint' = failed(redirected, "web_hint_read_failed")
  <2>1. "web_hint_read_failed" \notin Discovered BY DEF Discovered
  <2> HIDE DEF failed
  <2>2. /\ Same(hint')
        /\ hint'.stats = [[hint.stats EXCEPT !.successful = @ + 1] EXCEPT !.bodyErrors = @ + 1]
        /\ hint'.events = emitWebHintEvent(hint.events, "web_hint_read_failed", {})
    BY <1>2, <1>9, <1>11, <2>1
  <2> QED BY <1>10, <2>1, <2>2
<1>12. CASE hint' = failed(read, "web_hint_parse_failed")
  <2>1. "web_hint_parse_failed" \notin Discovered BY DEF Discovered
  <2> HIDE DEF failed
  <2>2. /\ Same(hint')
        /\ hint'.stats = [[hint.stats EXCEPT !.successful = @ + 1] EXCEPT !.bodyErrors = @ + 1]
        /\ hint'.events = emitWebHintEvent(hint.events, "web_hint_parse_failed", {})
    BY <1>3, <1>9, <1>12, <2>1
  <2> QED BY <1>10, <2>1, <2>2
<1> QED BY <1>5, <1>6, <1>7, <1>8, <1>11, <1>12

\* An answer is handled.
LEMMA HintAnswerKeeps ==
    ASSUME HintInv, stage = "web_hint", UNCHANGED stage,
           NEW unreadable \in BOOLEAN, WebHintAnswer(unreadable)
    PROVE  HintInv'
<1>1. /\ DOMAIN hint = HintFields /\ hint.phase = "fetch" /\ req.state # "idle"
      /\ req'.state = "idle" /\ UNCHANGED pctx
      /\ EventsExplain(hint, pctx.log) /\ Balanced(hint, TRUE) /\ "log" \in DOMAIN pctx
  BY DEF HintInv, WebHintAnswer, NoRequest
<1>2. hint.stats \in [{"targets", "successful", "skipped", "fetchErrors", "bodyErrors"} -> Nat]
  BY <1>1 DEF Balanced
<1>3. Adds(hint.events, hint'.events, hint.seed)
      /\ Named(hint'.events, hint.seed, Discovered) = Named(hint.events, hint.seed, Discovered)
  <2>1. CASE hint'.events = hint.events BY <2>1 DEF Adds
  <2>2. CASE \E kind : /\ kind \notin Discovered
                       /\ hint'.events = emitWebHintEvent(hint.events, kind, {})
    BY <2>2, QuietEvent
  <2> QED BY <1>1, <1>2, <2>1, <2>2, AnswerEffects
<1>4. EventsExplain(hint', pctx.log)
  <2>1. Named(hint'.events, hint.seed, Discovered) = {}
    BY <1>1, <1>3 DEF EventsExplain
  <2>2. hint'.phase = "fetch" /\ hint'.seeds = hint.seeds /\ hint'.seed = hint.seed
    BY <1>1, <1>2, AnswerEffects
  <2> QED BY <1>1, <1>3, <2>1, <2>2, SeedMoves
<1>5. Balanced(hint', FALSE)
  BY <1>1, <1>2, AnswerEffects DEF Balanced
<1>6. DOMAIN hint' = HintFields /\ hint'.phase = "fetch"
  BY <1>1, <1>2, AnswerEffects
<1> QED BY <1>1, <1>4, <1>5, <1>6 DEF HintInv

\* A seed is over, or goes to the judge; the counts stay.
LEMMA HintSeedSettles ==
    ASSUME HintInv, stage = "web_hint", UNCHANGED <<stage, req>>,
           hint.phase = "judge" \/ (hint.phase = "fetch" /\ hint.targets = <<>>),
           DOMAIN hint' = HintFields, hint'.phase \in {"seeds", "judge"},
           hint'.seeds = hint.seeds, hint'.seed = hint.seed, hint'.stats = hint.stats,
           "log" \in DOMAIN pctx', pctx.log \subseteq pctx'.log,
           Adds(hint.events, hint'.events, hint.seed),
           hint'.phase = "judge" =>
              /\ DOMAIN hint'.cands # {}
              /\ Named(hint'.events, hint.seed, Discovered) = DOMAIN hint'.cands,
           hint'.phase = "seeds" => Explained(hint'.events, pctx'.log, hint.seed)
    PROVE  HintInv'
<1>1. EventsExplain(hint', pctx'.log)
  <2>1. EventsExplain(hint, pctx.log) /\ hint.phase \in {"fetch", "judge"}
    BY DEF HintInv
  <2>2. hint'.phase = "fetch" => Named(hint'.events, hint.seed, Discovered) = {} OBVIOUS
  <2> QED BY <2>1, <2>2, SeedMoves
<1>2. Balanced(hint, req.state # "idle")'
  BY DEF HintInv, Balanced
<1> QED BY <1>1, <1>2 DEF HintInv

\* The targets of a seed are through.
LEMMA HintFetchedKeeps ==
    ASSUME HintInv, stage = "web_hint", UNCHANGED stage, WebHintFetched
    PROVE  HintInv'
<1> DEFINE kind == IF HintRequest = {} THEN "web_hint_no_candidates"
                   ELSE "web_hint_candidates_discovered"
           found == emitWebHintEvent(hint.events, kind, HintRequest)
           unjudged == emitWebHintEvent({}, "web_hint_candidates_unjudged", HintRequest)
<1>1. /\ DOMAIN hint' = HintFields /\ hint'.phase \in {"seeds", "judge"}
      /\ hint'.seeds = hint.seeds /\ hint'.seed = hint.seed /\ hint'.stats = hint.stats
      /\ hint'.cands = hint.cands
      /\ hint.phase = "fetch" /\ hint.targets = <<>> /\ UNCHANGED <<req, pctx>>
      /\ "log" \in DOMAIN pctx
      /\ hint'.phase = "judge" => HintRequest # {} /\ hint'.events = found
      /\ hint'.phase = "seeds" /\ HintRequest = {} => hint'.events = found
      /\ hint'.phase = "seeds" /\ HintRequest # {} => hint'.events = found \cup unjudged
  BY DEF HintInv, HintFields, WebHintFetched, fetchVars
<1>2. Named(hint.events, hint.seed, Discovered) = {}
  BY <1>1 DEF HintInv, EventsExplain
<1>3. \A kinds : Named(found, hint.seed, kinds)
                 = Named(hint.events, hint.seed, kinds) \cup (IF kind \in kinds THEN HintRequest ELSE {})
  BY EmitNames
<1>4. Named(unjudged, hint.seed, Discovered) = {} /\ HintRequest \subseteq Named(unjudged, hint.seed, Told)
  <2>1. \A kinds : Named(unjudged, hint.seed, kinds)
           = Named({}, hint.seed, kinds)
             \cup (IF "web_hint_candidates_unjudged" \in kinds THEN HintRequest ELSE {})
    BY EmitNames
  <2>2. Named({}, hint.seed, Discovered) = {} BY DEF Named
  <2> HIDE DEF unjudged
  <2> QED BY <2>1, <2>2 DEF Discovered, Told
<1>5. Named(found, hint.seed, Discovered) = HintRequest
  BY <1>2, <1>3 DEF Discovered
<1>6. Adds(hint.events, found, hint.seed) /\ Adds(hint.events, found \cup unjudged, hint.seed)
  <2>1. Adds(hint.events, hint.events, hint.seed) /\ Adds({}, {}, hint.seed) BY DEF Adds
  <2>2. Adds(hint.events, found, hint.seed) BY <2>1, EmitAdds
  <2>3. Adds({}, unjudged, hint.seed) BY <2>1, EmitAdds
  <2> QED BY <2>2, <2>3, UnionAdds
<1> HIDE DEF found, unjudged
<1>7. Adds(hint.events, hint'.events, hint.seed) BY <1>1, <1>6
<1>8. hint'.phase = "judge" => /\ DOMAIN hint'.cands # {}
                               /\ Named(hint'.events, hint.seed, Discovered) = DOMAIN hint'.cands
  BY <1>1, <1>5 DEF HintRequest
<1>9. hint'.phase = "seeds" => Explained(hint'.events, pctx'.log, hint.seed)
  <2>1. CASE HintRequest = {} BY <1>1, <1>5, <2>1 DEF Explained
  <2>2. CASE HintRequest # {}
    <3>0. \A kinds : Named(found \cup unjudged, hint.seed, kinds)
                     = Named(found, hint.seed, kinds) \cup Named(unjudged, hint.seed, kinds)
      BY NamedUnion
    <3>1. /\ Named(found \cup unjudged, hint.seed, Discovered) = HintRequest
          /\ HintRequest \subseteq Named(found \cup unjudged, hint.seed, Told)
      BY <1>4, <1>5, <3>0
    <3> QED BY <1>1, <2>2, <3>1 DEF Explained
  <2> QED BY <2>1, <2>2
<1> QED BY <1>1, <1>7, <1>8, <1>9, HintSeedSettles

\* The judge fails on the roots of a seed.
LEMMA HintJudgeFailsKeeps ==
    ASSUME HintInv, stage = "web_hint", UNCHANGED stage, WebHintJudgeFails
    PROVE  HintInv'
<1> DEFINE failed == emitWebHintEvent(hint.events, "web_hint_judge_failed", HintRequest)
<1>1. /\ DOMAIN hint' = HintFields /\ hint'.phase = "seeds" /\ hint.phase = "judge"
      /\ hint'.seeds = hint.seeds /\ hint'.seed = hint.seed /\ hint'.stats = hint.stats
      /\ hint'.events = emitWebHintEvent(failed, "web_hint_no_accepted_candidates", HintRequest)
      /\ UNCHANGED <<req, pctx>> /\ "log" \in DOMAIN pctx
  BY DEF HintInv, HintFields, WebHintJudgeFails, fetchVars, NoneAccepted
<1>2. Named(hint.events, hint.seed, Discovered) = HintRequest
  BY <1>1 DEF HintInv, EventsExplain, HintRequest
<1>3. /\ Named(failed, hint.seed, Discovered) = HintRequest
      /\ HintRequest \subseteq Named(failed, hint.seed, Told)
  <2>1. \A kinds : Named(failed, hint.seed, kinds)
           = Named(hint.events, hint.seed, kinds)
             \cup (IF "web_hint_judge_failed" \in kinds THEN HintRequest ELSE {})
    BY EmitNames
  <2> HIDE DEF failed
  <2> QED BY <1>2, <2>1 DEF Discovered, Told
<1>4. Adds(hint.events, failed, hint.seed)
  <2>1. Adds(hint.events, hint.events, hint.seed) BY DEF Adds
  <2> QED BY <2>1, EmitAdds
<1> HIDE DEF failed
<1>5. Adds(hint.events, hint'.events, hint.seed) BY <1>1, <1>4, EmitAdds
<1>6. Explained(hint'.events, pctx'.log, hint.seed)
  <2>1. /\ Named(hint'.events, hint.seed, Discovered) = HintRequest
        /\ HintRequest \subseteq Named(hint'.events, hint.seed, Told)
    <3>1. \A kinds : Named(hint'.events, hint.seed, kinds)
             = Named(failed, hint.seed, kinds)
               \cup (IF "web_hint_no_accepted_candidates" \in kinds THEN HintRequest ELSE {})
      BY <1>1, EmitNames
    <3> QED BY <1>3, <3>1 DEF Discovered, Told
  <2> QED BY <2>1 DEF Explained
<1> QED BY <1>1, <1>5, <1>6, HintSeedSettles

\* The last events of a judged seed name what the judge collects, and discover
\* nothing.
LEMMA EndEventsName ==
    ASSUME NEW accepted, NEW low
    PROVE  /\ Adds({}, EndEvents(accepted, low), hint.seed)
           /\ Named(EndEvents(accepted, low), hint.seed, Discovered) = {}
           /\ accepted \cup low \subseteq Named(EndEvents(accepted, low), hint.seed, Told)
<1> DEFINE none == emitWebHintEvent({}, "web_hint_no_accepted_candidates", HintRequest)
           taken == emitWebHintEvent({}, "web_hint_candidates_accepted", accepted)
           skipped == emitWebHintEvent({}, "web_hint_low_confidence_skipped", low)
           first == IF accepted = {} THEN none ELSE taken
           second == IF low = {} THEN {} ELSE skipped
<1>1. EndEvents(accepted, low) = first \cup second
  BY DEF EndEvents, EndEvents_OneOutcome, NoneAccepted
<1>2. /\ \A kinds : Named({}, hint.seed, kinds) = {}
      /\ Adds({}, {}, hint.seed)
  BY DEF Named, Adds
<1>3. Adds({}, none, hint.seed) /\ Adds({}, taken, hint.seed) /\ Adds({}, skipped, hint.seed)
  BY <1>2, EmitAdds
<1>4. \A kinds : /\ Named(none, hint.seed, kinds)
                      = Named({}, hint.seed, kinds)
                        \cup (IF "web_hint_no_accepted_candidates" \in kinds THEN HintRequest ELSE {})
                 /\ Named(taken, hint.seed, kinds)
                      = Named({}, hint.seed, kinds)
                        \cup (IF "web_hint_candidates_accepted" \in kinds THEN accepted ELSE {})
                 /\ Named(skipped, hint.seed, kinds)
                      = Named({}, hint.seed, kinds)
                        \cup (IF "web_hint_low_confidence_skipped" \in kinds THEN low ELSE {})
  BY EmitNames
<1> HIDE DEF none, taken, skipped
<1>5. /\ Named(first, hint.seed, Discovered) = {}
      /\ accepted \subseteq Named(first, hint.seed, Told)
  BY <1>2, <1>4 DEF Discovered, Told
<1>6. /\ Named(second, hint.seed, Discovered) = {}
      /\ low \subseteq Named(second, hint.seed, Told)
  BY <1>2, <1>4 DEF Discovered, Told
<1>7. Adds({}, first, hint.seed) /\ Adds({}, second, hint.seed)
  BY <1>2, <1>3
<1> HIDE DEF first, second
<1>8. \A kinds : Named(first \cup second, hint.seed, kinds)
                 = Named(first, hint.seed, kinds) \cup Named(second, hint.seed, kinds)
  BY NamedUnion
<1> QED BY <1>1, <1>5, <1>6, <1>7, <1>8, UnionAdds

\* The judge replies for the roots of a seed.
LEMMA HintJudgedKeeps ==
    ASSUME HintInv, stage = "web_hint", UNCHANGED stage,
           NEW reply, NEW materialized, WebHintJudged(reply, materialized)
    PROVE  HintInv'
<1> DEFINE decisions == EvaluateCandidates(HintRequest, reply)
           accepted == Approved(decisions, pctx.threshold)
           low == {r \in HintRequest : decisions[r].collect} \ accepted
           completed == emitWebHintEvent(hint.events, "web_hint_judge_completed", HintRequest)
           record == [collector |-> "web_hint_collector", outcomes |-> decisions]
<1>1. /\ DOMAIN hint' = HintFields /\ hint'.phase = "seeds" /\ hint.phase = "judge"
      /\ hint'.seeds = hint.seeds /\ hint'.seed = hint.seed /\ hint'.stats = hint.stats
      /\ hint'.events = completed \cup EndEvents(accepted, low)
      /\ UNCHANGED req
  BY DEF HintInv, HintFields, WebHintJudged, fetchVars
<1>2. /\ Named(hint.events, hint.seed, Discovered) = HintRequest /\ HintRequest # {}
  BY <1>1 DEF HintInv, EventsExplain, HintRequest
<1>3. DOMAIN decisions = HintRequest BY DEF EvaluateCandidates
<1>4. "log" \in DOMAIN pctx' /\ pctx'.log = pctx.log \cup {record}
  <2>1. DOMAIN decisions # {} BY <1>2, <1>3
  <2>2. RecordJudgeEvaluation(pctx.log, "web_hint_collector", decisions) = pctx.log \cup {record}
    BY <2>1 DEF RecordJudgeEvaluation
  <2>3. "log" \in DOMAIN pctx BY DEF HintInv
  <2>4. DOMAIN pctx' = DOMAIN pctx
        /\ pctx'.log = RecordJudgeEvaluation(pctx.log, "web_hint_collector", decisions)
    BY <2>3 DEF WebHintJudged, JudgeReplies
  <2> QED BY <2>2, <2>3, <2>4
<1>5. \A kinds : Named(completed, hint.seed, kinds)
         = Named(hint.events, hint.seed, kinds)
           \cup (IF "web_hint_judge_completed" \in kinds THEN HintRequest ELSE {})
  BY EmitNames
<1>6. Adds(hint.events, completed, hint.seed)
  <2>1. Adds(hint.events, hint.events, hint.seed) BY DEF Adds
  <2> QED BY <2>1, EmitAdds
<1>7. /\ \A r \in HintRequest : r \in accepted \cup low \/ ~decisions[r].collect
  BY DEF Approved
<1>8. record.outcomes = decisions OBVIOUS
<1> HIDE DEF decisions, accepted, low, completed, record
<1>9. Adds(hint.events, hint'.events, hint.seed) BY <1>1, <1>6, EndEventsName, UnionAdds
<1>10. \A kinds : Named(hint'.events, hint.seed, kinds)
                  = Named(completed, hint.seed, kinds)
                    \cup Named(EndEvents(accepted, low), hint.seed, kinds)
  BY <1>1, NamedUnion
<1>11. /\ Named(hint'.events, hint.seed, Discovered) = HintRequest
       /\ accepted \cup low \subseteq Named(hint'.events, hint.seed, Told)
  <2> DEFINE named(events, kinds) == Named(events, hint.seed, kinds)
  <2>1. /\ named(EndEvents(accepted, low), Discovered) = {}
        /\ accepted \cup low \subseteq named(EndEvents(accepted, low), Told)
    BY EndEventsName
  <2>2. named(completed, Discovered) = HintRequest
    BY <1>2, <1>5 DEF Discovered
  <2>3. \A kinds : named(hint'.events, kinds)
                      = named(completed, kinds) \cup named(EndEvents(accepted, low), kinds)
    BY <1>10
  <2> HIDE DEF named
  <2>4. named(hint'.events, Discovered) = HintRequest BY <2>1, <2>2, <2>3
  <2>5. accepted \cup low \subseteq named(hint'.events, Told) BY <2>1, <2>3
  <2> QED BY <2>4, <2>5 DEF named
<1>12. Explained(hint'.events, pctx'.log, hint.seed)
  BY <1>3, <1>4, <1>7, <1>8, <1>11 DEF Explained
<1> QED BY <1>1, <1>4, <1>9, <1>12, HintSeedSettles

\* Process returns.
LEMMA HintReturnKeeps ==
    ASSUME HintInv, stage = "web_hint", UNCHANGED stage, WebHintReturn
    PROVE  HintInv'
<1>1. /\ DOMAIN hint' = HintFields /\ hint'.phase = "returned" /\ hint.phase = "seeds"
      /\ hint'.seeds = hint.seeds /\ hint.seeds = {} /\ hint'.stats = hint.stats
      /\ hint'.events = hint.events /\ UNCHANGED req
      /\ pctx'.log = pctx.log /\ "log" \in DOMAIN pctx'
  BY DEF HintInv, HintFields, WebHintReturn, fetchVars
<1>2. EventsExplain(hint', pctx'.log)
  BY <1>1 DEF HintInv, EventsExplain
<1>3. Balanced(hint, req.state # "idle")'
  BY <1>1 DEF HintInv, Balanced
<1> QED BY <1>1, <1>2, <1>3 DEF HintInv

\* Every step of the stages.
LEMMA HintStep ==
    ASSUME HintInv, FetchInv, [StagesNext]_stageVars
    PROVE  HintInv'
<1>1. UNCHANGED stage BY DEF StagesNext, stageVars
<1>2. CASE stage = "web_hint" /\ WebHintNext
  BY <1>1, <1>2, HintProcessKeeps, HintStartSeedKeeps, HintFetchKeeps, HintRequestKeeps,
     HintAnswerKeeps, HintFetchedKeeps, HintJudgeFailsKeeps, HintJudgedKeeps, HintReturnKeeps
     DEF WebHintNext
<1>3. CASE stage # "web_hint" /\ UNCHANGED hint BY <1>1, <1>3 DEF HintInv
<1>4. CASE UNCHANGED stageVars
  BY <1>4 DEF stageVars, hintVars, fetchVars, HintInv
<1> QED BY <1>1, <1>2, <1>3, <1>4 DEF StagesNext, hintVars

\* A reader of the activity log sees, for every root the pages of a seed named,
\* what became of it, and every requested target in the counts
\* (WebHintCollector.Process, emitWebHintEvent).
THEOREM LogExplains == StagesSpec => []HintsExplained
<1>1. StagesInit => HintInv /\ FetchInv
  <2> SUFFICES ASSUME StagesInit PROVE HintInv /\ FetchInv OBVIOUS
  <2>1. /\ DOMAIN hint = HintFields /\ hint.phase = "idle" /\ hint.events = {}
        /\ hint.seeds = {} /\ hint.stats = NoStats
    BY DEF StagesInit, WebHintInit, HintFields
  <2>2. req.state = "idle" /\ FetchInv
    BY DEF StagesInit, WebHintInit, FetchInit, NoRequest, FetchInv
  <2>3. "log" \in DOMAIN pctx BY DEF StagesInit, NewStageContext
  <2>4. /\ NoStats \in [{"targets", "successful", "skipped", "fetchErrors", "bodyErrors"} -> Nat]
        /\ NoStats.targets = NoStats.successful + NoStats.skipped + NoStats.fetchErrors + 0
    BY DEF NoStats
  <2>5. Balanced(hint, FALSE) BY <2>1, <2>4 DEF Balanced
  <2>6. EventsExplain(hint, pctx.log) BY <2>1 DEF EventsExplain
  <2> QED BY <2>1, <2>2, <2>3, <2>5, <2>6 DEF HintInv
<1>2. HintInv /\ FetchInv /\ [StagesNext]_stageVars => (HintInv /\ FetchInv)'
  BY HintStep, FetchKept
<1>3. HintInv => HintsExplained
  <2> SUFFICES ASSUME HintInv PROVE HintsExplained OBVIOUS
  <2>1. hint.phase = "returned" => \A s \in HintSeeds : Explained(hint.events, pctx.log, s)
    BY DEF HintInv, EventsExplain
  <2>2. req.state = "idle" =>
           hint.stats.targets = hint.stats.successful + hint.stats.skipped + hint.stats.fetchErrors
    BY DEF HintInv, Balanced
  <2>3. \A s, kinds : RootsOf(s, kinds) = Named(hint.events, s, kinds)
    BY DEF RootsOf, Named
  <2> QED BY <2>1, <2>2, <2>3 DEF HintsExplained, Explained, Discovered, Told
<1> QED BY <1>1, <1>2, <1>3, PTL DEF StagesSpec

-----------------------------------------------------------------------------
(* The enrichers: what their records hold from the start.                  *)

EnrFields == {"phase", "wave", "domains", "ips", "relations", "cache", "emitted", "jobs",
              "busy", "results", "todo", "ptrs", "groups", "followUps", "faults", "restarts",
              "led", "unsupported"}

\* Before the first wave nothing is known, whatever the names will turn out to hold.
EnrShape ==
    /\ DOMAIN enr = EnrFields
    /\ enr.phase \in {"idle", "lookup", "ip", "judge", "returned"}
    /\ enr.wave \in Nat \ {0}
    /\ enr.phase = "idle" /\ enr.wave = 1 =>
          /\ DOMAIN enr.domains = {} /\ DOMAIN enr.ips = {}
          /\ DOMAIN enr.cache = {} /\ enr.emitted = {}

\* The enrichers start with nothing.
LEMMA EnrInitShape ==
    ASSUME EnrichInit
    PROVE  EnrShape
BY DEF EnrichInit, EnrShape, EnrFields

\* The sightings of addresses that a merge reports, and what a merge makes of it all.
FreshFound == {<<f[2], f[1]>> : f \in FreshLinks}

AfterMerge(first) ==
    LET ips == Contribute(enr.ips, FreshFound, NewIPAsset, first)
    IN  [enr EXCEPT !.phase = "ip",
           !.cache = [d \in DOMAIN @ \cup DOMAIN enr.results |-> Result(d).entry],
           !.domains = [d \in DOMAIN @ |-> MergeResult(@[d], d)],
           !.emitted = @ \cup FreshLinks, !.led = @ \cup Links(ips),
           !.relations = @ \cup {<<Claimant(f), f[2]>> : f \in FreshLinks},
           !.ips = ips, !.todo = DOMAIN ips, !.ptrs = {}]

\* The end of the lookups: answers are cached and merged, what is new is
\* contributed to the addresses.
LEMMA MergeSteps ==
    ASSUME DOMAIN enr = EnrFields, EnrichMerge
    PROVE  \E first \in Firsts(enr.ips, FreshFound) :
              /\ enr'.ips = Contribute(enr.ips, FreshFound, NewIPAsset, first)
              /\ enr'.led = enr.led \cup Links(Contribute(enr.ips, FreshFound, NewIPAsset, first))
              /\ enr'.emitted = enr.emitted \cup FreshLinks
              /\ enr'.cache = [d \in DOMAIN enr.cache \cup DOMAIN enr.results |-> Result(d).entry]
              /\ enr'.domains = [d \in DOMAIN enr.domains |-> MergeResult(enr.domains[d], d)]
              /\ enr'.phase = "ip" /\ enr'.todo = DOMAIN enr'.ips
              /\ enr'.wave = enr.wave /\ enr'.unsupported = enr.unsupported
              /\ DOMAIN enr' = EnrFields /\ enrWorld' = enrWorld
<1> DEFINE Ips(first) == Contribute(enr.ips, FreshFound, NewIPAsset, first)
           cache == [d \in DOMAIN enr.cache \cup DOMAIN enr.results |-> Result(d).entry]
           domains == [d \in DOMAIN enr.domains |-> MergeResult(enr.domains[d], d)]
           relations == enr.relations \cup {<<Claimant(f), f[2]>> : f \in FreshLinks}
<1>1. PICK first \in Firsts(enr.ips, FreshFound) : enr' = AfterMerge(first)
  BY Zenon DEF EnrichMerge, FreshFound, AfterMerge
<1>2. enr' = [enr EXCEPT !.phase = "ip", !.cache = cache, !.domains = domains,
                 !.emitted = enr.emitted \cup FreshLinks, !.led = enr.led \cup Links(Ips(first)),
                 !.relations = relations,
                 !.ips = Ips(first), !.todo = DOMAIN Ips(first), !.ptrs = {}]
  BY <1>1 DEF AfterMerge
<1> HIDE DEF Ips, cache, domains, relations
<1>3. /\ enr'.ips = Ips(first) /\ enr'.led = enr.led \cup Links(Ips(first))
      /\ enr'.emitted = enr.emitted \cup FreshLinks
      /\ enr'.cache = cache /\ enr'.domains = domains
  BY <1>2 DEF EnrFields
<1>4. /\ enr'.phase = "ip" /\ enr'.todo = DOMAIN Ips(first)
      /\ enr'.wave = enr.wave /\ enr'.unsupported = enr.unsupported
      /\ DOMAIN enr' = EnrFields
  BY <1>2 DEF EnrFields
<1>5. enrWorld' = enrWorld BY DEF EnrichMerge
<1> QED BY <1>3, <1>4, <1>5 DEF Ips, cache, domains

\* Whatever happens keeps to that.
LEMMA EnrStepShape ==
    ASSUME EnrShape, EnrichNext
    PROVE  EnrShape'
<1>1. CASE EnrichStart BY <1>1 DEF EnrichStart, EnrShape, EnrFields
<1>2. ASSUME NEW d, EnrichTakeJob(d) PROVE EnrShape'
  BY <1>2 DEF EnrichTakeJob, EnrShape, EnrFields
<1>3. ASSUME NEW d, NEW failed, NEW answer, EnrichLookup(d, failed, answer) PROVE EnrShape'
  BY <1>3 DEF EnrichLookup, EnrShape, EnrFields
<1>4. CASE EnrichMerge
  <2>1. DOMAIN enr' = EnrFields /\ enr'.phase = "ip" /\ enr'.wave = enr.wave
    BY <1>4, MergeSteps DEF EnrShape
  <2> QED BY <2>1 DEF EnrShape
<1>5. ASSUME NEW i, NEW ptrFails, NEW asnFails, EnrichIP(i, ptrFails, asnFails) PROVE EnrShape'
  BY <1>5 DEF EnrichIP, EnrShape, EnrFields
<1>6. CASE EnrichIPsDone BY <1>6 DEF EnrichIPsDone, EnrShape, EnrFields
<1>7. ASSUME NEW s, EnrichJudgeFails(s) PROVE EnrShape'
  BY <1>7 DEF EnrichJudgeFails, EnrShape, EnrFields
<1>8. ASSUME NEW s, NEW reply, NEW accepted, EnrichJudged(s, reply, accepted) PROVE EnrShape'
  BY <1>8 DEF EnrichJudged, EnrShape, EnrFields
<1>9. CASE EnrichWaveDone
  <2>1. DOMAIN enr' = EnrFields /\ enr'.phase \in {"returned", "idle"}
    BY <1>9 DEF EnrichWaveDone, EnrShape, EnrFields
  <2>2. enr'.wave \in Nat \ {0} /\ (enr'.phase = "idle" => enr'.wave # 1)
    BY <1>9 DEF EnrichWaveDone, EnrShape, EnrFields
  <2> QED BY <2>1, <2>2 DEF EnrShape
<1>10. CASE EnrichRestart
  <2>1. DOMAIN enr' = EnrFields /\ enr'.phase = enr.phase /\ enr'.wave = enr.wave
    BY <1>10 DEF EnrichRestart, EnrShape, EnrFields
  <2>2. enr.wave # 1 BY <1>10 DEF EnrichRestart, EnrShape
  <2> QED BY <2>1, <2>2 DEF EnrShape
<1> QED
  BY <1>1, <1>2, <1>3, <1>4, <1>5, <1>6, <1>7, <1>8, <1>9, <1>10 DEF EnrichNext

\* The assets there are after the collectors of a wave.
LEMMA ContributeDomain ==
    ASSUME NEW assets, NEW found, NEW new, NEW first
    PROVE  DOMAIN Contribute(assets, found, new, first) = DOMAIN assets \cup {f[1] : f \in found}
BY DEF Contribute

\* An asset that is found again gains contributors and keeps everything else.
LEMMA ContributeKeeps ==
    ASSUME NEW assets, NEW found, NEW new, NEW first, NEW a \in DOMAIN assets,
           "enums" \in DOMAIN assets[a]
    PROVE  LET c == Contribute(assets, found, new, first)[a]
           IN  /\ DOMAIN c = DOMAIN assets[a]
               /\ c.enums = assets[a].enums \cup {f[2] : f \in {g \in found : g[1] = a}}
               /\ \A x \in DOMAIN c \ {"enums"} : c[x] = assets[a][x]
BY DEF Contribute

\* An asset that is new has its contributors, its founder, and nothing else.
LEMMA ContributeNew ==
    ASSUME NEW assets, NEW found, NEW new, NEW first, {"enums", "founder"} \subseteq DOMAIN new,
           NEW a \in {f[1] : f \in found} \ DOMAIN assets
    PROVE  LET c == Contribute(assets, found, new, first)[a]
           IN  /\ DOMAIN c = DOMAIN new
               /\ c.enums = new.enums \cup {f[2] : f \in {g \in found : g[1] = a}}
               /\ c.founder = first[a]
               /\ \A x \in DOMAIN c \ {"enums", "founder"} : c[x] = new[x]
<1> DEFINE found2 == {f[2] : f \in {g \in found : g[1] = a}}
           made == [new EXCEPT !.founder = first[a]]
           c == [made EXCEPT !.enums = @ \cup found2]
<1>1. Contribute(assets, found, new, first)[a] = c BY DEF Contribute
<1> HIDE DEF found2
<1>2. /\ DOMAIN made = DOMAIN new /\ made.founder = first[a]
      /\ \A x \in DOMAIN new \ {"founder"} : made[x] = new[x]
  OBVIOUS
<1> HIDE DEF made
<1>3. /\ DOMAIN c = DOMAIN made /\ c.enums = made.enums \cup found2
      /\ \A x \in DOMAIN made \ {"enums"} : c[x] = made[x]
  BY <1>2
<1> HIDE DEF c
<1>4. /\ DOMAIN c = DOMAIN new /\ c.enums = new.enums \cup found2 /\ c.founder = first[a]
      /\ \A x \in DOMAIN c \ {"enums", "founder"} : c[x] = new[x]
  BY <1>2, <1>3
<1> QED BY <1>1, <1>4 DEF found2

\* The founder of a new asset is one of those that found it.
LEMMA FounderFound ==
    ASSUME NEW assets, NEW found, NEW first \in Firsts(assets, found),
           NEW a \in {f[1] : f \in found} \ DOMAIN assets
    PROVE  first[a] \in {f[2] : f \in {g \in found : g[1] = a}}
<1>1. <<a, first[a]>> \in found BY DEF Firsts
<1> QED BY <1>1

\* A resumed asset has what it had but for its contributors.
LEMMA ReingestedFields ==
    ASSUME NEW assets, NEW a \in DOMAIN assets, "enums" \in DOMAIN assets[a]
    PROVE  LET c == Reingested(assets)[a]
           IN  /\ DOMAIN c = DOMAIN assets[a]
               /\ c.enums = {assets[a].founder}
               /\ \A x \in DOMAIN c \ {"enums"} : c[x] = assets[a][x]
BY DEF Reingested

-----------------------------------------------------------------------------
(* The ownership of addresses.                                             *)

IPFields == {"founder", "enums", "ptr", "asn", "state", "ownership"}

Owner(world, i, asset, s) ==
    \/ asset.ptr # NoPTR /\ asset.ptr \in EnrichSeedRoots[s]
    \/ s \in asset.asn \cup world.cidr[i]

\* A seed of a contributor owns the reverse name or the network.
OwnedBy(world, i, asset) == \E e \in asset.enums : Owner(world, i, asset, SeedOf[e])

\* ... or a seed that led to the address once.
OwnedOnce(world, led, i, asset) ==
    \E l \in led : l[2] = i /\ Owner(world, i, asset, SeedOf[l[1]])

\* What an address claims of its ownership it had evidence for, and its answers
\* are those of the world, or none yet.
Evident(world, led, i, asset) ==
    /\ DOMAIN asset = IPFields
    /\ asset.founder \in asset.enums
    /\ \A e \in asset.enums : <<e, i>> \in led
    /\ asset.ptr \in {NoPTR, world.ptr[i]}
    /\ asset.asn \in {{}, world.asn[i]}
    /\ asset.ownership = "owned" => OwnedOnce(world, led, i, asset)
    /\ asset.ownership = "uncertain" => asset.ptr # NoPTR

Classified(world, i, asset) ==
    /\ OwnedBy(world, i, asset) => asset.ownership = "owned"
    /\ asset.ownership = "uncertain" <=> ~OwnedBy(world, i, asset) /\ asset.ptr # NoPTR

OwnershipInv ==
    /\ EnrShape
    /\ \A i \in DOMAIN enr.ips : Evident(enrWorld, enr.led, i, enr.ips[i])
    /\ enr.phase = "ip" =>
          /\ enr.todo \subseteq DOMAIN enr.ips
          /\ \A i \in DOMAIN enr.ips \ enr.todo : Classified(enrWorld, i, enr.ips[i])
    /\ enr.phase = "judge" => \A i \in DOMAIN enr.ips : Classified(enrWorld, i, enr.ips[i])

\* More sightings and more answers never take evidence away.
LEMMA EvidenceGrows ==
    ASSUME NEW world, NEW led, NEW led2, NEW i, NEW a, NEW b, Evident(world, led, i, a),
           DOMAIN b = IPFields, led \subseteq led2, b.founder \in b.enums,
           \A e \in b.enums : <<e, i>> \in led2, b.ownership = a.ownership,
           b.ptr = a.ptr \/ b.ptr = world.ptr[i],
           b.asn = a.asn \/ b.asn = world.asn[i]
    PROVE  Evident(world, led2, i, b)
<1>1. ASSUME NEW s, Owner(world, i, a, s) PROVE Owner(world, i, b, s)
  BY <1>1 DEF Evident, Owner
<1>2. OwnedOnce(world, led, i, a) => OwnedOnce(world, led2, i, b)
  BY <1>1 DEF OwnedOnce
<1> QED BY <1>2 DEF Evident

\* An address that is found again keeps its evidence; a new one claims nothing.
LEMMA ContributeEvident ==
    ASSUME NEW world, NEW ips, NEW found, NEW first \in Firsts(ips, found), NEW led, NEW led2,
           \A i \in DOMAIN ips : Evident(world, led, i, ips[i]),
           led2 = led \cup Links(Contribute(ips, found, NewIPAsset, first))
    PROVE  \A i \in DOMAIN Contribute(ips, found, NewIPAsset, first) :
              Evident(world, led2, i, Contribute(ips, found, NewIPAsset, first)[i])
<1> DEFINE c == Contribute(ips, found, NewIPAsset, first)
           New(i) == {f[2] : f \in {g \in found : g[1] = i}}
<1>1. DOMAIN c = DOMAIN ips \cup {f[1] : f \in found}
  BY ContributeDomain
<1>2. \A i \in DOMAIN c : \A e \in c[i].enums : <<e, i>> \in led2
  <2> HIDE DEF c
  <2>1. led2 = led \cup Links(c) BY DEF c
  <2> QED BY <2>1 DEF Links
<1>3. ASSUME NEW i \in DOMAIN ips PROVE Evident(world, led2, i, c[i])
  <2>1. Evident(world, led, i, ips[i]) OBVIOUS
  <2>2. "enums" \in DOMAIN ips[i] BY <2>1 DEF Evident, IPFields
  <2>3. /\ DOMAIN c[i] = DOMAIN ips[i]
        /\ ips[i].enums \subseteq c[i].enums
        /\ \A x \in DOMAIN c[i] \ {"enums"} : c[i][x] = ips[i][x]
    BY <2>2, ContributeKeeps
  <2>4. i \in DOMAIN c BY <1>1
  <2> HIDE DEF c
  <2>5. /\ DOMAIN c[i] = IPFields /\ c[i].ownership = ips[i].ownership
        /\ c[i].ptr = ips[i].ptr /\ c[i].asn = ips[i].asn /\ c[i].founder \in c[i].enums
    BY <2>1, <2>3 DEF Evident, IPFields
  <2>6. led \subseteq led2 OBVIOUS
  <2> QED BY <1>2, <2>1, <2>4, <2>5, <2>6, EvidenceGrows
<1>4. ASSUME NEW i \in DOMAIN c \ DOMAIN ips PROVE Evident(world, led2, i, c[i])
  <2>1. {"enums", "founder"} \subseteq DOMAIN NewIPAsset BY DEF NewIPAsset
  <2>2. i \in {f[1] : f \in found} \ DOMAIN ips BY <1>1
  <2>3. /\ DOMAIN c[i] = DOMAIN NewIPAsset
        /\ c[i].enums = NewIPAsset.enums \cup New(i) /\ c[i].founder = first[i]
        /\ \A x \in DOMAIN c[i] \ {"enums", "founder"} : c[i][x] = NewIPAsset[x]
    BY <2>1, <2>2, ContributeNew
  <2>4. first[i] \in New(i) BY <2>2, FounderFound
  <2> HIDE DEF c, New
  <2>5. /\ DOMAIN c[i] = IPFields /\ c[i].founder \in c[i].enums
        /\ c[i].ownership = "associated_infrastructure" /\ c[i].ptr = NoPTR /\ c[i].asn = {}
    BY <2>3, <2>4 DEF NewIPAsset, IPFields
  <2> QED BY <1>2, <2>5 DEF Evident
<1> QED BY <1>1, <1>3, <1>4

\* A resumed address has the evidence it had.
LEMMA ReingestedEvident ==
    ASSUME NEW world, NEW led, NEW ips, NEW i \in DOMAIN ips, Evident(world, led, i, ips[i])
    PROVE  Evident(world, led, i, Reingested(ips)[i])
<1> DEFINE c == Reingested(ips)[i]
<1>1. "enums" \in DOMAIN ips[i] BY DEF Evident, IPFields
<1>2. /\ DOMAIN c = DOMAIN ips[i] /\ c.enums = {ips[i].founder}
      /\ \A x \in DOMAIN c \ {"enums"} : c[x] = ips[i][x]
  BY <1>1, ReingestedFields
<1> HIDE DEF c
<1>3. /\ DOMAIN c = IPFields /\ c.ownership = ips[i].ownership /\ c.founder = ips[i].founder
      /\ c.ptr = ips[i].ptr /\ c.asn = ips[i].asn
  BY <1>2 DEF Evident, IPFields
<1>4. c.founder \in c.enums /\ \A e \in c.enums : <<e, i>> \in led
  BY <1>2, <1>3 DEF Evident
<1>5. Evident(world, led, i, c) BY <1>3, <1>4, EvidenceGrows
<1> QED BY <1>5 DEF c

\* The classification of an address with the evidence at hand.
LEMMA ClassifyIsRight ==
    ASSUME NEW i, NEW asset, Evident(enrWorld, enr.led, i, asset)
    PROVE  LET c == classifyCanonicalIPAsset(i, asset)
           IN  Evident(enrWorld, enr.led, i, c) /\ Classified(enrWorld, i, c)
<1> DEFINE matches == ipOwnershipMatchesSeed(i, asset, contributorSeedsForAsset(asset))
           own == IF matches THEN "owned"
                  ELSE IF asset.ptr # NoPTR THEN "uncertain" ELSE asset.ownership
           c == [asset EXCEPT !.ownership = own]
<1>1. classifyCanonicalIPAsset(i, asset) = c BY DEF classifyCanonicalIPAsset
<1>2. matches <=> OwnedBy(enrWorld, i, asset)
  BY DEF ipOwnershipMatchesSeed, contributorSeedsForAsset, OwnedBy, Owner
<1> HIDE DEF matches
<1>3. /\ DOMAIN c = IPFields /\ c.enums = asset.enums /\ c.ptr = asset.ptr
      /\ c.asn = asset.asn /\ c.ownership = own /\ c.founder = asset.founder
  BY DEF Evident, IPFields
<1> HIDE DEF c
<1>4. /\ OwnedBy(enrWorld, i, c) <=> OwnedBy(enrWorld, i, asset)
      /\ OwnedOnce(enrWorld, enr.led, i, c) <=> OwnedOnce(enrWorld, enr.led, i, asset)
  BY <1>3 DEF OwnedBy, OwnedOnce, Owner
<1>5. Classified(enrWorld, i, c)
  BY <1>2, <1>3, <1>4 DEF Classified, Evident
<1>6. OwnedBy(enrWorld, i, asset) => OwnedOnce(enrWorld, enr.led, i, asset)
  <2> SUFFICES ASSUME NEW e \in asset.enums, Owner(enrWorld, i, asset, SeedOf[e])
               PROVE  OwnedOnce(enrWorld, enr.led, i, asset)
    BY DEF OwnedBy
  <2>1. <<e, i>> \in enr.led BY DEF Evident
  <2> QED BY <2>1 DEF OwnedOnce
<1>7. Evident(enrWorld, enr.led, i, c)
  BY <1>2, <1>3, <1>4, <1>6 DEF Evident
<1> QED BY <1>1, <1>5, <1>7

\* The goroutine of one address leaves it classified.
LEMMA IPIsClassified ==
    ASSUME OwnershipInv, NEW i, NEW ptrFails, NEW asnFails, EnrichIP(i, ptrFails, asnFails)
    PROVE  /\ DOMAIN enr'.ips = DOMAIN enr.ips /\ enr'.todo = enr.todo \ {i}
           /\ enr'.phase = "ip" /\ enrWorld' = enrWorld /\ enr'.led = enr.led
           /\ Evident(enrWorld, enr.led, i, enr'.ips[i]) /\ Classified(enrWorld, i, enr'.ips[i])
           /\ \A j \in DOMAIN enr.ips \ {i} : enr'.ips[j] = enr.ips[j]
<1> DEFINE asset == enr.ips[i]
           looked == IF ~StillOpen(asset) THEN asset
                     ELSE [asset EXCEPT
                        !.ptr = IF ptrFails THEN @ ELSE enrWorld.ptr[i],
                        !.asn = IF asnFails THEN @ ELSE enrWorld.asn[i],
                        !.state = IF ptrFails \/ asnFails THEN "retryable" ELSE "completed"]
<1>1. /\ enr'.ips = [enr.ips EXCEPT ![i] = classifyCanonicalIPAsset(i, looked)]
      /\ enr'.todo = enr.todo \ {i} /\ enr'.phase = "ip" /\ enrWorld' = enrWorld
      /\ enr'.led = enr.led /\ i \in DOMAIN enr.ips
  BY DEF OwnershipInv, EnrShape, EnrFields, EnrichIP
<1>2. Evident(enrWorld, enr.led, i, asset) BY <1>1 DEF OwnershipInv
<1> HIDE DEF asset
<1>3. Evident(enrWorld, enr.led, i, looked)
  <2>1. CASE ~StillOpen(asset) BY <1>2, <2>1
  <2>2. CASE StillOpen(asset)
    <3>1. /\ DOMAIN looked = IPFields /\ looked.enums = asset.enums
          /\ looked.ownership = asset.ownership /\ looked.founder = asset.founder
          /\ looked.ptr = asset.ptr \/ looked.ptr = enrWorld.ptr[i]
          /\ looked.asn = asset.asn \/ looked.asn = enrWorld.asn[i]
      BY <1>2, <2>2 DEF Evident, IPFields
    <3> HIDE DEF looked
    <3>2. looked.founder \in looked.enums /\ \A e \in looked.enums : <<e, i>> \in enr.led
      BY <1>2, <3>1 DEF Evident
    <3> QED BY <1>2, <3>1, <3>2, EvidenceGrows
  <2> QED BY <2>1, <2>2
<1> HIDE DEF looked
<1>4. Evident(enrWorld, enr.led, i, enr'.ips[i]) /\ Classified(enrWorld, i, enr'.ips[i])
  BY <1>1, <1>3, ClassifyIsRight
<1> QED BY <1>1, <1>4

\* Every step of the enrichers.
LEMMA OwnershipStep ==
    ASSUME OwnershipInv, EnrichNext
    PROVE  OwnershipInv'
<1>0. EnrShape /\ EnrShape' BY EnrStepShape DEF OwnershipInv
<1>1. CASE EnrichStart
  <2>1. PICK first \in Firsts(enr.ips, EnrichIPInput[enr.wave]) :
           /\ enr'.ips = Contribute(enr.ips, EnrichIPInput[enr.wave], NewIPAsset, first)
           /\ enr'.led = enr.led
                \cup Links(Contribute(enr.ips, EnrichIPInput[enr.wave], NewIPAsset, first))
           /\ enr'.phase = "lookup"
    BY <1>0, <1>1 DEF EnrichStart, EnrShape, EnrFields
  <2>2. \A i \in DOMAIN enr.ips : Evident(enrWorld', enr.led, i, enr.ips[i])
    <3>1. CASE enr.wave = 1 BY <1>0, <1>1, <3>1 DEF EnrichStart, EnrShape
    <3>2. CASE enrWorld' = enrWorld BY <3>2 DEF OwnershipInv
    <3> QED BY <1>1, <3>1, <3>2 DEF EnrichStart
  <2>3. \A i \in DOMAIN enr'.ips : Evident(enrWorld', enr'.led, i, enr'.ips[i])
    BY <2>1, <2>2, ContributeEvident
  <2> QED BY <1>0, <2>1, <2>3 DEF OwnershipInv
<1>2. CASE EnrichMerge
  <2>1. PICK first \in Firsts(enr.ips, FreshFound) :
           /\ enr'.ips = Contribute(enr.ips, FreshFound, NewIPAsset, first)
           /\ enr'.led = enr.led \cup Links(Contribute(enr.ips, FreshFound, NewIPAsset, first))
           /\ enr'.phase = "ip" /\ enr'.todo = DOMAIN enr'.ips
           /\ enrWorld' = enrWorld
    BY <1>0, <1>2, MergeSteps DEF EnrShape
  <2>2. \A i \in DOMAIN enr.ips : Evident(enrWorld', enr.led, i, enr.ips[i])
    BY <2>1 DEF OwnershipInv
  <2>3. \A i \in DOMAIN enr'.ips : Evident(enrWorld', enr'.led, i, enr'.ips[i])
    BY <2>1, <2>2, ContributeEvident
  <2> QED BY <1>0, <2>1, <2>3 DEF OwnershipInv
<1>3. ASSUME NEW i, NEW ptrFails, NEW asnFails, EnrichIP(i, ptrFails, asnFails)
      PROVE  OwnershipInv'
  <2>1. enr.phase = "ip" BY <1>3 DEF EnrichIP
  <2>2. /\ DOMAIN enr'.ips = DOMAIN enr.ips /\ enr'.todo = enr.todo \ {i}
        /\ enr'.phase = "ip" /\ enrWorld' = enrWorld /\ enr'.led = enr.led
        /\ Evident(enrWorld, enr.led, i, enr'.ips[i]) /\ Classified(enrWorld, i, enr'.ips[i])
        /\ \A j \in DOMAIN enr.ips \ {i} : enr'.ips[j] = enr.ips[j]
    BY <1>3, IPIsClassified
  <2>3. \A j \in DOMAIN enr'.ips : Evident(enrWorld', enr'.led, j, enr'.ips[j])
    BY <2>2 DEF OwnershipInv
  <2>4. \A j \in DOMAIN enr'.ips \ enr'.todo : Classified(enrWorld', j, enr'.ips[j])
    BY <2>1, <2>2 DEF OwnershipInv
  <2> QED BY <1>0, <2>1, <2>2, <2>3, <2>4 DEF OwnershipInv
<1>4. ASSUME enr'.ips = enr.ips, enrWorld' = enrWorld, enr'.led = enr.led,
             \/ enr'.phase \in {"idle", "lookup", "returned"}
             \/ enr.phase = "judge" /\ enr'.phase = "judge"
             \/ enr.phase = "ip" /\ enr.todo = {} /\ enr'.phase = "judge"
      PROVE  OwnershipInv'
  BY <1>0, <1>4 DEF OwnershipInv
<1>5. ASSUME NEW d, EnrichTakeJob(d) PROVE OwnershipInv'
  BY <1>0, <1>4, <1>5 DEF EnrichTakeJob, EnrShape, EnrFields
<1>6. ASSUME NEW d, NEW failed, NEW answer, EnrichLookup(d, failed, answer)
      PROVE OwnershipInv'
  BY <1>0, <1>4, <1>6 DEF EnrichLookup, EnrShape, EnrFields
<1>7. CASE EnrichIPsDone BY <1>0, <1>4, <1>7 DEF EnrichIPsDone, EnrShape, EnrFields
<1>8. ASSUME NEW s, EnrichJudgeFails(s) PROVE OwnershipInv'
  BY <1>0, <1>4, <1>8 DEF EnrichJudgeFails, EnrShape, EnrFields
<1>9. ASSUME NEW s, NEW reply, NEW accepted, EnrichJudged(s, reply, accepted) PROVE OwnershipInv'
  BY <1>0, <1>4, <1>9 DEF EnrichJudged, EnrShape, EnrFields
<1>10. CASE EnrichWaveDone
  BY <1>0, <1>4, <1>10 DEF EnrichWaveDone, EnrShape, EnrFields
<1>11. CASE EnrichRestart
  <2>1. /\ enr'.ips = Reingested(enr.ips) /\ enrWorld' = enrWorld /\ enr'.led = enr.led
        /\ enr'.phase = "idle"
    BY <1>0, <1>11 DEF EnrichRestart, EnrShape, EnrFields
  <2>2. DOMAIN enr'.ips = DOMAIN enr.ips BY <2>1 DEF Reingested
  <2>3. \A i \in DOMAIN enr'.ips : Evident(enrWorld', enr'.led, i, enr'.ips[i])
    BY <2>1, <2>2, ReingestedEvident DEF OwnershipInv
  <2> QED BY <1>0, <2>1, <2>3 DEF OwnershipInv
<1> QED
  BY <1>1, <1>2, <1>3, <1>5, <1>6, <1>7, <1>8, <1>9, <1>10, <1>11 DEF EnrichNext

\* When the IP enricher is through, an address counts as owned if the seed of a
\* contributor owns its reverse name or its network, and only if one that ever led
\* to it does; it is uncertain exactly when its reverse name is known and no
\* contributor has evidence, in whatever wave each contributor and each answer
\* came and however often the run was resumed (classifyCanonicalIPAsset).
THEOREM OwnershipIsRight == StagesSpec => []OwnershipMatchesEvidence
<1>1. StagesInit => OwnershipInv
  <2> SUFFICES ASSUME EnrichInit PROVE OwnershipInv BY DEF StagesInit
  <2>1. EnrShape BY EnrInitShape
  <2>2. enr.phase = "idle" /\ DOMAIN enr.ips = {} BY DEF EnrichInit
  <2> QED BY <2>1, <2>2 DEF OwnershipInv
<1>2. OwnershipInv /\ [StagesNext]_stageVars => OwnershipInv'
  <2> SUFFICES ASSUME OwnershipInv, [StagesNext]_stageVars PROVE OwnershipInv'
    OBVIOUS
  <2>1. CASE EnrichNext BY <2>1, OwnershipStep
  <2>2. CASE UNCHANGED enrVars
    <3>1. enr' = enr /\ enrWorld' = enrWorld BY <2>2 DEF enrVars
    <3> QED BY <3>1 DEF OwnershipInv, EnrShape
  <2> QED BY <2>1, <2>2 DEF StagesNext, stageVars
<1>3. OwnershipInv => OwnershipMatchesEvidence
  BY DEF OwnershipInv, OwnershipMatchesEvidence, Classified, Evident, OwnedBy, OwnedOnce, Owner
<1> QED BY <1>1, <1>2, <1>3, PTL DEF StagesSpec

-----------------------------------------------------------------------------
(* The answers of the domain enricher.                                     *)

AllRecords(world, d) == UNION {{k} \X world.records[d][k] : k \in LookupKinds}

\* An answer holds what there is, and all of it when it says so, but for the
\* registration data that was called unsupported.
GoodEntry(world, lost, d, entry) ==
    /\ DOMAIN entry = {"records", "rdap", "dnsDone", "rdapDone"}
    /\ entry.records \subseteq AllRecords(world, d)
    /\ entry.rdap \in BOOLEAN /\ entry.dnsDone \in BOOLEAN /\ entry.rdapDone \in BOOLEAN
    /\ entry.dnsDone => entry.records = AllRecords(world, d)
    /\ entry.rdapDone /\ d \in world.rdap => entry.rdap \/ d \in lost

Wanted(domains, d) == d \in Registrable /\ ~domains[d].rdap

GoodResult(world, lost, d, result, wantRDAP) ==
    /\ GoodEntry(world, lost, d, result.entry)
    /\ result.cached = FALSE
    /\ ~result.retryable => Done(result.entry, wantRDAP)

GoodDomain(world, d, asset) ==
    /\ DOMAIN asset = {"founder", "enums", "records", "rdap", "state"}
    /\ asset.enums # {}
    /\ asset.records \subseteq AllRecords(world, d)
    /\ asset.rdap \in BOOLEAN

\* An emitted address is an asset its enumeration contributes to.
LinkedIPs(emitted, ips) ==
    \A p \in emitted : p[2] \in DOMAIN ips /\ p[1] \in ips[p[2]].enums

\* What CompletedIsComplete asks of one domain.
Complete(world, lost, d, asset, ips) ==
    asset.state \in {"completed", "cached"} =>
        /\ AllRecords(world, d) \subseteq asset.records
        /\ d \in Registrable \cap world.rdap => asset.rdap \/ d \in lost
        /\ \A i \in IPsOf(asset.records) :
              i \in DOMAIN ips /\ asset.enums \subseteq ips[i].enums

CompleteInv ==
    /\ EnrShape
    /\ \A d \in DOMAIN enr.domains : GoodDomain(enrWorld, d, enr.domains[d])
    /\ \A d \in DOMAIN enr.cache : GoodEntry(enrWorld, enr.unsupported, d, enr.cache[d])
    /\ \A i \in DOMAIN enr.ips : "enums" \in DOMAIN enr.ips[i]
    /\ LinkedIPs(enr.emitted, enr.ips)
    /\ enr.phase = "lookup" =>
          /\ \A d \in DOMAIN enr.results :
                GoodResult(enrWorld, enr.unsupported, d, enr.results[d], Wanted(enr.domains, d))
          /\ \A d \in DOMAIN enr.domains \ (enr.jobs \cup enr.busy \cup DOMAIN enr.results) :
                d \in DOMAIN enr.cache /\ Done(enr.cache[d], Wanted(enr.domains, d))
    /\ enr.phase \in {"ip", "judge"} =>
          \A d \in DOMAIN enr.domains : Complete(enrWorld, enr.unsupported, d, enr.domains[d], enr.ips)

\* What there is to be had of a world may be called unsupported once more.
LEMMA LossGrows ==
    ASSUME NEW world, NEW lost, NEW more, lost \subseteq more, NEW d
    PROVE  /\ \A entry : GoodEntry(world, lost, d, entry) => GoodEntry(world, more, d, entry)
           /\ \A result, wantRDAP : GoodResult(world, lost, d, result, wantRDAP)
                                       => GoodResult(world, more, d, result, wantRDAP)
<1>1. ASSUME NEW entry, GoodEntry(world, lost, d, entry) PROVE GoodEntry(world, more, d, entry)
  BY <1>1 DEF GoodEntry
<1>2. ASSUME NEW result, NEW wantRDAP, GoodResult(world, lost, d, result, wantRDAP)
      PROVE  GoodResult(world, more, d, result, wantRDAP)
  BY <1>1, <1>2 DEF GoodResult
<1> QED BY <1>1, <1>2

\* What a worker makes of the registration data it asks for.
LEMMA RDAPMerged ==
    ASSUME NEW world, NEW lost, NEW d, NEW entry, GoodEntry(world, lost, d, entry), NEW answer,
           d \in world.rdap /\ answer = "unsupported" => d \in lost
    PROVE  LET full == [entry EXCEPT !.rdap = @ \/ answer = "data",
                                     !.rdapDone = @ \/ answer \in {"data", "unsupported"}]
           IN  /\ GoodEntry(world, lost, d, full) /\ full.dnsDone = entry.dnsDone
               /\ full.rdapDone <=> entry.rdapDone \/ answer \in {"data", "unsupported"}
<1> DEFINE known == entry.rdap \/ answer = "data"
           done == entry.rdapDone \/ answer \in {"data", "unsupported"}
           full == [entry EXCEPT !.rdap = known, !.rdapDone = done]
<1>1. known \in BOOLEAN /\ done \in BOOLEAN OBVIOUS
<1>2. /\ known <=> entry.rdap \/ answer = "data"
      /\ done <=> entry.rdapDone \/ answer \in {"data", "unsupported"}
  OBVIOUS
<1>3. [entry EXCEPT !.rdap = @ \/ answer = "data",
                    !.rdapDone = @ \/ answer \in {"data", "unsupported"}] = full
  OBVIOUS
<1> HIDE DEF known, done
<1>4. /\ DOMAIN full = {"records", "rdap", "dnsDone", "rdapDone"}
      /\ full.records = entry.records /\ full.dnsDone = entry.dnsDone
      /\ full.rdap = known /\ full.rdapDone = done
  BY DEF GoodEntry
<1> HIDE DEF full
<1>5. /\ full.rdap \in BOOLEAN /\ (full.rdap <=> known)
      /\ full.rdapDone \in BOOLEAN /\ (full.rdapDone <=> done)
  BY <1>1, <1>4, Zenon
<1>6. full.dnsDone \in BOOLEAN /\ (full.dnsDone => entry.records = AllRecords(world, d))
  BY <1>4 DEF GoodEntry
<1>7. full.rdapDone /\ d \in world.rdap => full.rdap \/ d \in lost
  BY <1>2, <1>5 DEF GoodEntry
<1>8. GoodEntry(world, lost, d, full)
  BY <1>4, <1>5, <1>6, <1>7 DEF GoodEntry
<1> QED BY <1>2, <1>3, <1>4, <1>5, <1>8

\* What a worker sends: the answer is the old one and what it has looked up.
LEMMA WorkerAnswers ==
    ASSUME NEW d, NEW failed \in SUBSET LookupKinds, NEW answer \in RDAPAnswers(d), NEW lost,
           answer = "unsupported" => d \in lost, GoodEntry(enrWorld, lost, d, Entry(d))
    PROVE  GoodResult(enrWorld, lost, d, enrichDomain(d, failed, answer),
                      Wanted(enr.domains, d))
<1> DEFINE old == Entry(d)
           entry == IF old.dnsDone THEN old
                  ELSE [old EXCEPT
                     !.records = @ \cup UNION {{k} \X enrWorld.records[d][k] : k \in LookupKinds \ failed},
                     !.dnsDone = DNSDone(failed)]
           full == [entry EXCEPT !.rdap = @ \/ answer = "data",
                                 !.rdapDone = @ \/ answer \in {"data", "unsupported"}]
           result == enrichDomain(d, failed, answer)
<1>1. /\ result.entry = full /\ result.cached = FALSE
      /\ result.retryable <=> (~old.dnsDone /\ failed # {}) \/ answer = "fails"
  BY DEF enrichDomain
<1>2. GoodEntry(enrWorld, lost, d, old) OBVIOUS
<1>3. NeedsRDAP(d) /\ ~old.rdapDone => answer \in {"unsupported", "fails", "data"}
  BY DEF RDAPAnswers
<1> HIDE DEF old
<1>4. /\ GoodEntry(enrWorld, lost, d, entry)
      /\ entry.rdapDone = old.rdapDone
      /\ old.dnsDone \/ failed = {} => entry.dnsDone
  <2>1. CASE old.dnsDone BY <1>2, <2>1
  <2>2. CASE ~old.dnsDone
    <3> DEFINE looked == UNION {{k} \X enrWorld.records[d][k] : k \in LookupKinds \ failed}
    <3>1. /\ looked \subseteq AllRecords(enrWorld, d)
          /\ failed = {} => looked = AllRecords(enrWorld, d)
      BY DEF AllRecords
    <3>2. entry = [old EXCEPT !.records = @ \cup looked, !.dnsDone = DNSDone(failed)]
      BY <2>2
    <3> HIDE DEF looked, entry
    <3>3. /\ DOMAIN entry = {"records", "rdap", "dnsDone", "rdapDone"}
          /\ entry.records = old.records \cup looked /\ entry.dnsDone = DNSDone(failed)
          /\ entry.rdap = old.rdap /\ entry.rdapDone = old.rdapDone
      BY <1>2, <3>2 DEF GoodEntry
    <3>4. DNSDone(failed) \in BOOLEAN /\ (DNSDone(failed) <=> failed = {}) BY DEF DNSDone
    <3>5. entry.dnsDone \in BOOLEAN /\ (entry.dnsDone <=> failed = {}) BY <3>3, <3>4
    <3> QED BY <1>2, <2>2, <3>1, <3>3, <3>5 DEF GoodEntry
  <2> QED BY <2>1, <2>2
<1> HIDE DEF entry
<1>5. /\ GoodEntry(enrWorld, lost, d, full) /\ full.dnsDone = entry.dnsDone
      /\ full.rdapDone <=> entry.rdapDone \/ answer \in {"data", "unsupported"}
  BY <1>4, RDAPMerged
<1>6. Wanted(enr.domains, d) <=> NeedsRDAP(d) BY DEF Wanted, NeedsRDAP
<1> HIDE DEF full, result
<1>7. ~result.retryable => Done(full, Wanted(enr.domains, d))
  BY <1>1, <1>3, <1>4, <1>5, <1>6 DEF Done
<1>8. GoodResult(enrWorld, lost, d, result, Wanted(enr.domains, d))
  BY <1>1, <1>5, <1>7 DEF GoodResult
<1> QED BY <1>8 DEF result

\* Contributions are only added, and every one that is reported arrives.
LEMMA ContributeLinks ==
    ASSUME NEW ips, NEW found, NEW first, \A i \in DOMAIN ips : "enums" \in DOMAIN ips[i]
    PROVE  LET c == Contribute(ips, found, NewIPAsset, first)
           IN  /\ \A i \in DOMAIN c : "enums" \in DOMAIN c[i]
               /\ \A i \in DOMAIN ips : i \in DOMAIN c /\ ips[i].enums \subseteq c[i].enums
               /\ \A f \in found : f[1] \in DOMAIN c /\ f[2] \in c[f[1]].enums
<1> DEFINE c == Contribute(ips, found, NewIPAsset, first)
           New(i) == {f[2] : f \in {g \in found : g[1] = i}}
<1>1. DOMAIN c = DOMAIN ips \cup {f[1] : f \in found} BY ContributeDomain
<1>2. {"enums", "founder"} \subseteq DOMAIN NewIPAsset BY DEF NewIPAsset
<1>3. ASSUME NEW i \in DOMAIN ips
      PROVE  "enums" \in DOMAIN c[i] /\ c[i].enums = ips[i].enums \cup New(i)
  BY ContributeKeeps
<1>4. ASSUME NEW i \in DOMAIN c \ DOMAIN ips
      PROVE  "enums" \in DOMAIN c[i] /\ c[i].enums = NewIPAsset.enums \cup New(i)
  <2>1. i \in {f[1] : f \in found} \ DOMAIN ips BY <1>1
  <2>2. /\ DOMAIN c[i] = DOMAIN NewIPAsset /\ c[i].enums = NewIPAsset.enums \cup New(i)
    BY <1>2, <2>1, ContributeNew
  <2> QED BY <1>2, <2>2
<1> HIDE DEF c
<1>5. \A f \in found : f[2] \in New(f[1]) OBVIOUS
<1> HIDE DEF New
<1>6. \A f \in found : f[1] \in DOMAIN c /\ f[2] \in c[f[1]].enums
  BY <1>1, <1>3, <1>4, <1>5
<1> QED BY <1>1, <1>3, <1>4, <1>6 DEF c

\* The domains of a wave are its old ones and those the collectors found.
LEMMA ContributeGood ==
    ASSUME NEW world, NEW domains, NEW found, NEW first,
           \A d \in DOMAIN domains : GoodDomain(world, d, domains[d])
    PROVE  \A d \in DOMAIN Contribute(domains, found, NoDomainAsset, first) :
              GoodDomain(world, d, Contribute(domains, found, NoDomainAsset, first)[d])
<1> DEFINE c == Contribute(domains, found, NoDomainAsset, first)
<1>1. DOMAIN c = DOMAIN domains \cup {f[1] : f \in found} BY ContributeDomain
<1>2. ASSUME NEW d \in DOMAIN domains PROVE GoodDomain(world, d, c[d])
  <2>1. GoodDomain(world, d, domains[d]) OBVIOUS
  <2>2. "enums" \in DOMAIN domains[d] BY <2>1 DEF GoodDomain
  <2>3. DOMAIN c[d] = DOMAIN domains[d] /\ domains[d].enums \subseteq c[d].enums
        /\ \A x \in DOMAIN c[d] \ {"enums"} : c[d][x] = domains[d][x]
    BY <2>2, ContributeKeeps
  <2> HIDE DEF c
  <2>4. c[d].records = domains[d].records /\ c[d].rdap = domains[d].rdap
    BY <2>1, <2>3 DEF GoodDomain
  <2> QED BY <2>1, <2>3, <2>4 DEF GoodDomain
<1>3. ASSUME NEW d \in DOMAIN c \ DOMAIN domains PROVE GoodDomain(world, d, c[d])
  <2>1. d \in {f[1] : f \in found} \ DOMAIN domains BY <1>1
  <2>2. {"enums", "founder"} \subseteq DOMAIN NoDomainAsset BY DEF NoDomainAsset
  <2>3. DOMAIN c[d] = DOMAIN NoDomainAsset
        /\ c[d].enums = NoDomainAsset.enums \cup {f[2] : f \in {g \in found : g[1] = d}}
        /\ \A x \in DOMAIN c[d] \ {"enums", "founder"} : c[d][x] = NoDomainAsset[x]
    BY <2>1, <2>2, ContributeNew
  <2> HIDE DEF c
  <2>4. DOMAIN c[d] = {"founder", "enums", "records", "rdap", "state"}
        /\ c[d].records = {} /\ c[d].rdap = FALSE
    BY <2>3 DEF NoDomainAsset
  <2>5. c[d].enums # {} BY <2>1, <2>3
  <2> QED BY <2>4, <2>5 DEF GoodDomain
<1> QED BY <1>1, <1>2, <1>3

\* A wave starts.
LEMMA EnrichStartKeeps ==
    ASSUME CompleteInv, EnrichStart
    PROVE  CompleteInv'
<1> DEFINE Domains(first) == Contribute(enr.domains, EnrichInput[enr.wave], NoDomainAsset, first)
           IPs(firstIP) == Contribute(enr.ips, EnrichIPInput[enr.wave], NewIPAsset, firstIP)
<1>0. EnrShape /\ EnrShape'
  <2>1. EnrichNext BY DEF EnrichNext
  <2> QED BY <2>1, EnrStepShape DEF CompleteInv
<1>1. PICK first, firstIP :
         /\ enr'.domains = Domains(first) /\ enr'.ips = IPs(firstIP) /\ enr'.phase = "lookup"
         /\ enr'.cache = enr.cache /\ DOMAIN enr'.results = {}
         /\ enr'.unsupported = enr.unsupported
         /\ enr'.emitted = enr.emitted \cup Links(IPs(firstIP))
         /\ enr'.jobs = {d \in DOMAIN Domains(first) :
                           ~Done(Entry(d), d \in Registrable /\ ~Domains(first)[d].rdap)}
  BY <1>0 DEF EnrichStart, EnrShape, EnrFields
<1> DEFINE domains == Domains(first)
           ips == IPs(firstIP)
           sent == Links(ips)
<1>2. /\ \A d \in DOMAIN enr.domains : GoodDomain(enrWorld', d, enr.domains[d])
      /\ \A d \in DOMAIN enr.cache : GoodEntry(enrWorld', enr.unsupported, d, enr.cache[d])
  <2>1. CASE enr.wave = 1 BY <1>0, <2>1 DEF EnrichStart, EnrShape
  <2>2. CASE enrWorld' = enrWorld BY <2>2 DEF CompleteInv
  <2> QED BY <2>1, <2>2 DEF EnrichStart
<1>3. \A d \in DOMAIN domains : GoodDomain(enrWorld', d, domains[d])
  BY <1>2, ContributeGood
<1>4. /\ \A i \in DOMAIN ips : "enums" \in DOMAIN ips[i]
      /\ LinkedIPs(enr.emitted, ips)
  <2>1. \A i \in DOMAIN enr.ips : "enums" \in DOMAIN enr.ips[i] BY DEF CompleteInv
  <2>2. /\ \A i \in DOMAIN ips : "enums" \in DOMAIN ips[i]
        /\ \A i \in DOMAIN enr.ips : i \in DOMAIN ips /\ enr.ips[i].enums \subseteq ips[i].enums
    BY <2>1, ContributeLinks
  <2> HIDE DEF ips
  <2> QED BY <2>2 DEF CompleteInv, LinkedIPs
<1> HIDE DEF domains, ips
<1>5. LinkedIPs(enr.emitted \cup sent, ips) BY <1>4 DEF LinkedIPs, Links
<1>6. ASSUME NEW d \in DOMAIN domains \ enr'.jobs
      PROVE  d \in DOMAIN enr.cache /\ Done(enr.cache[d], Wanted(domains, d))
  <2>1. Done(Entry(d), Wanted(domains, d)) BY <1>1, <1>6 DEF Wanted, domains
  <2>2. d \in DOMAIN enr.cache BY <2>1 DEF Done, Entry, NoEntry
  <2> QED BY <2>1, <2>2 DEF Entry
<1>7. /\ enr'.domains = domains /\ enr'.ips = ips /\ enr'.emitted = enr.emitted \cup sent
  BY <1>1 DEF domains, ips
<1> HIDE DEF sent, Domains, IPs
<1> QED BY <1>0, <1>1, <1>2, <1>3, <1>4, <1>5, <1>6, <1>7 DEF CompleteInv

\* A worker takes an identifier, or ends its lookups.
LEMMA EnrichWorkersKeep ==
    ASSUME CompleteInv, NEW d, NEW failed \in SUBSET LookupKinds, NEW answer,
           EnrichTakeJob(d) \/ (answer \in RDAPAnswers(d) /\ EnrichLookup(d, failed, answer)),
           EnrShape'
    PROVE  CompleteInv'
<1> DEFINE lost == enr'.unsupported
<1>0. EnrShape BY DEF CompleteInv
<1>1. /\ enrWorld' = enrWorld /\ enr.phase = "lookup" /\ enr'.phase = "lookup"
      /\ enr'.domains = enr.domains /\ enr'.cache = enr.cache /\ enr'.ips = enr.ips
      /\ enr'.emitted = enr.emitted /\ enr.unsupported \subseteq lost
      /\ enr.jobs \cup enr.busy \cup DOMAIN enr.results
           \subseteq enr'.jobs \cup enr'.busy \cup DOMAIN enr'.results
  <2>1. CASE EnrichTakeJob(d)
    <3>1. /\ enr'.jobs = enr.jobs \ {d} /\ enr'.busy = enr.busy \cup {d}
          /\ enr'.results = enr.results
      BY <1>0, <2>1 DEF EnrichTakeJob, EnrShape, EnrFields
    <3>2. /\ enrWorld' = enrWorld /\ enr.phase = "lookup" /\ enr'.phase = "lookup"
          /\ enr'.domains = enr.domains /\ enr'.cache = enr.cache /\ enr'.ips = enr.ips
          /\ enr'.emitted = enr.emitted /\ enr'.unsupported = enr.unsupported
      BY <1>0, <2>1 DEF EnrichTakeJob, EnrShape, EnrFields
    <3> QED BY <3>1, <3>2
  <2>2. CASE EnrichLookup(d, failed, answer)
    <3>1. /\ enr'.jobs = enr.jobs /\ enr'.busy = enr.busy \ {d}
          /\ DOMAIN enr'.results = DOMAIN enr.results \cup {d}
      BY <1>0, <2>2 DEF EnrichLookup, EnrShape, EnrFields
    <3>2. /\ enrWorld' = enrWorld /\ enr.phase = "lookup" /\ enr'.phase = "lookup"
          /\ enr'.domains = enr.domains /\ enr'.cache = enr.cache /\ enr'.ips = enr.ips
          /\ enr'.emitted = enr.emitted /\ enr.unsupported \subseteq enr'.unsupported
      BY <1>0, <2>2 DEF EnrichLookup, EnrShape, EnrFields
    <3> QED BY <3>1, <3>2
  <2> QED BY <2>1, <2>2
<1>2. ASSUME NEW e \in DOMAIN enr'.results
      PROVE  GoodResult(enrWorld, lost, e, enr'.results[e], Wanted(enr.domains, e))
  <2>1. CASE e \in DOMAIN enr.results /\ enr'.results[e] = enr.results[e]
    <3>1. GoodResult(enrWorld, enr.unsupported, e, enr.results[e], Wanted(enr.domains, e))
      BY <1>1, <2>1 DEF CompleteInv
    <3> HIDE DEF lost
    <3> QED BY <1>1, <2>1, <3>1, LossGrows
  <2>2. ASSUME e = d, answer \in RDAPAnswers(d), EnrichLookup(d, failed, answer),
               enr'.results[e] = enrichDomain(d, failed, answer)
        PROVE  GoodResult(enrWorld, lost, e, enr'.results[e], Wanted(enr.domains, e))
    <3>1. GoodEntry(enrWorld, enr.unsupported, d, NoEntry)
      BY DEF GoodEntry, NoEntry
    <3>2. GoodEntry(enrWorld, enr.unsupported, d, Entry(d))
      BY <3>1 DEF CompleteInv, Entry
    <3>3. answer = "unsupported" => d \in lost
      BY <1>0, <2>2 DEF EnrichLookup, EnrShape, EnrFields
    <3> HIDE DEF lost
    <3>4. GoodEntry(enrWorld, lost, d, Entry(d)) BY <1>1, <3>2, LossGrows
    <3> QED BY <2>2, <3>3, <3>4, WorkerAnswers
  <2>3. CASE EnrichTakeJob(d)
    <3>1. enr'.results = enr.results BY <1>0, <2>3 DEF EnrichTakeJob, EnrShape, EnrFields
    <3> QED BY <1>2, <2>1, <3>1
  <2>4. CASE answer \in RDAPAnswers(d) /\ EnrichLookup(d, failed, answer)
    <3>1. enr'.results = [x \in DOMAIN enr.results \cup {d} |->
                             IF x = d THEN enrichDomain(d, failed, answer) ELSE enr.results[x]]
      BY <1>0, <2>4 DEF EnrichLookup, EnrShape, EnrFields
    <3>2. CASE e = d
      <4>1. enr'.results[e] = enrichDomain(d, failed, answer) BY <3>1, <3>2
      <4> QED BY <2>2, <2>4, <3>2, <4>1
    <3>3. CASE e # d
      <4>1. e \in DOMAIN enr.results /\ enr'.results[e] = enr.results[e]
        BY <1>2, <3>1, <3>3
      <4> QED BY <2>1, <4>1
    <3> QED BY <3>2, <3>3
  <2> QED BY <2>3, <2>4
<1>3. \A e \in DOMAIN enr.cache : GoodEntry(enrWorld, lost, e, enr.cache[e])
  <2>1. \A e \in DOMAIN enr.cache : GoodEntry(enrWorld, enr.unsupported, e, enr.cache[e])
    BY DEF CompleteInv
  <2> HIDE DEF lost
  <2> QED BY <1>1, <2>1, LossGrows
<1> QED BY <1>1, <1>2, <1>3 DEF CompleteInv

\* At the end of the lookups every domain has a result, of a worker or of an
\* earlier wave.
LEMMA ResultIsGood ==
    ASSUME CompleteInv, EnrichMerge, NEW d \in DOMAIN enr.domains
    PROVE  /\ GoodEntry(enrWorld, enr.unsupported, d, Result(d).entry)
           /\ Result(d).cached \/ ~Result(d).retryable =>
                 Done(Result(d).entry, Wanted(enr.domains, d))
<1>1. enr.phase = "lookup" /\ enr.jobs = {} /\ enr.busy = {} BY DEF EnrichMerge
<1>2. CASE d \in DOMAIN enr.results
  <2>1. GoodResult(enrWorld, enr.unsupported, d, enr.results[d], Wanted(enr.domains, d))
    BY <1>1, <1>2 DEF CompleteInv
  <2>2. Result(d) = enr.results[d] BY <1>2 DEF Result
  <2> QED BY <2>1, <2>2 DEF GoodResult
<1>3. CASE d \notin DOMAIN enr.results
  <2>1. d \in DOMAIN enr.cache /\ Done(enr.cache[d], Wanted(enr.domains, d))
    BY <1>1, <1>3 DEF CompleteInv
  <2>2. Result(d).entry = enr.cache[d] BY <1>3 DEF Result
  <2> QED BY <2>1, <2>2 DEF CompleteInv
<1> QED BY <1>2, <1>3

\* What merging a result makes of a domain.
LEMMA MergeIsRight ==
    ASSUME CompleteInv, EnrichMerge, NEW d \in DOMAIN enr.domains
    PROVE  LET m == MergeResult(enr.domains[d], d)
           IN  /\ GoodDomain(enrWorld, d, m) /\ m.enums = enr.domains[d].enums
               /\ m.state \in {"completed", "cached"} =>
                     /\ m.records = AllRecords(enrWorld, d)
                     /\ Result(d).entry.records = AllRecords(enrWorld, d)
                     /\ d \in Registrable \cap enrWorld.rdap => m.rdap \/ d \in enr.unsupported
<1> DEFINE asset == enr.domains[d]
           entry == Result(d).entry
           m == MergeResult(asset, d)
<1>1. GoodDomain(enrWorld, d, asset) BY DEF CompleteInv
<1>2. GoodEntry(enrWorld, enr.unsupported, d, entry) BY ResultIsGood
<1> HIDE DEF asset
<1>3. /\ DOMAIN m = {"founder", "enums", "records", "rdap", "state"}
      /\ m.enums = asset.enums /\ m.records = asset.records \cup entry.records
      /\ m.state = IF Result(d).cached THEN "cached"
                   ELSE IF Result(d).retryable THEN "retryable" ELSE "completed"
  BY <1>1 DEF MergeResult, GoodDomain
<1>4. m.rdap \in BOOLEAN /\ (m.rdap <=> asset.rdap \/ (d \in Registrable /\ entry.rdap))
  <2> DEFINE known == asset.rdap \/ (d \in Registrable /\ entry.rdap)
  <2>1. known \in BOOLEAN OBVIOUS
  <2>2. m.rdap = known BY <1>1 DEF MergeResult, GoodDomain
  <2> HIDE DEF known, m
  <2>3. m.rdap \in BOOLEAN /\ (m.rdap <=> known) BY <2>1, <2>2, Zenon
  <2> QED BY <2>3 DEF known
<1>5. m.state \in {"completed", "cached"} => Done(entry, Wanted(enr.domains, d))
  BY <1>3, ResultIsGood
<1>6. Wanted(enr.domains, d) <=> d \in Registrable /\ ~asset.rdap BY DEF Wanted, asset
<1> HIDE DEF m, entry
<1>7. GoodDomain(enrWorld, d, m) BY <1>1, <1>2, <1>3, <1>4 DEF GoodDomain, GoodEntry
<1>8. ASSUME m.state \in {"completed", "cached"}
      PROVE  /\ m.records = AllRecords(enrWorld, d) /\ entry.records = AllRecords(enrWorld, d)
             /\ d \in Registrable \cap enrWorld.rdap => m.rdap \/ d \in enr.unsupported
  <2>1. entry.dnsDone /\ (d \in Registrable /\ ~asset.rdap => entry.rdapDone)
    BY <1>5, <1>6, <1>8 DEF Done
  <2>2. entry.records = AllRecords(enrWorld, d) BY <1>2, <2>1 DEF GoodEntry
  <2>3. m.records = AllRecords(enrWorld, d) BY <1>1, <1>3, <2>2 DEF GoodDomain
  <2>4. d \in Registrable \cap enrWorld.rdap => m.rdap \/ d \in enr.unsupported
    BY <1>2, <1>4, <2>1 DEF GoodEntry
  <2> QED BY <2>2, <2>3, <2>4
<1> QED BY <1>3, <1>7, <1>8 DEF m, entry, asset

\* The results of a wave are merged.
LEMMA EnrichMergeKeeps ==
    ASSUME CompleteInv, EnrichMerge, EnrShape'
    PROVE  CompleteInv'
<1> DEFINE fresh == FreshLinks
           news == FreshFound
<1>0. EnrShape BY DEF CompleteInv
<1>1. /\ enr'.phase = "ip" /\ enrWorld' = enrWorld /\ enr'.unsupported = enr.unsupported
      /\ enr'.domains = [d \in DOMAIN enr.domains |-> MergeResult(enr.domains[d], d)]
      /\ enr'.cache = [d \in DOMAIN enr.cache \cup DOMAIN enr.results |-> Result(d).entry]
  BY <1>0, MergeSteps DEF EnrShape
<1>2. PICK first : /\ enr'.emitted = enr.emitted \cup fresh
                   /\ enr'.ips = Contribute(enr.ips, news, NewIPAsset, first)
  BY <1>0, MergeSteps DEF EnrShape
<1> DEFINE ips == Contribute(enr.ips, news, NewIPAsset, first)
<1>3. /\ \A i \in DOMAIN ips : "enums" \in DOMAIN ips[i]
      /\ \A i \in DOMAIN enr.ips : i \in DOMAIN ips /\ enr.ips[i].enums \subseteq ips[i].enums
      /\ \A f \in news : f[1] \in DOMAIN ips /\ f[2] \in ips[f[1]].enums
  <2>1. \A i \in DOMAIN enr.ips : "enums" \in DOMAIN enr.ips[i] BY DEF CompleteInv
  <2> HIDE DEF news
  <2> QED BY <2>1, ContributeLinks
<1>4. \A f \in fresh : f[2] \in DOMAIN ips /\ f[1] \in ips[f[2]].enums
  <2>1. \A f \in fresh : <<f[2], f[1]>> \in news BY DEF FreshFound
  <2> HIDE DEF news, ips, fresh
  <2> QED BY <1>3, <2>1
<1>5. LinkedIPs(enr'.emitted, enr'.ips)
  <2>1. LinkedIPs(enr.emitted, ips)
    <3> HIDE DEF ips
    <3> QED BY <1>3 DEF CompleteInv, LinkedIPs
  <2> HIDE DEF ips, fresh, news
  <2>2. LinkedIPs(enr.emitted \cup fresh, ips) BY <1>4, <2>1 DEF LinkedIPs
  <2> QED BY <1>2, <2>2 DEF ips
<1>6. ASSUME NEW d \in DOMAIN enr.domains, NEW e \in enr.domains[d].enums,
             NEW i \in IPsOf(Result(d).entry.records)
      PROVE  i \in DOMAIN enr'.ips /\ e \in enr'.ips[i].enums
  <2>1. <<e, i>> \in enr.domains[d].enums \X IPsOf(Result(d).entry.records) OBVIOUS
  <2> DEFINE all == UNION {enr.domains[c].enums \X IPsOf(Result(c).entry.records) :
                             c \in DOMAIN enr.domains}
  <2>2. <<e, i>> \in all BY <2>1, Zenon
  <2>3. FreshLinks = all \ enr.emitted BY DEF FreshLinks
  <2> HIDE DEF all
  <2>4. <<e, i>> \in enr'.emitted BY <1>2, <2>2, <2>3
  <2> QED BY <1>5, <2>4 DEF LinkedIPs
<1>7. \A i \in DOMAIN enr'.ips : "enums" \in DOMAIN enr'.ips[i] BY <1>2, <1>3
<1> HIDE DEF fresh, news, ips
<1>8. ASSUME NEW d \in DOMAIN enr.domains
      PROVE  /\ GoodDomain(enrWorld, d, enr'.domains[d])
             /\ Complete(enrWorld, enr.unsupported, d, enr'.domains[d], enr'.ips)
  <2> DEFINE m == MergeResult(enr.domains[d], d)
  <2>1. enr'.domains[d] = m BY <1>1
  <2>2. /\ GoodDomain(enrWorld, d, m) /\ m.enums = enr.domains[d].enums
        /\ m.state \in {"completed", "cached"} =>
              /\ m.records = AllRecords(enrWorld, d)
              /\ Result(d).entry.records = AllRecords(enrWorld, d)
              /\ d \in Registrable \cap enrWorld.rdap => m.rdap \/ d \in enr.unsupported
    BY MergeIsRight
  <2> HIDE DEF m
  <2>3. ASSUME m.state \in {"completed", "cached"}, NEW i \in IPsOf(m.records)
        PROVE  i \in DOMAIN enr'.ips /\ m.enums \subseteq enr'.ips[i].enums
    <3>1. i \in IPsOf(Result(d).entry.records) BY <2>2, <2>3
    <3>2. m.enums # {} BY <2>2 DEF GoodDomain
    <3>3. \A e \in m.enums : i \in DOMAIN enr'.ips /\ e \in enr'.ips[i].enums
      BY <1>6, <2>2, <3>1
    <3> QED BY <3>2, <3>3
  <2> QED BY <2>1, <2>2, <2>3 DEF Complete
<1>9. \A d \in DOMAIN enr'.cache : GoodEntry(enrWorld, enr.unsupported, d, enr'.cache[d])
  <2>1. enr.phase = "lookup" BY DEF EnrichMerge
  <2> QED BY <1>1, <2>1 DEF CompleteInv, GoodResult, Result
<1> QED BY <1>1, <1>5, <1>7, <1>8, <1>9 DEF CompleteInv

\* The IP enricher leaves the contributors of an address alone.
LEMMA IPKeepsContributors ==
    ASSUME EnrShape, \A i \in DOMAIN enr.ips : "enums" \in DOMAIN enr.ips[i],
           NEW i, NEW ptrFails, NEW asnFails, EnrichIP(i, ptrFails, asnFails)
    PROVE  /\ DOMAIN enr'.ips = DOMAIN enr.ips
           /\ \A j \in DOMAIN enr.ips : /\ "enums" \in DOMAIN enr'.ips[j]
                                        /\ enr'.ips[j].enums = enr.ips[j].enums
<1> DEFINE asset == enr.ips[i]
           looked == IF ~StillOpen(asset) THEN asset
                     ELSE [asset EXCEPT
                        !.ptr = IF ptrFails THEN @ ELSE enrWorld.ptr[i],
                        !.asn = IF asnFails THEN @ ELSE enrWorld.asn[i],
                        !.state = IF ptrFails \/ asnFails THEN "retryable" ELSE "completed"]
<1>1. enr'.ips = [enr.ips EXCEPT ![i] = classifyCanonicalIPAsset(i, looked)]
  BY DEF EnrichIP, EnrShape, EnrFields
<1>2. ASSUME "enums" \in DOMAIN asset
      PROVE  "enums" \in DOMAIN looked /\ looked.enums = asset.enums
  BY <1>2
<1>3. ASSUME NEW a, "enums" \in DOMAIN a
      PROVE  LET c == classifyCanonicalIPAsset(i, a)
             IN  "enums" \in DOMAIN c /\ c.enums = a.enums
  BY <1>3 DEF classifyCanonicalIPAsset
<1> HIDE DEF looked
<1> QED BY <1>1, <1>2, <1>3

\* Every step of the enrichers.
LEMMA CompleteStep ==
    ASSUME CompleteInv, EnrichNext
    PROVE  CompleteInv'
<1>0. EnrShape /\ EnrShape' BY EnrStepShape DEF CompleteInv
<1>1. CASE EnrichStart BY <1>1, EnrichStartKeeps
<1>2. CASE EnrichMerge BY <1>0, <1>2, EnrichMergeKeeps
<1>3. ASSUME NEW d, EnrichTakeJob(d) PROVE CompleteInv'
  <2>1. {} \in SUBSET LookupKinds OBVIOUS
  <2> QED BY <1>0, <1>3, <2>1, EnrichWorkersKeep
<1>4. ASSUME NEW d, NEW failed \in SUBSET LookupKinds, NEW answer \in RDAPAnswers(d),
             EnrichLookup(d, failed, answer)
      PROVE CompleteInv'
  BY <1>0, <1>4, EnrichWorkersKeep
<1>5. ASSUME NEW i, NEW ptrFails, NEW asnFails, EnrichIP(i, ptrFails, asnFails)
      PROVE  CompleteInv'
  <2>1. /\ DOMAIN enr'.ips = DOMAIN enr.ips
        /\ \A j \in DOMAIN enr.ips : /\ "enums" \in DOMAIN enr'.ips[j]
                                     /\ enr'.ips[j].enums = enr.ips[j].enums
    BY <1>0, <1>5, IPKeepsContributors DEF CompleteInv
  <2>2. /\ enrWorld' = enrWorld /\ enr.phase = "ip" /\ enr'.phase = "ip"
        /\ enr'.domains = enr.domains /\ enr'.cache = enr.cache /\ enr'.emitted = enr.emitted
        /\ enr'.unsupported = enr.unsupported
    BY <1>0, <1>5 DEF EnrichIP, EnrShape, EnrFields
  <2>3. LinkedIPs(enr'.emitted, enr'.ips)
    BY <2>1, <2>2 DEF CompleteInv, LinkedIPs
  <2>4. \A d \in DOMAIN enr.domains : Complete(enrWorld, enr.unsupported, d, enr.domains[d], enr'.ips)
    BY <2>1, <2>2 DEF CompleteInv, Complete
  <2> QED BY <1>0, <2>1, <2>2, <2>3, <2>4 DEF CompleteInv
<1>6. ASSUME enrWorld' = enrWorld, enr'.domains = enr.domains, enr'.cache = enr.cache,
             enr'.ips = enr.ips, enr'.emitted = enr.emitted, enr'.unsupported = enr.unsupported,
             \/ enr'.phase \in {"idle", "returned"}
             \/ enr.phase \in {"ip", "judge"} /\ enr'.phase = "judge"
      PROVE  CompleteInv'
  BY <1>0, <1>6 DEF CompleteInv
<1>7. CASE EnrichIPsDone BY <1>0, <1>6, <1>7 DEF EnrichIPsDone, EnrShape, EnrFields
<1>8. ASSUME NEW s, EnrichJudgeFails(s) PROVE CompleteInv'
  BY <1>0, <1>6, <1>8 DEF EnrichJudgeFails, EnrShape, EnrFields
<1>9. ASSUME NEW s, NEW reply, NEW accepted, EnrichJudged(s, reply, accepted) PROVE CompleteInv'
  BY <1>0, <1>6, <1>9 DEF EnrichJudged, EnrShape, EnrFields
<1>10. CASE EnrichWaveDone
  BY <1>0, <1>6, <1>10 DEF EnrichWaveDone, EnrShape, EnrFields
<1>11. CASE EnrichRestart
  <2>1. /\ enrWorld' = enrWorld /\ enr'.domains = Reingested(enr.domains)
        /\ enr'.ips = Reingested(enr.ips)
        /\ enr'.phase = "idle" /\ DOMAIN enr'.cache = {} /\ enr'.emitted = {}
    BY <1>0, <1>11 DEF EnrichRestart, EnrShape, EnrFields
  <2>2. ASSUME NEW d \in DOMAIN enr'.domains PROVE GoodDomain(enrWorld, d, enr'.domains[d])
    <3>1. d \in DOMAIN enr.domains BY <2>1 DEF Reingested
    <3>2. GoodDomain(enrWorld, d, enr.domains[d]) BY <3>1 DEF CompleteInv
    <3> DEFINE a == enr.domains[d]
               c == enr'.domains[d]
    <3>3. "enums" \in DOMAIN a BY <3>2 DEF GoodDomain
    <3>4. /\ DOMAIN c = DOMAIN a /\ c.enums = {a.founder}
          /\ \A x \in DOMAIN c \ {"enums"} : c[x] = a[x]
      BY <2>1, <3>1, <3>3, ReingestedFields
    <3> HIDE DEF a, c
    <3>5. GoodDomain(enrWorld, d, a) BY <3>2 DEF a
    <3>6. DOMAIN c = {"founder", "enums", "records", "rdap", "state"} BY <3>4, <3>5 DEF GoodDomain
    <3>7. c.records = a.records /\ c.rdap = a.rdap /\ c.enums # {} BY <3>4, <3>6
    <3> QED BY <3>5, <3>6, <3>7 DEF GoodDomain, c
  <2>3. ASSUME NEW i \in DOMAIN enr'.ips PROVE "enums" \in DOMAIN enr'.ips[i]
    <3>1. i \in DOMAIN enr.ips BY <2>1 DEF Reingested
    <3>2. "enums" \in DOMAIN enr.ips[i] BY <3>1 DEF CompleteInv
    <3> QED BY <2>1, <3>1, <3>2, ReingestedFields
  <2> QED BY <1>0, <2>1, <2>2, <2>3 DEF CompleteInv, LinkedIPs
<1> QED
  BY <1>1, <1>2, <1>3, <1>4, <1>5, <1>7, <1>8, <1>9, <1>10, <1>11 DEF EnrichNext

\* "completed" and "cached" mean what they say: whatever lookups failed in earlier
\* waves and wherever the run was resumed, such a domain has every record, has the
\* registration data there is unless the lookup since the last resume called it
\* unsupported, and each of its addresses is an asset that every enumeration of
\* the domain contributes to (DomainEnricher.Process, enrichDomain, claimEmittedIP).
THEOREM CompletedMeansComplete == StagesSpec => []CompletedIsComplete
<1>1. StagesInit => CompleteInv
  <2> SUFFICES ASSUME EnrichInit PROVE CompleteInv BY DEF StagesInit
  <2>1. EnrShape BY EnrInitShape
  <2>2. /\ enr.phase = "idle" /\ DOMAIN enr.ips = {} /\ DOMAIN enr.domains = {}
        /\ DOMAIN enr.cache = {} /\ enr.emitted = {}
    BY DEF EnrichInit
  <2> QED BY <2>1, <2>2 DEF CompleteInv, LinkedIPs
<1>2. CompleteInv /\ [StagesNext]_stageVars => CompleteInv'
  <2> SUFFICES ASSUME CompleteInv, [StagesNext]_stageVars PROVE CompleteInv'
    OBVIOUS
  <2>1. CASE EnrichNext BY <2>1, CompleteStep
  <2>2. CASE UNCHANGED enrVars
    BY <2>2 DEF enrVars, CompleteInv, EnrShape
  <2> QED BY <2>1, <2>2 DEF StagesNext, stageVars
<1>3. CompleteInv => CompletedIsComplete
  <2> SUFFICES ASSUME CompleteInv, enr.phase \in {"ip", "judge"}, NEW d \in DOMAIN enr.domains,
                      enr.domains[d].state \in {"completed", "cached"}
               PROVE  LET asset == enr.domains[d]
                      IN  /\ \A k \in LookupKinds : \A v \in enrWorld.records[d][k] :
                                <<k, v>> \in asset.records
                          /\ d \in Registrable \cap enrWorld.rdap => asset.rdap \/ d \in enr.unsupported
                          /\ \A i \in IPsOf(asset.records) :
                                i \in DOMAIN enr.ips /\ asset.enums \subseteq enr.ips[i].enums
    BY DEF CompletedIsComplete
  <2>1. Complete(enrWorld, enr.unsupported, d, enr.domains[d], enr.ips) BY DEF CompleteInv
  <2>2. \A k \in LookupKinds : \A v \in enrWorld.records[d][k] :
           <<k, v>> \in AllRecords(enrWorld, d)
    BY DEF AllRecords
  <2> QED BY <2>1, <2>2 DEF Complete
<1> QED BY <1>1, <1>2, <1>3, PTL DEF StagesSpec

-----------------------------------------------------------------------------
(* The DNS collector.                                                      *)

DNSFields == {"phase", "seeds", "seed", "todo", "seen", "baseline", "cands",
              "labels", "label", "rest", "assets", "relations"}

DNSShape ==
    /\ DOMAIN dns = DNSFields
    /\ DOMAIN dnsHist = {"wave", "faults", "probes", "judged", "sweeper"}
    /\ {"promoted", "sweptLabels", "judge", "known", "log", "assets", "relations"}
          \subseteq DOMAIN pctx
    /\ dns.phase \in {"idle", "seeds", "base", "exact", "labels", "probe", "returned"}
    /\ dns.seeds \subseteq SUBSET Root /\ dns.seed \subseteq Root
    /\ DOMAIN dns.seen = Root
    /\ dnsHist.faults \in Nat
    /\ DOMAIN dnsHist.probes = Root /\ DOMAIN dnsHist.sweeper = Label

\* An observation holds answers of the world, and all of them without a failure.
Genuine(r, o) ==
    /\ o.dns \subseteq dnsWorld.dns[r] /\ o.rdap \subseteq dnsWorld.rdap[r]
    /\ dnsHist.faults = 0 => o.dns = dnsWorld.dns[r] /\ o.rdap = dnsWorld.rdap[r]

\* Without a failure a live root has an observation.
Answered(r, o) == dnsHist.faults = 0 /\ live(dnsWorld.dns[r]) => o.seen

\* ... and a probe has one only if it has name servers of its own.
Probed(r, o) == dnsHist.faults = 0 /\ live(dnsWorld.dns[r]) /\ ~NSNotFound(r) => o.seen

SeedFacts(s) == UNION {Comparable(dnsWorld.dns[q]) \cup dnsWorld.rdap[q] : q \in s}
NamedBy(s) == {f[2] : f \in UNION {domainCandidates(dnsWorld.dns[q]) : q \in s}}

\* What is known of the seed at hand, and of its candidates.
ObservedInv ==
    dns.phase \in {"base", "exact", "labels", "probe"} =>
        /\ \A r \in Root : dns.seen[r].seen => Genuine(r, dns.seen[r])
        /\ \A r \in DOMAIN dns.cands :
              /\ r \notin dns.seed
              /\ DOMAIN dns.cands[r] = {"kinds", "variant", "obs"}
              /\ dns.cands[r].obs.seen => r \in Root /\ Genuine(r, dns.cands[r].obs)

BaselineInv ==
    dns.phase \in {"exact", "labels", "probe"} =>
        /\ dns.baseline \subseteq SeedFacts(dns.seed)
        /\ dnsHist.faults = 0 => dns.baseline = SeedFacts(dns.seed)
        /\ dnsHist.faults = 0 => NamedBy(dns.seed) \subseteq dns.seed \cup DOMAIN dns.cands

\* How far the pools are: what is not to be done is answered.
PoolInv ==
    /\ dns.phase = "base" =>
          /\ dns.todo \subseteq dns.seed /\ DOMAIN dns.cands = {}
          /\ \A r \in dns.seed \ dns.todo : dns.seen[r].seen
    /\ dns.phase = "exact" =>
          /\ dns.todo \subseteq DOMAIN dns.cands
          /\ \A r \in Root :
                /\ dns.seen[r].seen => r \in DOMAIN dns.cands
                /\ r \in DOMAIN dns.cands \ dns.todo => Answered(r, dns.seen[r])
    /\ dns.phase = "labels" => \A r \in Root : ~dns.seen[r].seen
    /\ dns.phase \in {"labels", "probe"} =>
          /\ dns.labels \subseteq Label
          /\ \A r \in DOMAIN dns.cands \cap Root : Answered(r, dns.cands[r].obs)

\* The sweep of a label: the roots it probes are neither the seed's nor candidates.
SweepInv ==
    dns.phase = "probe" =>
        \E l \in Label \ pctx.sweptLabels :
            /\ dns.label = {l} /\ dnsHist.sweeper[l] = dns.seed
            /\ dns.todo \cup dns.rest \subseteq Root
            /\ \A r \in Root :
                  /\ r \in dns.todo \cup dns.rest \/ dns.seen[r].seen =>
                        r \notin dns.seed \cup DOMAIN dns.cands
                  /\ dnsWorld.mode = "exhaustive" /\ r[1] = l /\ r \notin dns.seed =>
                        \/ r \in DOMAIN dns.cands \cup dns.todo \cup dns.rest
                        \/ Probed(r, dns.seen[r])

ProbedInv ==
    \A r \in Root :
        /\ dnsHist.probes[r] \in {0, 1}
        /\ dnsHist.probes[r] = 1 =>
              r[1] \in pctx.sweptLabels \cup (IF dns.phase = "probe" THEN dns.label ELSE {})

Related(l, s) ==
    {r \in Root \ s : /\ r[1] = l
                      /\ live(dnsWorld.dns[r])
                      /\ ~NSNotFound(r) \/ r \in NamedBy(s)
                      /\ Comparable(dnsWorld.dns[r]) \cap SeedFacts(s) # {}}

\* The related roots of a swept label were in a request, or will be in the seed's.
Accounted(l) ==
    LET s == dnsHist.sweeper[l]
    IN  dnsHist.faults = 0 /\ pctx.judge /\ dnsWorld.mode = "exhaustive" =>
            \/ Related(l, s) = {}
            \/ \E j \in dnsHist.judged : j.seed = s /\ Related(l, s) \subseteq j.roots
            \/ /\ dns.phase \in {"labels", "probe"}
               /\ s = dns.seed /\ Related(l, s) \subseteq JudgeCandidates

SweptInv == \A l \in pctx.sweptLabels : Accounted(l)

Corroborated(j, r) ==
    /\ r \in j.roots \ j.seed
    /\ live(dnsWorld.dns[r])
    /\ (Comparable(dnsWorld.dns[r]) \cup dnsWorld.rdap[r]) \cap SeedFacts(j.seed) # {}

PromotedInv ==
    \A r \in pctx.promoted : r \in Root /\ \E j \in dnsHist.judged : Corroborated(j, r)

DNSInv ==
    /\ DNSShape /\ ObservedInv /\ BaselineInv /\ PoolInv /\ SweepInv
    /\ ProbedInv /\ SweptInv /\ PromotedInv
    /\ dns.phase = "idle" => pctx.promoted = {} /\ pctx.sweptLabels = {}

\* The other stages do not use the collector.
DNSStageInv ==
    IF stage = "dns" THEN DNSInv
    ELSE dns.phase = "idle" /\ \A r \in Root : dnsHist.probes[r] \in {0, 1}

-----------------------------------------------------------------------------

\* More facts leave a root live and comparable.
LEMMA LiveGrows ==
    ASSUME NEW some, NEW facts, some \subseteq facts
    PROVE  (live(some) => live(facts)) /\ Comparable(some) \subseteq Comparable(facts)
BY DEF live, Comparable

\* A goroutine without a failed lookup.
LEMMA NoFailure ==
    ASSUME NEW failed \in SUBSET (LookupKind \cup {"rdap"})
    PROVE  Cardinality(failed) \in Nat /\ (Cardinality(failed) = 0 => failed = {})
<1>1. IsFiniteSet(LookupKind \cup {"rdap"})
  <2>1. LookupKind \cup {"rdap"} = {"ip", "mx", "ns"} \cup {"txt", "cname", "rdap"}
    BY DEF LookupKind
  <2>2. IsFiniteSet({"ip", "mx", "ns"}) /\ IsFiniteSet({"txt", "cname", "rdap"})
    <3>1. ASSUME NEW x, NEW y, NEW z PROVE IsFiniteSet({x, y, z})
      <4>1. {x, y, z} = ({x} \cup {y}) \cup {z} OBVIOUS
      <4>2. IsFiniteSet({x} \cup {y}) BY FS_Singleton, FS_Union
      <4>3. IsFiniteSet({z}) BY FS_Singleton
      <4>4. IsFiniteSet(({x} \cup {y}) \cup {z}) BY <4>2, <4>3, FS_Union
      <4> QED BY <4>1, <4>4
    <3> QED BY <3>1
  <2> QED BY <2>1, <2>2, FS_Union
<1>2. IsFiniteSet(failed) BY <1>1, FS_Subset
<1> QED BY <1>2, FS_CardinalityType, FS_EmptySet

\* Observed lays the observations of a pool over the candidates.
LEMMA ObservedFields ==
    ASSUME NEW cands, NEW variant \in BOOLEAN, DOMAIN dns.seen = Root
    PROVE  LET found == {r \in Root : dns.seen[r].seen}
               new == Observed(cands, variant)
           IN  /\ DOMAIN new = DOMAIN cands \cup found
               /\ \A r \in found : /\ DOMAIN new[r] = {"kinds", "variant", "obs"}
                                   /\ new[r].obs = dns.seen[r]
               /\ \A r \in DOMAIN cands \ found : new[r] = cands[r]
BY DEF Observed, ensureDNSPivotCandidate

\* Marking variants leaves the observations alone.
LEMMA MarkFields ==
    ASSUME NEW l, NEW s, NEW cands,
           \A r \in DOMAIN cands : DOMAIN cands[r] = {"kinds", "variant", "obs"}
    PROVE  LET new == markVariants(l, s, cands)
           IN  /\ DOMAIN new = DOMAIN cands
               /\ \A r \in DOMAIN cands : /\ DOMAIN new[r] = {"kinds", "variant", "obs"}
                                          /\ new[r].obs = cands[r].obs
<1> DEFINE probes == buildVariantProbeRoots(l, s, cands)
           full == dnsWorld.mode = "prioritized" /\ Cardinality(probes) = PrioritizedCap
           met == {r \in Alternatives(l, s) :
                      full => \E p \in probes : prioritizedVariantSuffixes(s, r[2], p[2])}
<1>1. markVariants(l, s, cands) =
         [r \in DOMAIN cands |->
            IF r \in met
            THEN [cands[r] EXCEPT !.variant = TRUE, !.kinds = @ \cup {"variant"}]
            ELSE cands[r]]
  BY DEF markVariants
<1> HIDE DEF met
<1> QED BY <1>1

\* The roots a sweep probes.
LEMMA ProbeRoots ==
    ASSUME NEW l \in Label, NEW s, NEW cands
    PROVE  LET probes == buildVariantProbeRoots(l, s, cands)
           IN  /\ probes \subseteq {r \in Root : r[1] = l} \ (s \cup DOMAIN cands)
               /\ dnsWorld.mode = "exhaustive" =>
                     probes = {r \in Root : r[1] = l} \ (s \cup DOMAIN cands)
<1>1. Alternatives(l, s) = {r \in Root : r[1] = l} \ s
  BY DEF Alternatives, Root
<1>2. \A n, roots : FirstOf(n, roots, s) \subseteq roots
  BY DEF FirstOf
<1> QED BY <1>1, <1>2 DEF buildVariantProbeRoots

\* A candidate goes to the judge whatever happens to the others.
LEMMA JudgedMembers ==
    \A r : r \in JudgeCandidates <=>
        /\ r \in DOMAIN dns.cands
        /\ dns.cands[r].obs.seen /\ live(dns.cands[r].obs.dns)
        /\ corroborated(dns.cands[r], dns.baseline)
BY DEF JudgeCandidates

-----------------------------------------------------------------------------

\* A swept label stays accounted for while its seed's candidates are kept, or go
\* to the judge.
LEMMA AccountedStays ==
    ASSUME NEW l, Accounted(l), UNCHANGED dnsWorld,
           dnsHist'.sweeper[l] = dnsHist.sweeper[l],
           dnsHist'.faults = 0 => dnsHist.faults = 0,
           dnsHist.judged \subseteq dnsHist'.judged, pctx'.judge = pctx.judge,
           dns.phase \in {"labels", "probe"} =>
              \/ /\ dns'.phase \in {"labels", "probe"} /\ dns'.seed = dns.seed
                 /\ JudgeCandidates \subseteq JudgeCandidates'
              \/ \E j \in dnsHist'.judged : j.seed = dns.seed /\ JudgeCandidates \subseteq j.roots
              \/ ~pctx.judge \/ JudgeCandidates = {}
    PROVE  Accounted(l)'
<1>1. PICK s : s = dnsHist.sweeper[l] OBVIOUS
<1>2. PICK roots : roots = JudgeCandidates OBVIOUS
<1>3. PICK roots2 : roots2 = JudgeCandidates' OBVIOUS
<1>4. Related(l, s)' = Related(l, s) BY DEF Related, SeedFacts, NamedBy, NSNotFound
<1>5. Accounted(l) <=>
        (dnsHist.faults = 0 /\ pctx.judge /\ dnsWorld.mode = "exhaustive" =>
            \/ Related(l, s) = {}
            \/ \E j \in dnsHist.judged : j.seed = s /\ Related(l, s) \subseteq j.roots
            \/ /\ dns.phase \in {"labels", "probe"}
               /\ s = dns.seed /\ Related(l, s) \subseteq roots)
  BY <1>1, <1>2 DEF Accounted
<1>6. Accounted(l)' <=>
        (dnsHist'.faults = 0 /\ pctx'.judge /\ dnsWorld'.mode = "exhaustive" =>
            \/ Related(l, s)' = {}
            \/ \E j \in dnsHist'.judged : j.seed = s /\ Related(l, s)' \subseteq j.roots
            \/ /\ dns'.phase \in {"labels", "probe"}
               /\ s = dns'.seed /\ Related(l, s)' \subseteq roots2)
  BY <1>1, <1>3 DEF Accounted
<1> QED BY <1>2, <1>3, <1>4, <1>5, <1>6

\* A call of Process.
LEMMA DNSProcessKeeps ==
    ASSUME DNSInv, DNSProcess
    PROVE  DNSInv'
<1>0. DNSShape /\ PromotedInv BY DEF DNSInv
<1>1. /\ dns' = [dns EXCEPT !.phase = "seeds", !.seeds = dns'.seeds]
      /\ dnsHist' = [dnsHist EXCEPT !.wave = @ + 1]
      /\ dns'.seeds \subseteq SUBSET Root
      /\ dns.phase \in {"idle", "returned"}
      /\ DOMAIN pctx' = DOMAIN pctx
      /\ \A x \in DOMAIN pctx \ {"promoted"} : pctx'[x] = pctx[x]
      /\ \/ dns.phase = "idle" /\ UNCHANGED pctx
         \/ dns.phase # "idle" /\ UNCHANGED dnsWorld /\ pctx'.promoted = {}
  <2>1. CASE dns.phase = "idle"
    <3>1. /\ dns' = [dns EXCEPT !.phase = "seeds", !.seeds = DNSFirstSeeds]
          /\ dnsHist' = [dnsHist EXCEPT !.wave = @ + 1] /\ UNCHANGED pctx
      BY <2>1 DEF DNSProcess
    <3>2. dns'.seeds = DNSFirstSeeds BY <1>0, <3>1 DEF DNSShape, DNSFields
    <3> QED BY <2>1, <3>1, <3>2, DNSAssumption
  <2>2. CASE dns.phase # "idle"
    <3>1. /\ dns.phase = "returned" /\ UNCHANGED dnsWorld
          /\ dns' = [dns EXCEPT !.phase = "seeds", !.seeds = {{r} : r \in pctx.promoted}]
          /\ pctx' = [pctx EXCEPT !.promoted = {}]
          /\ dnsHist' = [dnsHist EXCEPT !.wave = @ + 1]
      BY <2>2 DEF DNSProcess
    <3>2. \A r \in pctx.promoted : {r} \subseteq Root BY <1>0 DEF PromotedInv
    <3>3. dns'.seeds = {{r} : r \in pctx.promoted} BY <1>0, <3>1 DEF DNSShape, DNSFields
    <3>4. pctx'.promoted = {} BY <1>0, <3>1 DEF DNSShape
    <3> QED BY <1>0, <3>1, <3>2, <3>3, <3>4 DEF DNSShape, DNSFields
  <2> QED BY <2>1, <2>2
<1>2. /\ dns'.phase = "seeds" /\ DOMAIN dns' = DNSFields /\ dns'.seed = dns.seed
      /\ dns'.seen = dns.seen
      /\ dnsHist'.probes = dnsHist.probes /\ dnsHist'.faults = dnsHist.faults
      /\ dnsHist'.judged = dnsHist.judged /\ dnsHist'.sweeper = dnsHist.sweeper
      /\ DOMAIN dnsHist' = DOMAIN dnsHist /\ DOMAIN pctx' = DOMAIN pctx
      /\ pctx'.sweptLabels = pctx.sweptLabels /\ pctx'.judge = pctx.judge
  BY <1>0, <1>1 DEF DNSShape, DNSFields
<1>3. DNSShape' BY <1>0, <1>1, <1>2 DEF DNSShape
<1>4. ObservedInv' /\ BaselineInv' /\ PoolInv' /\ SweepInv'
  BY <1>2 DEF ObservedInv, BaselineInv, PoolInv, SweepInv
<1>5. ProbedInv' BY <1>1, <1>2 DEF DNSInv, ProbedInv
<1>6. CASE dns.phase = "idle" /\ UNCHANGED pctx
  <2>1. pctx'.sweptLabels = {} /\ pctx'.promoted = {} BY <1>6 DEF DNSInv
  <2> QED BY <1>2, <1>3, <1>4, <1>5, <2>1 DEF DNSInv, SweptInv, PromotedInv
<1>7. CASE UNCHANGED dnsWorld /\ pctx'.promoted = {} /\ dns.phase # "idle"
  <2>1. ASSUME NEW l \in pctx.sweptLabels PROVE Accounted(l)'
    BY <1>1, <1>2, <1>7, AccountedStays DEF DNSInv, SweptInv
  <2>2. SweptInv' BY <1>2, <2>1 DEF SweptInv
  <2> QED BY <1>2, <1>3, <1>4, <1>5, <1>7, <2>2 DEF DNSInv, PromotedInv
<1> QED BY <1>1, <1>6, <1>7

\* The next seed.
LEMMA DNSStartSeedKeeps ==
    ASSUME DNSInv, NEW s, DNSStartSeed(s)
    PROVE  DNSInv'
<1>0. DNSShape /\ dns.phase = "seeds" /\ s \in dns.seeds BY DEF DNSInv, DNSStartSeed
<1>1. /\ DOMAIN dns' = DNSFields
      /\ dns'.phase = "base" /\ dns'.seeds = dns.seeds \ {s} /\ dns'.seed = s
      /\ dns'.todo = s /\ dns'.seen = NothingSeen /\ DOMAIN dns'.cands = {}
      /\ UNCHANGED <<dnsWorld, pctx, dnsHist>>
  BY <1>0 DEF DNSStartSeed, DNSShape, DNSFields
<1>2. DNSShape' BY <1>0, <1>1 DEF DNSShape, NothingSeen
<1>3. ObservedInv' /\ BaselineInv' /\ PoolInv' /\ SweepInv'
  BY <1>1 DEF ObservedInv, BaselineInv, PoolInv, SweepInv, NothingSeen, NoObservation
<1>4. ProbedInv' BY <1>0, <1>1 DEF DNSInv, ProbedInv
<1>5. SweptInv'
  <2>1. ASSUME NEW l \in pctx.sweptLabels PROVE Accounted(l)'
    <3>1. Accounted(l) BY DEF DNSInv, SweptInv
    <3>2. \A t : Related(l, t)' = Related(l, t) BY <1>1 DEF Related, SeedFacts, NamedBy, NSNotFound
    <3> QED BY <1>0, <1>1, <3>1, <3>2 DEF Accounted
  <2> QED BY <1>1, <2>1 DEF SweptInv
<1>6. PromotedInv'
  BY <1>1 DEF DNSInv, PromotedInv, Corroborated, SeedFacts
<1> QED BY <1>1, <1>2, <1>3, <1>4, <1>5, <1>6 DEF DNSInv

SeenTrue(r) == dns.seen[r].seen => Genuine(r, dns.seen[r])
SeenLive(r) == Answered(r, dns.seen[r])

\* A lookup changes what is known of its root only.
LEMMA ObservedFacts ==
    ASSUME DNSInv, NEW r, NEW failed \in SUBSET (LookupKind \cup {"rdap"}),
           DNSObserved(r, failed)
    PROVE  /\ dns.phase \in {"base", "exact", "probe"} /\ r \in dns.todo
           /\ DOMAIN dns' = DNSFields /\ DOMAIN dns'.seen = Root
           /\ \A x \in DNSFields \ {"todo", "seen"} : dns'[x] = dns[x]
           /\ dns'.todo = dns.todo \ {r}
           /\ \A q \in Root \ {r} : dns'.seen[q] = dns.seen[q]
           /\ r \in Root => /\ SeenTrue(r)' /\ SeenLive(r)'
                            /\ dns.phase = "base" => dns'.seen[r].seen
           /\ dnsHist'.faults \in Nat /\ (dnsHist'.faults = 0 => dnsHist.faults = 0)
           /\ DOMAIN dnsHist' = DOMAIN dnsHist
           /\ \A x \in DOMAIN dnsHist \ {"faults"} : dnsHist'[x] = dnsHist[x]
           /\ UNCHANGED <<dnsWorld, pctx>>
<1> DEFINE answer == observeDomain(r, failed)
           kept == dns.phase = "base" \/ live(answer)
           rdap == IF kept /\ "rdap" \notin failed THEN dnsWorld.rdap[r] ELSE {}
           o == [dns |-> answer, rdap |-> rdap, seen |-> kept]
<1>0. DNSShape BY DEF DNSInv
<1>1. /\ dns.phase \in {"base", "exact", "probe"} /\ r \in dns.todo
      /\ dns' = [dns EXCEPT !.todo = @ \ {r}, !.seen[r] = o]
      /\ dnsHist' = [dnsHist EXCEPT !.faults = @ + Cardinality(failed)]
      /\ UNCHANGED <<dnsWorld, pctx>>
  BY DEF DNSObserved
<1>2. /\ answer \subseteq dnsWorld.dns[r]
      /\ failed = {} => answer = dnsWorld.dns[r]
  BY DEF observeDomain
<1>3. Cardinality(failed) \in Nat /\ (Cardinality(failed) = 0 => failed = {})
  BY NoFailure
<1>4. dnsHist'.faults = dnsHist.faults + Cardinality(failed)
  BY <1>0, <1>1 DEF DNSShape
<1>5. /\ dnsHist'.faults \in Nat
      /\ dnsHist'.faults = 0 => dnsHist.faults = 0 /\ failed = {}
  <2>1. dnsHist.faults \in Nat BY <1>0 DEF DNSShape
  <2> HIDE DEF answer, kept, rdap, o
  <2>2. Cardinality(failed) \in Nat /\ (dnsHist'.faults = 0 => Cardinality(failed) = 0)
    BY <1>3, <1>4, <2>1
  <2> QED BY <1>3, <1>4, <2>1, <2>2
<1>6. /\ o.rdap \subseteq dnsWorld.rdap[r]
      /\ failed = {} /\ o.seen => o.rdap = dnsWorld.rdap[r]
      /\ o.dns = answer
      /\ failed = {} /\ live(dnsWorld.dns[r]) => o.seen
      /\ dns.phase = "base" => o.seen
  BY <1>2
<1> HIDE DEF answer, kept, rdap, o
<1>7. r \in Root => dns'.seen[r] = o
  BY <1>0, <1>1 DEF DNSShape, DNSFields
<1>8. /\ DOMAIN dns' = DNSFields /\ DOMAIN dns'.seen = Root
      /\ \A x \in DNSFields \ {"todo", "seen"} : dns'[x] = dns[x]
      /\ dns'.todo = dns.todo \ {r}
      /\ \A q \in Root \ {r} : dns'.seen[q] = dns.seen[q]
  BY <1>0, <1>1 DEF DNSShape, DNSFields
<1>9. /\ DOMAIN dnsHist' = DOMAIN dnsHist
      /\ \A x \in DOMAIN dnsHist \ {"faults"} : dnsHist'[x] = dnsHist[x]
  BY <1>0, <1>1 DEF DNSShape
<1>10. r \in Root => SeenTrue(r)' BY <1>1, <1>2, <1>5, <1>6, <1>7 DEF Genuine, SeenTrue
<1>11. r \in Root => SeenLive(r)' BY <1>1, <1>5, <1>6, <1>7 DEF Answered, SeenLive
<1> QED BY <1>1, <1>5, <1>6, <1>7, <1>8, <1>9, <1>10, <1>11

\* Promotions keep their evidence.
LEMMA PromotedStays ==
    ASSUME PromotedInv, UNCHANGED dnsWorld, pctx'.promoted \subseteq pctx.promoted,
           dnsHist.judged \subseteq dnsHist'.judged
    PROVE  PromotedInv'
BY DEF PromotedInv, Corroborated, SeedFacts

\* The candidates for the judge stay when the candidates and the baseline do.
LEMMA JudgeCandidatesStay ==
    ASSUME dns'.cands = dns.cands, dns'.baseline = dns.baseline
    PROVE  JudgeCandidates' = JudgeCandidates
BY DEF JudgeCandidates, corroborated

\* A lookup of a pool ends.
LEMMA DNSObservedKeeps ==
    ASSUME DNSInv, NEW r, NEW failed \in SUBSET (LookupKind \cup {"rdap"}),
           DNSObserved(r, failed)
    PROVE  DNSInv'
<1>0. DNSShape /\ ObservedInv /\ BaselineInv /\ PoolInv /\ SweepInv BY DEF DNSInv
<1>1. /\ dns.phase \in {"base", "exact", "probe"} /\ r \in dns.todo
      /\ DOMAIN dns' = DNSFields /\ DOMAIN dns'.seen = Root
      /\ dns'.todo = dns.todo \ {r}
      /\ \A q \in Root \ {r} : dns'.seen[q] = dns.seen[q]
      /\ r \in Root => /\ SeenTrue(r)' /\ SeenLive(r)'
                       /\ dns.phase = "base" => dns'.seen[r].seen
      /\ dnsHist'.faults \in Nat /\ (dnsHist'.faults = 0 => dnsHist.faults = 0)
      /\ DOMAIN dnsHist' = DOMAIN dnsHist
      /\ UNCHANGED <<dnsWorld, pctx>>
  BY ObservedFacts
<1>2. /\ dns'.phase = dns.phase /\ dns'.seeds = dns.seeds /\ dns'.seed = dns.seed
      /\ dns'.baseline = dns.baseline /\ dns'.cands = dns.cands /\ dns'.label = dns.label
      /\ dns'.rest = dns.rest /\ dns'.labels = dns.labels
      /\ dnsHist'.probes = dnsHist.probes /\ dnsHist'.judged = dnsHist.judged
      /\ dnsHist'.sweeper = dnsHist.sweeper
  BY <1>0, ObservedFacts DEF DNSShape, DNSFields
<1>3. DNSShape' BY <1>0, <1>1, <1>2 DEF DNSShape
<1>4. \A q, o :
        Genuine(q, o) =>
            /\ o.dns \subseteq dnsWorld.dns[q]
            /\ o.rdap \subseteq dnsWorld.rdap[q]
            /\ dnsHist'.faults = 0 =>
                  o.dns = dnsWorld.dns[q] /\ o.rdap = dnsWorld.rdap[q]
  BY <1>1 DEF Genuine
<1>5. ObservedInv'
  <2>1. ASSUME NEW q \in Root, dns'.seen[q].seen PROVE SeenTrue(q)'
    BY <1>0, <1>1, <1>2, <1>4, <2>1 DEF ObservedInv, SeenTrue, Genuine
  <2>2. ASSUME NEW q \in DOMAIN dns.cands, dns.cands[q].obs.seen
        PROVE  q \in Root /\ Genuine(q, dns.cands[q].obs)'
    BY <1>0, <1>1, <1>2, <1>4, <2>2 DEF ObservedInv, Genuine
  <2> QED BY <1>0, <1>1, <1>2, <2>1, <2>2 DEF ObservedInv, SeenTrue
<1>6. BaselineInv' BY <1>0, <1>1, <1>2 DEF BaselineInv, SeedFacts, NamedBy
<1>7. PoolInv'
  BY <1>0, <1>1, <1>2 DEF PoolInv, DNSShape, Answered, SeenLive
<1>8. SweepInv'
  <2> SUFFICES ASSUME dns.phase = "probe" PROVE SweepInv' BY <1>2 DEF SweepInv
  <2>1. PICK l \in Label \ pctx.sweptLabels :
            /\ dns.label = {l} /\ dnsHist.sweeper[l] = dns.seed
            /\ dns.todo \cup dns.rest \subseteq Root
            /\ \A q \in Root :
                  /\ q \in dns.todo \cup dns.rest \/ dns.seen[q].seen =>
                        q \notin dns.seed \cup DOMAIN dns.cands
                  /\ dnsWorld.mode = "exhaustive" /\ q[1] = l /\ q \notin dns.seed =>
                        \/ q \in DOMAIN dns.cands \cup dns.todo \cup dns.rest
                        \/ Probed(q, dns.seen[q])
    BY <1>0 DEF SweepInv
  <2>2. \A q, o : dnsHist'.faults = 0 /\ Probed(q, o) => dnsHist.faults = 0 /\ Probed(q, o)'
    BY <1>1 DEF Probed, NSNotFound
  <2>3. Probed(r, dns.seen[r])' \/ r \notin Root
    BY <1>1 DEF SeenLive, Answered, Probed
  <2> QED BY <1>1, <1>2, <2>1, <2>2, <2>3 DEF SweepInv, Probed
<1>9. ProbedInv' BY <1>1, <1>2 DEF DNSInv, ProbedInv
<1>10. JudgeCandidates' = JudgeCandidates BY <1>2, JudgeCandidatesStay
<1>11. ASSUME NEW l \in pctx.sweptLabels PROVE Accounted(l)'
  BY <1>1, <1>2, <1>10, AccountedStays DEF DNSInv, SweptInv
<1>12. SweptInv' /\ PromotedInv' BY <1>1, <1>2, <1>11, PromotedStays DEF DNSInv, SweptInv
<1> QED BY <1>1, <1>2, <1>3, <1>5, <1>6, <1>7, <1>8, <1>9, <1>12 DEF DNSInv

\* A preflight settles a probe: its root has no name servers of its own.
LEMMA DNSPreflightKeeps ==
    ASSUME DNSInv, NEW r, DNSPreflight(r)
    PROVE  DNSInv'
<1>0. DNSShape /\ ObservedInv /\ BaselineInv /\ PoolInv /\ SweepInv BY DEF DNSInv
<1>1. /\ dns.phase = "probe" /\ r \in dns.todo /\ NSNotFound(r)
      /\ DOMAIN dns' = DNSFields /\ dns'.todo = dns.todo \ {r}
      /\ dns'.phase = dns.phase /\ dns'.seeds = dns.seeds /\ dns'.seed = dns.seed
      /\ dns'.baseline = dns.baseline /\ dns'.cands = dns.cands /\ dns'.label = dns.label
      /\ dns'.rest = dns.rest /\ dns'.seen = dns.seen /\ dns'.labels = dns.labels
      /\ UNCHANGED <<dnsWorld, pctx, dnsHist>>
  BY <1>0 DEF DNSPreflight, DNSShape, DNSFields
<1>2. DNSShape' /\ ObservedInv' /\ BaselineInv' /\ PoolInv'
  BY <1>0, <1>1 DEF DNSShape, ObservedInv, BaselineInv, PoolInv, Genuine, Answered, SeedFacts, NamedBy
<1>4. SweepInv'
  <2>1. PICK l \in Label \ pctx.sweptLabels :
            /\ dns.label = {l} /\ dnsHist.sweeper[l] = dns.seed
            /\ dns.todo \cup dns.rest \subseteq Root
            /\ \A q \in Root :
                  /\ q \in dns.todo \cup dns.rest \/ dns.seen[q].seen =>
                        q \notin dns.seed \cup DOMAIN dns.cands
                  /\ dnsWorld.mode = "exhaustive" /\ q[1] = l /\ q \notin dns.seed =>
                        \/ q \in DOMAIN dns.cands \cup dns.todo \cup dns.rest
                        \/ Probed(q, dns.seen[q])
    BY <1>0, <1>1 DEF SweepInv
  <2>2. \A q, o : Probed(q, o)' <=> Probed(q, o) BY <1>1 DEF Probed, NSNotFound
  <2>3. Probed(r, dns.seen[r]) BY <1>1 DEF Probed
  <2>4. \A q : q \in dns'.todo \cup dns'.rest <=> q \in dns.todo \cup dns.rest /\ (q # r \/ q \in dns.rest)
    BY <1>1
  <2>5. /\ l \in Label \ pctx'.sweptLabels
        /\ dns'.label = {l} /\ dnsHist'.sweeper[l] = dns'.seed
        /\ dns'.todo \cup dns'.rest \subseteq Root
    BY <1>1, <2>1
  <2>6. ASSUME NEW q \in Root
        PROVE  /\ q \in dns'.todo \cup dns'.rest \/ dns'.seen[q].seen =>
                     q \notin dns'.seed \cup DOMAIN dns'.cands
               /\ dnsWorld'.mode = "exhaustive" /\ q[1] = l /\ q \notin dns'.seed =>
                     \/ q \in DOMAIN dns'.cands \cup dns'.todo \cup dns'.rest
                     \/ Probed(q, dns.seen[q])
    BY <1>1, <2>1, <2>3, <2>4
  <2> QED BY <1>1, <2>2, <2>5, <2>6 DEF SweepInv
<1>5. ProbedInv' BY <1>1 DEF DNSInv, ProbedInv
<1>6. JudgeCandidates' = JudgeCandidates BY <1>1, JudgeCandidatesStay
<1>7. ASSUME NEW l \in pctx.sweptLabels PROVE Accounted(l)'
  BY <1>1, <1>6, AccountedStays DEF DNSInv, SweptInv
<1>8. SweptInv' /\ PromotedInv' BY <1>1, <1>7, PromotedStays DEF DNSInv, SweptInv
<1> QED BY <1>1, <1>2, <1>4, <1>5, <1>8 DEF DNSInv

\* The first sources of candidates: they have not been observed.
LEMMA SourceFields ==
    ASSUME NEW cands, NEW refs, DOMAIN cands = {}
    PROVE  LET new == addSources(cands, refs)
           IN  /\ DOMAIN new = {f[2] : f \in refs}
               /\ \A r \in DOMAIN new : /\ DOMAIN new[r] = {"kinds", "variant", "obs"}
                                        /\ new[r].obs = NoObservation
<1>1. ASSUME NEW r
      PROVE  ensureDNSPivotCandidate(cands, r)
                = [kinds |-> {}, variant |-> FALSE, obs |-> NoObservation]
  BY DEF ensureDNSPivotCandidate
<1> QED BY <1>1 DEF addSources

\* The base domains have answered: their facts are the baseline.
LEMMA DNSMergeBaseKeeps ==
    ASSUME DNSInv, DNSMergeBase
    PROVE  DNSInv'
<1> DEFINE refs == {f \in UNION {domainCandidates(dns.seen[r].dns) : r \in dns.seed} :
                        f[2] \notin dns.seed}
           base == UNION {addObservation({}, dns.seen[r]) : r \in dns.seed}
<1>0. DNSShape /\ ObservedInv /\ PoolInv BY DEF DNSInv
<1>1. /\ dns.phase = "base" /\ dns.todo = {} /\ UNCHANGED <<dnsWorld, pctx, dnsHist>>
      /\ DOMAIN dns' = DNSFields /\ dns'.phase = "exact" /\ dns'.baseline = base
      /\ dns'.cands = addSources(dns.cands, refs) /\ dns'.todo = {f[2] : f \in refs}
      /\ dns'.seen = NothingSeen /\ dns'.seeds = dns.seeds /\ dns'.seed = dns.seed
  BY <1>0 DEF DNSMergeBase, DNSShape, DNSFields
<1>2. /\ DOMAIN dns'.cands = {f[2] : f \in refs}
      /\ \A r \in DOMAIN dns'.cands : /\ DOMAIN dns'.cands[r] = {"kinds", "variant", "obs"}
                                      /\ dns'.cands[r].obs = NoObservation
  <2> DEFINE new == addSources(dns.cands, refs)
  <2> HIDE DEF refs
  <2>1. DOMAIN dns.cands = {} BY <1>0, <1>1 DEF PoolInv
  <2>2. /\ DOMAIN new = {f[2] : f \in refs}
        /\ \A r \in DOMAIN new : /\ DOMAIN new[r] = {"kinds", "variant", "obs"}
                                 /\ new[r].obs = NoObservation
    BY <2>1, SourceFields
  <2>3. dns'.cands = new BY <1>1
  <2> HIDE DEF new
  <2> QED BY <2>2, <2>3
<1>3. \A f \in refs : f[2] \notin dns.seed OBVIOUS
<1>4. \A r \in dns.seed : /\ Comparable(dns.seen[r].dns) \subseteq Comparable(dnsWorld.dns[r])
                          /\ dns.seen[r].rdap \subseteq dnsWorld.rdap[r]
                          /\ dnsHist.faults = 0 => /\ dns.seen[r].dns = dnsWorld.dns[r]
                                                   /\ dns.seen[r].rdap = dnsWorld.rdap[r]
  <2> SUFFICES ASSUME NEW r \in dns.seed
               PROVE  /\ Comparable(dns.seen[r].dns) \subseteq Comparable(dnsWorld.dns[r])
                      /\ dns.seen[r].rdap \subseteq dnsWorld.rdap[r]
                      /\ dnsHist.faults = 0 => /\ dns.seen[r].dns = dnsWorld.dns[r]
                                               /\ dns.seen[r].rdap = dnsWorld.rdap[r]
    OBVIOUS
  <2>1. Genuine(r, dns.seen[r]) BY <1>0, <1>1 DEF PoolInv, ObservedInv, DNSShape
  <2>2. Comparable(dns.seen[r].dns) \subseteq Comparable(dnsWorld.dns[r])
    BY <2>1, LiveGrows DEF Genuine
  <2> QED BY <2>1, <2>2 DEF Genuine
<1>5. base = UNION {Comparable(dns.seen[r].dns) \cup dns.seen[r].rdap : r \in dns.seed}
  BY DEF addObservation
<1> HIDE DEF refs, base
<1>6. BaselineInv'
  <2>1. base \subseteq SeedFacts(dns.seed) BY <1>4, <1>5 DEF SeedFacts
  <2>2. dnsHist.faults = 0 => base = SeedFacts(dns.seed) BY <1>4, <1>5 DEF SeedFacts
  <2>3. SeedFacts(dns.seed)' = SeedFacts(dns.seed) /\ NamedBy(dns.seed)' = NamedBy(dns.seed)
    BY <1>1 DEF SeedFacts, NamedBy
  <2>4. dnsHist.faults = 0 => NamedBy(dns.seed) \subseteq dns.seed \cup {f[2] : f \in refs}
    BY <1>4 DEF NamedBy, refs
  <2> QED BY <1>1, <1>2, <2>1, <2>2, <2>3, <2>4 DEF BaselineInv
<1>7. DNSShape' BY <1>0, <1>1 DEF DNSShape, NothingSeen
<1>8. ObservedInv' BY <1>1, <1>2, <1>3 DEF ObservedInv, NothingSeen, NoObservation
<1>9. PoolInv' BY <1>1, <1>2 DEF PoolInv, NothingSeen, NoObservation
<1>10. SweepInv' BY <1>1 DEF SweepInv
<1>11. ProbedInv' BY <1>1 DEF DNSInv, ProbedInv
<1>12. ASSUME NEW l \in pctx.sweptLabels PROVE Accounted(l)'
  BY <1>1, AccountedStays DEF DNSInv, SweptInv
<1>13. SweptInv' /\ PromotedInv' BY <1>1, <1>12, PromotedStays DEF DNSInv, SweptInv
<1> QED BY <1>1, <1>6, <1>7, <1>8, <1>9, <1>10, <1>11, <1>13 DEF DNSInv

\* The references have answered.
LEMMA DNSMergeExactKeeps ==
    ASSUME DNSInv, DNSMergeExact
    PROVE  DNSInv'
<1>0. DNSShape /\ ObservedInv /\ BaselineInv /\ PoolInv BY DEF DNSInv
<1>1. /\ dns.phase = "exact" /\ dns.todo = {} /\ UNCHANGED <<dnsWorld, pctx, dnsHist>>
      /\ DOMAIN dns' = DNSFields /\ dns'.phase = "labels" /\ dns'.baseline = dns.baseline
      /\ dns'.cands = Observed(dns.cands, FALSE)
      /\ dns'.seen = NothingSeen /\ dns'.seeds = dns.seeds /\ dns'.seed = dns.seed
      /\ dns'.labels = {r[1] : r \in dns.seed}
  BY <1>0 DEF DNSMergeExact, DNSShape, DNSFields
<1>2. /\ DOMAIN dns'.cands = DOMAIN dns.cands
      /\ \A r \in DOMAIN dns.cands :
            IF r \in Root /\ dns.seen[r].seen
            THEN /\ DOMAIN dns'.cands[r] = {"kinds", "variant", "obs"}
                 /\ dns'.cands[r].obs = dns.seen[r]
            ELSE dns'.cands[r] = dns.cands[r]
  <2> DEFINE new == Observed(dns.cands, FALSE)
             found == {r \in Root : dns.seen[r].seen}
  <2>1. /\ DOMAIN new = DOMAIN dns.cands \cup found
        /\ \A r \in found : /\ DOMAIN new[r] = {"kinds", "variant", "obs"}
                            /\ new[r].obs = dns.seen[r]
        /\ \A r \in DOMAIN dns.cands \ found : new[r] = dns.cands[r]
    <3>1. DOMAIN dns.seen = Root BY <1>0 DEF DNSShape
    <3> QED BY <3>1, ObservedFields, Zenon
  <2>2. \A r \in Root : dns.seen[r].seen => r \in DOMAIN dns.cands
    BY <1>0, <1>1 DEF PoolInv
  <2> HIDE DEF new
  <2>3. dns'.cands = new BY <1>1 DEF new
  <2> QED BY <2>1, <2>2, <2>3
<1>3. \A q, o : (Genuine(q, o)' <=> Genuine(q, o)) /\ (Answered(q, o)' <=> Answered(q, o))
  BY <1>1 DEF Genuine, Answered
<1>4. DNSShape' BY <1>0, <1>1 DEF DNSShape, NothingSeen
<1>5. ObservedInv'
  <2>1. ASSUME NEW r \in Root PROVE ~dns'.seen[r].seen
    BY <1>1 DEF NothingSeen, NoObservation
  <2>2. ASSUME NEW r \in DOMAIN dns'.cands
        PROVE  /\ r \notin dns'.seed /\ DOMAIN dns'.cands[r] = {"kinds", "variant", "obs"}
               /\ dns'.cands[r].obs.seen => r \in Root /\ Genuine(r, dns.cands[r].obs)'
    <3>1. /\ r \notin dns.seed /\ DOMAIN dns.cands[r] = {"kinds", "variant", "obs"}
          /\ dns.cands[r].obs.seen => r \in Root /\ Genuine(r, dns.cands[r].obs)
      BY <1>0, <1>1, <1>2 DEF ObservedInv
    <3>2. CASE r \in Root /\ dns.seen[r].seen
      <4>1. /\ DOMAIN dns'.cands[r] = {"kinds", "variant", "obs"}
            /\ dns'.cands[r].obs = dns.seen[r]
        BY <1>2, <3>2
      <4>2. Genuine(r, dns.seen[r]) BY <1>0, <1>1, <3>2 DEF ObservedInv
      <4>3. Genuine(r, dns.cands[r].obs)' BY <1>1, <4>1, <4>2 DEF Genuine
      <4> QED BY <1>1, <3>1, <3>2, <4>1, <4>3
    <3>3. CASE ~(r \in Root /\ dns.seen[r].seen)
      <4>1. dns'.cands[r] = dns.cands[r] BY <1>2, <3>3
      <4>2. Genuine(r, dns.cands[r].obs)' <=> Genuine(r, dns.cands[r].obs)
        BY <1>1, <4>1 DEF Genuine
      <4> QED BY <1>1, <3>1, <4>1, <4>2
    <3> QED BY <3>2, <3>3
  <2> QED BY <2>1, <2>2 DEF ObservedInv
<1>6. PoolInv'
  <2>1. ASSUME NEW r \in Root PROVE ~dns'.seen[r].seen
    BY <1>1 DEF NothingSeen, NoObservation
  <2>2. ASSUME NEW r \in DOMAIN dns'.cands \cap Root PROVE Answered(r, dns'.cands[r].obs)
    <3>1. Answered(r, dns.seen[r]) /\ r \in DOMAIN dns.cands
      BY <1>0, <1>1, <1>2 DEF PoolInv
    <3> QED BY <1>2, <3>1 DEF Answered
  <2>3. dns'.labels \subseteq Label BY <1>0, <1>1 DEF DNSShape, Root
  <2> QED BY <1>1, <2>1, <2>2, <2>3, <1>3 DEF PoolInv, Answered
<1>7. BaselineInv'
  <2>1. SeedFacts(dns.seed)' = SeedFacts(dns.seed) /\ NamedBy(dns.seed)' = NamedBy(dns.seed)
    BY <1>1 DEF SeedFacts, NamedBy
  <2>2. dns'.baseline = dns.baseline /\ dns'.seed = dns.seed /\ DOMAIN dns'.cands = DOMAIN dns.cands
    BY <1>1, <1>2
  <2>3. dnsHist' = dnsHist BY <1>1
  <2>4. /\ dns.baseline \subseteq SeedFacts(dns.seed)
        /\ dnsHist.faults = 0 => dns.baseline = SeedFacts(dns.seed)
        /\ dnsHist.faults = 0 => NamedBy(dns.seed) \subseteq dns.seed \cup DOMAIN dns.cands
    BY <1>0, <1>1 DEF BaselineInv
  <2> QED BY <2>1, <2>2, <2>3, <2>4 DEF BaselineInv
<1>8. SweepInv' BY <1>1 DEF SweepInv
<1>9. ProbedInv' BY <1>1 DEF DNSInv, ProbedInv
<1>10. ASSUME NEW l \in pctx.sweptLabels PROVE Accounted(l)'
  BY <1>1, AccountedStays DEF DNSInv, SweptInv
<1>11. SweptInv' /\ PromotedInv' BY <1>1, <1>10, PromotedStays DEF DNSInv, SweptInv
<1> QED BY <1>1, <1>4, <1>5, <1>6, <1>7, <1>8, <1>9, <1>11 DEF DNSInv

\* Candidates that keep their observations go to the judge still.
LEMMA JudgeCandidatesGrow ==
    ASSUME dns'.baseline = dns.baseline, DOMAIN dns.cands \subseteq DOMAIN dns'.cands,
           \A r \in DOMAIN dns.cands :
              dns.cands[r].obs.seen => dns'.cands[r].obs = dns.cands[r].obs
    PROVE  JudgeCandidates \subseteq JudgeCandidates'
BY DEF JudgeCandidates, corroborated

\* A batch is cut from the front of the probes.
LEMMA BatchSplit ==
    ASSUME NEW rest
    PROVE  NextBatch(rest) \subseteq rest /\ NextBatch(rest) \cup AfterBatch(rest) = rest
<1>1. \A n, roots, s : FirstOf(n, roots, s) \subseteq roots BY DEF FirstOf
<1> QED BY <1>1 DEF NextBatch, AfterBatch

\* A label is passed over.
LEMMA DNSSkipLabelKeeps ==
    ASSUME DNSInv, NEW l, DNSSkipLabel(l)
    PROVE  DNSInv'
<1>0. DNSShape /\ ObservedInv /\ BaselineInv /\ PoolInv BY DEF DNSInv
<1>1. /\ dns.phase = "labels" /\ UNCHANGED <<dnsWorld, pctx, dnsHist>>
      /\ DOMAIN dns' = DNSFields /\ dns'.phase = "labels" /\ dns'.baseline = dns.baseline
      /\ dns'.seen = dns.seen /\ dns'.seeds = dns.seeds /\ dns'.seed = dns.seed
      /\ dns'.labels = dns.labels \ {l}
      /\ dns'.cands = dns.cands \/ dns'.cands = markVariants(l, dns.seed, dns.cands)
  BY <1>0 DEF DNSSkipLabel, DNSShape, DNSFields
<1>2. /\ DOMAIN dns'.cands = DOMAIN dns.cands
      /\ \A r \in DOMAIN dns.cands : /\ DOMAIN dns'.cands[r] = {"kinds", "variant", "obs"}
                                     /\ dns'.cands[r].obs = dns.cands[r].obs
  <2>1. \A r \in DOMAIN dns.cands : DOMAIN dns.cands[r] = {"kinds", "variant", "obs"}
    BY <1>0, <1>1 DEF ObservedInv
  <2> DEFINE new == markVariants(l, dns.seed, dns.cands)
  <2>2. /\ DOMAIN new = DOMAIN dns.cands
        /\ \A r \in DOMAIN dns.cands : /\ DOMAIN new[r] = {"kinds", "variant", "obs"}
                                       /\ new[r].obs = dns.cands[r].obs
    BY <2>1, MarkFields
  <2> HIDE DEF new
  <2> QED BY <1>1, <2>1, <2>2 DEF new
<1>3. \A q, o : (Genuine(q, o)' <=> Genuine(q, o)) /\ (Answered(q, o)' <=> Answered(q, o))
  BY <1>1 DEF Genuine, Answered
<1>4. DNSShape' BY <1>0, <1>1 DEF DNSShape
<1>5. ObservedInv' BY <1>0, <1>1, <1>2 DEF ObservedInv, Genuine
<1>6. PoolInv' BY <1>0, <1>1, <1>2 DEF PoolInv, Answered
<1>7. BaselineInv'
  <2>1. SeedFacts(dns.seed)' = SeedFacts(dns.seed) /\ NamedBy(dns.seed)' = NamedBy(dns.seed)
    BY <1>1 DEF SeedFacts, NamedBy
  <2>2. dns'.baseline = dns.baseline /\ dns'.seed = dns.seed /\ DOMAIN dns'.cands = DOMAIN dns.cands
    BY <1>1, <1>2
  <2>3. dnsHist' = dnsHist BY <1>1
  <2>4. /\ dns.baseline \subseteq SeedFacts(dns.seed)
        /\ dnsHist.faults = 0 => dns.baseline = SeedFacts(dns.seed)
        /\ dnsHist.faults = 0 => NamedBy(dns.seed) \subseteq dns.seed \cup DOMAIN dns.cands
    BY <1>0, <1>1 DEF BaselineInv
  <2> QED BY <2>1, <2>2, <2>3, <2>4 DEF BaselineInv
<1>8. SweepInv' BY <1>1 DEF SweepInv
<1>9. ProbedInv' BY <1>1 DEF DNSInv, ProbedInv
<1>10. JudgeCandidates \subseteq JudgeCandidates' BY <1>1, <1>2, JudgeCandidatesGrow
<1>11. ASSUME NEW q \in pctx.sweptLabels PROVE Accounted(q)'
  BY <1>1, <1>10, AccountedStays DEF DNSInv, SweptInv
<1>12. SweptInv' /\ PromotedInv' BY <1>1, <1>11, PromotedStays DEF DNSInv, SweptInv
<1> QED BY <1>1, <1>4, <1>5, <1>6, <1>7, <1>8, <1>9, <1>12 DEF DNSInv

\* A sweep begins, of a label no earlier sweep has marked.
LEMMA DNSStartSweepKeeps ==
    ASSUME DNSInv, NEW l, DNSStartSweep(l)
    PROVE  DNSInv'
<1> DEFINE probes == buildVariantProbeRoots(l, dns.seed, dns.cands)
<1>0. DNSShape /\ ObservedInv /\ BaselineInv /\ PoolInv /\ ProbedInv BY DEF DNSInv
<1>1. /\ dns.phase = "labels" /\ UNCHANGED <<dnsWorld, pctx>>
      /\ l \in dns.labels \ pctx.sweptLabels
      /\ DOMAIN dns' = DNSFields /\ dns'.phase = "probe" /\ dns'.baseline = dns.baseline
      /\ dns'.seen = dns.seen /\ dns'.seeds = dns.seeds /\ dns'.seed = dns.seed
      /\ dns'.labels = dns.labels \ {l} /\ dns'.label = {l}
      /\ dns'.cands = markVariants(l, dns.seed, dns.cands)
      /\ dns'.todo = NextBatch(probes) /\ dns'.rest = AfterBatch(probes)
      /\ DOMAIN dnsHist' = DOMAIN dnsHist /\ dnsHist'.faults = dnsHist.faults
      /\ dnsHist'.judged = dnsHist.judged
      /\ dnsHist'.sweeper = [dnsHist.sweeper EXCEPT ![l] = dns.seed]
      /\ dnsHist'.probes = [r \in Root |-> IF r \in probes THEN dnsHist.probes[r] + 1
                                                            ELSE dnsHist.probes[r]]
  BY <1>0 DEF DNSStartSweep, DNSShape, DNSFields
<1>2. l \in Label BY <1>0, <1>1 DEF PoolInv
<1>3. /\ DOMAIN dns'.cands = DOMAIN dns.cands
      /\ \A r \in DOMAIN dns.cands : /\ DOMAIN dns'.cands[r] = {"kinds", "variant", "obs"}
                                     /\ dns'.cands[r].obs = dns.cands[r].obs
  <2>1. \A r \in DOMAIN dns.cands : DOMAIN dns.cands[r] = {"kinds", "variant", "obs"}
    BY <1>0, <1>1 DEF ObservedInv
  <2> DEFINE new == markVariants(l, dns.seed, dns.cands)
  <2>2. /\ DOMAIN new = DOMAIN dns.cands
        /\ \A r \in DOMAIN dns.cands : /\ DOMAIN new[r] = {"kinds", "variant", "obs"}
                                       /\ new[r].obs = dns.cands[r].obs
    BY <2>1, MarkFields
  <2> HIDE DEF new
  <2> QED BY <1>1, <2>1, <2>2 DEF new
<1>4. /\ probes \subseteq {r \in Root : r[1] = l} \ (dns.seed \cup DOMAIN dns.cands)
      /\ dnsWorld.mode = "exhaustive" =>
            probes = {r \in Root : r[1] = l} \ (dns.seed \cup DOMAIN dns.cands)
  BY <1>2, ProbeRoots
<1>5. dns'.todo \cup dns'.rest = probes BY <1>1, BatchSplit
<1> HIDE DEF probes
<1>6. DNSShape' BY <1>0, <1>1 DEF DNSShape
<1>7. ObservedInv' BY <1>0, <1>1, <1>3 DEF ObservedInv, Genuine
<1>8. PoolInv' BY <1>0, <1>1, <1>3 DEF PoolInv, Answered
<1>9. BaselineInv' BY <1>0, <1>1, <1>3 DEF BaselineInv, SeedFacts, NamedBy
<1>10. SweepInv'
  <2>1. \A r \in Root : ~dns'.seen[r].seen BY <1>0, <1>1 DEF PoolInv
  <2>2. dnsHist'.sweeper[l] = dns'.seed BY <1>0, <1>1, <1>2 DEF DNSShape
  <2> QED BY <1>1, <1>2, <1>3, <1>4, <1>5, <2>1, <2>2 DEF SweepInv
<1>11. ProbedInv' BY <1>0, <1>1, <1>4 DEF ProbedInv
<1>12. JudgeCandidates \subseteq JudgeCandidates' BY <1>1, <1>3, JudgeCandidatesGrow
<1>13. ASSUME NEW q \in pctx.sweptLabels PROVE Accounted(q)'
  <2>1. dnsHist'.sweeper[q] = dnsHist.sweeper[q] BY <1>0, <1>1 DEF DNSShape
  <2> QED BY <1>1, <1>12, <2>1, AccountedStays DEF DNSInv, SweptInv
<1>14. SweptInv' /\ PromotedInv' BY <1>1, <1>13, PromotedStays DEF DNSInv, SweptInv
<1> QED BY <1>1, <1>6, <1>7, <1>8, <1>9, <1>10, <1>11, <1>14 DEF DNSInv

\* The next batch of a sweep.
LEMMA DNSNextBatchKeeps ==
    ASSUME DNSInv, DNSNextBatch
    PROVE  DNSInv'
<1>0. DNSShape /\ ObservedInv /\ BaselineInv /\ PoolInv /\ SweepInv BY DEF DNSInv
<1>1. /\ dns.phase = "probe" /\ dns.todo = {} /\ UNCHANGED <<dnsWorld, pctx, dnsHist>>
      /\ DOMAIN dns' = DNSFields /\ dns'.phase = "probe" /\ dns'.baseline = dns.baseline
      /\ dns'.seen = dns.seen /\ dns'.seeds = dns.seeds /\ dns'.seed = dns.seed
      /\ dns'.labels = dns.labels /\ dns'.label = dns.label /\ dns'.cands = dns.cands
      /\ dns'.todo = NextBatch(dns.rest) /\ dns'.rest = AfterBatch(dns.rest)
  BY <1>0 DEF DNSNextBatch, DNSShape, DNSFields
<1>2. dns'.todo \cup dns'.rest = dns.todo \cup dns.rest BY <1>1, BatchSplit
<1>3. DNSShape' BY <1>0, <1>1 DEF DNSShape
<1>4. ObservedInv' /\ PoolInv' /\ BaselineInv'
  BY <1>0, <1>1 DEF ObservedInv, PoolInv, BaselineInv, Genuine, Answered, SeedFacts, NamedBy
<1>5. SweepInv' BY <1>0, <1>1, <1>2 DEF SweepInv, Probed, NSNotFound
<1>6. ProbedInv' BY <1>1 DEF DNSInv, ProbedInv
<1>7. JudgeCandidates' = JudgeCandidates BY <1>1, JudgeCandidatesStay
<1>8. ASSUME NEW q \in pctx.sweptLabels PROVE Accounted(q)'
  BY <1>1, <1>7, AccountedStays DEF DNSInv, SweptInv
<1>9. SweptInv' /\ PromotedInv' BY <1>1, <1>8, PromotedStays DEF DNSInv, SweptInv
<1> QED BY <1>1, <1>3, <1>4, <1>5, <1>6, <1>9 DEF DNSInv

\* The probes of the last batch have answered: the sweep's finds are candidates.
LEMMA SweepFinds ==
    ASSUME DNSInv, DNSEndSweep, NEW l \in Label, dns.label = {l},
           dnsHist.sweeper[l] = dns.seed,
           \A r \in Root :
              /\ dns.seen[r].seen => r \notin dns.seed \cup DOMAIN dns.cands
              /\ dnsWorld.mode = "exhaustive" /\ r[1] = l /\ r \notin dns.seed =>
                    r \in DOMAIN dns.cands \/ Probed(r, dns.seen[r]),
           dns'.baseline = dns.baseline, dns'.seed = dns.seed,
           DOMAIN dns'.cands = DOMAIN dns.cands \cup {r \in Root : dns.seen[r].seen},
           \A r \in Root : dns.seen[r].seen => dns'.cands[r].obs = dns.seen[r],
           \A r \in DOMAIN dns.cands \ {q \in Root : dns.seen[q].seen} :
              dns'.cands[r] = dns.cands[r]
    PROVE  dnsHist.faults = 0 /\ dnsWorld.mode = "exhaustive" =>
              Related(l, dns.seed) \subseteq JudgeCandidates'
<1> SUFFICES ASSUME dnsHist.faults = 0, dnsWorld.mode = "exhaustive",
                    NEW r \in Related(l, dns.seed)
             PROVE  r \in JudgeCandidates'
  OBVIOUS
<1>0. DNSShape /\ ObservedInv /\ BaselineInv /\ PoolInv /\ dns.phase = "probe"
  BY DEF DNSInv, DNSEndSweep
<1>1. /\ r \in Root \ dns.seed /\ r[1] = l /\ live(dnsWorld.dns[r])
      /\ Comparable(dnsWorld.dns[r]) \cap SeedFacts(dns.seed) # {}
  BY DEF Related
<1>2. /\ dns'.baseline = SeedFacts(dns.seed)
      /\ ~NSNotFound(r) \/ r \in DOMAIN dns.cands
  BY <1>0, <1>1 DEF BaselineInv, Related
<1>3. /\ r \in DOMAIN dns'.cands /\ dns'.cands[r].obs.seen
      /\ dns'.cands[r].obs.dns = dnsWorld.dns[r]
  <2>1. CASE dns.seen[r].seen
    <3>1. Genuine(r, dns.seen[r]) BY <1>0, <1>1, <2>1 DEF ObservedInv
    <3> QED BY <1>1, <2>1, <3>1 DEF Genuine
  <2>2. CASE ~dns.seen[r].seen
    <3>1. r \in DOMAIN dns.cands BY <1>1, <1>2, <2>2 DEF Probed
    <3>2. dns.cands[r].obs.seen BY <1>0, <1>1, <3>1 DEF PoolInv, Answered
    <3>3. Genuine(r, dns.cands[r].obs) BY <1>0, <3>1, <3>2 DEF ObservedInv
    <3> QED BY <1>1, <2>2, <3>1, <3>2, <3>3 DEF Genuine
  <2> QED BY <2>1, <2>2
<1>4. corroborated(dns.cands[r], dns.baseline)' BY <1>1, <1>2, <1>3 DEF corroborated
<1> QED BY <1>1, <1>3, <1>4 DEF JudgeCandidates

LEMMA DNSEndSweepKeeps ==
    ASSUME DNSInv, DNSEndSweep
    PROVE  DNSInv'
<1> DEFINE found == {r \in Root : dns.seen[r].seen}
<1>0. DNSShape /\ ObservedInv /\ BaselineInv /\ PoolInv /\ SweepInv BY DEF DNSInv
<1>1. /\ dns.phase = "probe" /\ dns.todo = {} /\ dns.rest = {}
      /\ UNCHANGED <<dnsWorld, dnsHist>>
      /\ DOMAIN dns' = DNSFields /\ dns'.phase = "labels" /\ dns'.baseline = dns.baseline
      /\ dns'.seen = NothingSeen /\ dns'.seeds = dns.seeds /\ dns'.seed = dns.seed
      /\ dns'.labels = dns.labels /\ dns'.cands = Observed(dns.cands, TRUE)
      /\ DOMAIN pctx' = DOMAIN pctx /\ pctx'.sweptLabels = pctx.sweptLabels \cup dns.label
      /\ pctx'.judge = pctx.judge /\ pctx'.promoted = pctx.promoted
  BY <1>0 DEF DNSEndSweep, MarkDNSVariantSweepLabel, DNSShape, DNSFields
<1>2. PICK l \in Label \ pctx.sweptLabels :
            /\ dns.label = {l} /\ dnsHist.sweeper[l] = dns.seed
            /\ \A r \in Root :
                  /\ dns.seen[r].seen => r \notin dns.seed \cup DOMAIN dns.cands
                  /\ dnsWorld.mode = "exhaustive" /\ r[1] = l /\ r \notin dns.seed =>
                        r \in DOMAIN dns.cands \/ Probed(r, dns.seen[r])
  BY <1>0, <1>1 DEF SweepInv
<1>3. /\ DOMAIN dns'.cands = DOMAIN dns.cands \cup found
      /\ \A r \in found : /\ DOMAIN dns'.cands[r] = {"kinds", "variant", "obs"}
                          /\ dns'.cands[r].obs = dns.seen[r]
      /\ \A r \in DOMAIN dns.cands \ found : dns'.cands[r] = dns.cands[r]
  <2> DEFINE new == Observed(dns.cands, TRUE)
  <2>1. /\ DOMAIN new = DOMAIN dns.cands \cup found
        /\ \A r \in found : /\ DOMAIN new[r] = {"kinds", "variant", "obs"}
                            /\ new[r].obs = dns.seen[r]
        /\ \A r \in DOMAIN dns.cands \ found : new[r] = dns.cands[r]
    <3>1. DOMAIN dns.seen = Root BY <1>0 DEF DNSShape
    <3> QED BY <3>1, ObservedFields, Zenon
  <2>2. dns'.cands = new BY <1>1
  <2> HIDE DEF new, found
  <2> QED BY <2>1, <2>2
<1>4. \A r \in found : Genuine(r, dns.seen[r]) /\ r \notin dns.seed \cup DOMAIN dns.cands
  BY <1>0, <1>1, <1>2 DEF ObservedInv
<1>5. Related(l, dns.seed)' = Related(l, dns.seed) BY <1>1 DEF Related, SeedFacts, NamedBy, NSNotFound
<1>6. dnsHist.faults = 0 /\ dnsWorld.mode = "exhaustive" =>
         Related(l, dns.seed) \subseteq JudgeCandidates'
  BY <1>1, <1>2, <1>3, SweepFinds
<1>7. DNSShape'
  <2>1. dns'.seed \subseteq Root /\ dns'.seeds \subseteq SUBSET Root BY <1>0, <1>1 DEF DNSShape
  <2> QED BY <1>0, <1>1, <2>1 DEF DNSShape, NothingSeen
<1>8. ObservedInv'
  <2>1. ASSUME NEW r \in Root PROVE ~dns'.seen[r].seen
    BY <1>1 DEF NothingSeen, NoObservation
  <2>2. ASSUME NEW r \in DOMAIN dns'.cands
        PROVE  /\ r \notin dns.seed /\ DOMAIN dns'.cands[r] = {"kinds", "variant", "obs"}
               /\ dns'.cands[r].obs.seen => r \in Root /\ Genuine(r, dns'.cands[r].obs)
    <3>1. CASE r \in found BY <1>3, <1>4, <3>1
    <3>2. CASE r \in DOMAIN dns.cands \ found BY <1>0, <1>1, <1>3, <3>2 DEF ObservedInv
    <3> QED BY <1>3, <3>1, <3>2
  <2>3. \A q, o : Genuine(q, o)' <=> Genuine(q, o) BY <1>1 DEF Genuine
  <2> HIDE DEF found
  <2> QED BY <1>1, <2>1, <2>2, <2>3 DEF ObservedInv, Genuine
<1>9. PoolInv'
  <2>1. ASSUME NEW r \in Root PROVE ~dns'.seen[r].seen
    BY <1>1 DEF NothingSeen, NoObservation
  <2>2. ASSUME NEW r \in DOMAIN dns'.cands \cap Root PROVE Answered(r, dns'.cands[r].obs)
    BY <1>0, <1>1, <1>3 DEF PoolInv, Answered
  <2>3. dns'.labels \subseteq Label BY <1>0, <1>1 DEF PoolInv
  <2> HIDE DEF found
  <2> QED BY <1>1, <2>1, <2>2, <2>3 DEF PoolInv, Answered
<1> HIDE DEF found
<1>10. BaselineInv'
  <2>1. DOMAIN dns.cands \subseteq DOMAIN dns'.cands BY <1>3
  <2>2. SeedFacts(dns.seed)' = SeedFacts(dns.seed) /\ NamedBy(dns.seed)' = NamedBy(dns.seed)
    BY <1>1 DEF SeedFacts, NamedBy
  <2> QED BY <1>0, <1>1, <2>1, <2>2 DEF BaselineInv
<1>11. SweepInv' BY <1>1 DEF SweepInv
<1>12. ProbedInv' BY <1>1 DEF DNSInv, ProbedInv
<1>13. JudgeCandidates \subseteq JudgeCandidates'
  <2>1. \A r \in DOMAIN dns.cands : dns'.cands[r] = dns.cands[r] BY <1>3, <1>4
  <2> QED BY <1>1, <1>3, <2>1, JudgeCandidatesGrow
<1>14. ASSUME NEW q \in pctx'.sweptLabels PROVE Accounted(q)'
  <2>1. CASE q \in pctx.sweptLabels
    BY <1>1, <1>13, <2>1, AccountedStays DEF DNSInv, SweptInv
  <2>2. CASE q = l
    <3>1. PICK roots : roots = JudgeCandidates' OBVIOUS
    <3>2. dnsHist'.sweeper[l] = dns'.seed BY <1>1, <1>2
    <3>3. Related(l, dns.seed) \subseteq roots
             \/ ~(dnsHist'.faults = 0 /\ dnsWorld'.mode = "exhaustive")
      BY <1>1, <1>6, <3>1
    <3>4. Related(l, dnsHist.sweeper[l])' = Related(l, dns.seed)
      BY <1>1, <1>2 DEF Related, SeedFacts, NamedBy, NSNotFound
    <3>5. Accounted(l)' <=>
            (dnsHist'.faults = 0 /\ pctx'.judge /\ dnsWorld'.mode = "exhaustive" =>
                \/ Related(l, dnsHist.sweeper[l])' = {}
                \/ \E j \in dnsHist'.judged : /\ j.seed = dnsHist'.sweeper[l]
                                              /\ Related(l, dnsHist.sweeper[l])' \subseteq j.roots
                \/ /\ dns'.phase \in {"labels", "probe"}
                   /\ dnsHist'.sweeper[l] = dns'.seed
                   /\ Related(l, dnsHist.sweeper[l])' \subseteq roots)
      BY <3>1 DEF Accounted
    <3>6. Accounted(l)' BY <1>1, <3>2, <3>3, <3>4, <3>5
    <3> QED BY <2>2, <3>6
  <2> QED BY <1>1, <1>2, <2>1, <2>2
<1>15. SweptInv' /\ PromotedInv' BY <1>1, <1>14, PromotedStays DEF DNSInv, SweptInv
<1> QED BY <1>1, <1>7, <1>8, <1>9, <1>10, <1>11, <1>12, <1>15 DEF DNSInv

\* A seed is done: its candidates have gone to the judge, or nobody is to be asked.
LEMMA DNSSeedEnds ==
    ASSUME DNSInv, dns.phase = "labels", UNCHANGED dnsWorld,
           DOMAIN dns' = DNSFields, dns'.phase = "seeds", UNCHANGED dns.seeds,
           UNCHANGED dns.seed, UNCHANGED dns.seen,
           UNCHANGED DOMAIN dnsHist, UNCHANGED dnsHist.faults, UNCHANGED dnsHist.probes,
           UNCHANGED dnsHist.sweeper, dnsHist.judged \subseteq dnsHist'.judged,
           UNCHANGED DOMAIN pctx, UNCHANGED pctx.judge, UNCHANGED pctx.sweptLabels,
           \/ \E j \in dnsHist'.judged : j.seed = dns.seed /\ JudgeCandidates \subseteq j.roots
           \/ ~pctx.judge \/ JudgeCandidates = {},
           PromotedInv'
    PROVE  DNSInv'
<1>0. DNSShape /\ ProbedInv BY DEF DNSInv
<1>1. DNSShape' BY <1>0 DEF DNSShape
<1>2. ObservedInv' /\ BaselineInv' /\ PoolInv' /\ SweepInv'
  BY DEF ObservedInv, BaselineInv, PoolInv, SweepInv
<1>3. ProbedInv' BY <1>0 DEF ProbedInv
<1>4. ASSUME NEW q \in pctx.sweptLabels PROVE Accounted(q)'
  BY AccountedStays DEF DNSInv, SweptInv
<1>5. SweptInv' BY <1>4 DEF SweptInv
<1> QED BY <1>1, <1>2, <1>3, <1>5 DEF DNSInv

\* What is put to the judge is corroborated.
LEMMA RequestsAreCorroborated ==
    ASSUME DNSInv, dns.phase = "labels", NEW j,
           j.seed = dns.seed, j.roots = JudgeCandidates, NEW r \in JudgeCandidates
    PROVE  r \in Root /\ Corroborated(j, r)
<1>0. ObservedInv /\ BaselineInv BY DEF DNSInv
<1>1. /\ r \in DOMAIN dns.cands /\ dns.cands[r].obs.seen /\ live(dns.cands[r].obs.dns)
      /\ corroborated(dns.cands[r], dns.baseline)
  BY JudgedMembers
<1>2. r \in Root /\ r \notin dns.seed /\ Genuine(r, dns.cands[r].obs)
  BY <1>0, <1>1 DEF ObservedInv
<1>3. /\ live(dnsWorld.dns[r])
      /\ Comparable(dns.cands[r].obs.dns) \subseteq Comparable(dnsWorld.dns[r])
      /\ dns.cands[r].obs.rdap \subseteq dnsWorld.rdap[r]
  BY <1>1, <1>2, LiveGrows DEF Genuine
<1>4. dns.baseline \subseteq SeedFacts(dns.seed) BY <1>0 DEF BaselineInv
<1>5. (Comparable(dnsWorld.dns[r]) \cup dnsWorld.rdap[r]) \cap SeedFacts(dns.seed) # {}
  BY <1>1, <1>3, <1>4 DEF corroborated
<1> QED BY <1>1, <1>2, <1>3, <1>5 DEF Corroborated

\* A seed that ends without the judge's answer.
LEMMA DNSNotJudgedKeeps ==
    ASSUME DNSInv, DNSNotJudged \/ DNSJudgeFails
    PROVE  DNSInv'
<1> DEFINE j == [seed |-> dns.seed, roots |-> JudgeCandidates]
<1>0. DNSShape /\ PromotedInv BY DEF DNSInv
<1>1. /\ dns.phase = "labels" /\ UNCHANGED <<dnsWorld, pctx>>
      /\ dns' = [dns EXCEPT !.phase = "seeds"]
      /\ \/ UNCHANGED dnsHist /\ (~pctx.judge \/ JudgeCandidates = {})
         \/ dnsHist' = [dnsHist EXCEPT !.judged = @ \cup {j}]
  BY DEF DNSNotJudged, DNSJudgeFails, AtJudge
<1>2. j.seed = dns.seed /\ j.roots = JudgeCandidates OBVIOUS
<1> HIDE DEF j
<1>3. /\ DOMAIN dns' = DNSFields /\ dns'.phase = "seeds" /\ UNCHANGED dns.seeds
      /\ UNCHANGED dns.seed /\ UNCHANGED dns.seen
      /\ UNCHANGED DOMAIN dnsHist /\ UNCHANGED dnsHist.faults /\ UNCHANGED dnsHist.probes
      /\ UNCHANGED dnsHist.sweeper
      /\ \/ UNCHANGED dnsHist.judged /\ (~pctx.judge \/ JudgeCandidates = {})
         \/ dnsHist'.judged = dnsHist.judged \cup {j}
  BY <1>0, <1>1 DEF DNSShape, DNSFields
<1>4. PromotedInv' BY <1>0, <1>1, <1>3, PromotedStays
<1> QED BY <1>1, <1>2, <1>3, <1>4, DNSSeedEnds

\* The judge's answer.
LEMMA DNSJudgedKeeps ==
    ASSUME DNSInv, NEW reply \in Replies(JudgeCandidates),
           NEW accepted \in SUBSET JudgeCandidates, DNSJudged(reply, accepted)
    PROVE  DNSInv'
<1> DEFINE j == [seed |-> dns.seed, roots |-> JudgeCandidates]
<1>0. DNSShape /\ PromotedInv BY DEF DNSInv
<1>1. /\ dns.phase = "labels" /\ UNCHANGED dnsWorld
      /\ DOMAIN dns' = DNSFields /\ dns'.phase = "seeds" /\ UNCHANGED dns.seeds
      /\ UNCHANGED dns.seed /\ UNCHANGED dns.seen
      /\ UNCHANGED DOMAIN dnsHist /\ UNCHANGED dnsHist.faults /\ UNCHANGED dnsHist.probes
      /\ UNCHANGED dnsHist.sweeper /\ dnsHist'.judged = dnsHist.judged \cup {j}
  <2>1. /\ dns.phase = "labels" /\ UNCHANGED dnsWorld
        /\ dns' = [dns EXCEPT !.phase = "seeds",
                              !.assets = @ \cup {<<r, FALSE>> : r \in accepted}]
        /\ dnsHist' = [dnsHist EXCEPT !.judged = @ \cup {j}]
    BY DEF DNSJudged, AtJudge
  <2> HIDE DEF j
  <2> QED BY <1>0, <2>1 DEF DNSShape, DNSFields
<1>2. j.seed = dns.seed /\ j.roots = JudgeCandidates OBVIOUS
<1>3. /\ UNCHANGED DOMAIN pctx /\ UNCHANGED pctx.judge /\ UNCHANGED pctx.sweptLabels
      /\ pctx'.promoted = pctx.promoted \cup (accepted \ pctx.known)
  <2> PICK log : pctx' = [pctx EXCEPT !.log = log,
                             !.promoted = @ \cup (accepted \ pctx.known),
                             !.known = @ \cup accepted]
    BY DEF DNSJudged, JudgeReplies
  <2> QED BY <1>0 DEF DNSShape
<1> HIDE DEF j
<1>4. \A r \in accepted : r \in Root /\ Corroborated(j, r)
  BY <1>1, <1>2, RequestsAreCorroborated
<1>5. PromotedInv'
  <2>1. \A i, r : Corroborated(i, r)' <=> Corroborated(i, r) BY <1>1 DEF Corroborated, SeedFacts
  <2>2. \A r \in pctx'.promoted : r \in Root /\ \E i \in dnsHist'.judged : Corroborated(i, r)
    BY <1>0, <1>1, <1>3, <1>4 DEF PromotedInv
  <2> QED BY <2>1, <2>2 DEF PromotedInv, Corroborated, SeedFacts
<1> QED BY <1>1, <1>2, <1>3, <1>5, DNSSeedEnds

\* Process returns.
LEMMA DNSReturnKeeps ==
    ASSUME DNSInv, DNSReturn
    PROVE  DNSInv'
<1>0. DNSShape /\ PromotedInv /\ ProbedInv BY DEF DNSInv
<1>1. /\ dns.phase = "seeds" /\ UNCHANGED <<dnsWorld, dnsHist>>
      /\ DOMAIN dns' = DNSFields /\ dns'.phase = "returned" /\ UNCHANGED dns.seeds
      /\ UNCHANGED dns.seed /\ UNCHANGED dns.seen
      /\ UNCHANGED DOMAIN pctx /\ UNCHANGED pctx.judge /\ UNCHANGED pctx.sweptLabels
      /\ UNCHANGED pctx.promoted
  BY <1>0 DEF DNSReturn, DNSShape, DNSFields
<1>2. DNSShape' BY <1>0, <1>1 DEF DNSShape
<1>3. ObservedInv' /\ BaselineInv' /\ PoolInv' /\ SweepInv'
  BY <1>1 DEF ObservedInv, BaselineInv, PoolInv, SweepInv
<1>4. ProbedInv' BY <1>0, <1>1 DEF ProbedInv
<1>5. ASSUME NEW q \in pctx.sweptLabels PROVE Accounted(q)'
  BY <1>1, AccountedStays DEF DNSInv, SweptInv
<1>6. SweptInv' /\ PromotedInv' BY <1>0, <1>1, <1>5, PromotedStays DEF SweptInv
<1> QED BY <1>1, <1>2, <1>3, <1>4, <1>6 DEF DNSInv

\* Every step of the stage.
LEMMA DNSStep ==
    ASSUME DNSInv, DNSNext
    PROVE  DNSInv'
BY DNSProcessKeeps, DNSStartSeedKeeps, DNSObservedKeeps, DNSPreflightKeeps,
   DNSMergeBaseKeeps, DNSMergeExactKeeps, DNSSkipLabelKeeps, DNSStartSweepKeeps,
   DNSNextBatchKeeps, DNSEndSweepKeeps, DNSNotJudgedKeeps, DNSJudgedKeeps, DNSReturnKeeps
   DEF DNSNext

LEMMA DNSStands ==
    ASSUME DNSInv, UNCHANGED <<pctx, dnsVars>>
    PROVE  DNSInv'
<1>1. UNCHANGED <<dnsWorld, dns, dnsHist, pctx>> BY DEF dnsVars
<1>2. DNSShape' /\ ObservedInv' /\ BaselineInv' /\ PoolInv' /\ SweepInv' /\ ProbedInv'
  BY <1>1 DEF DNSInv, DNSShape, ObservedInv, BaselineInv, PoolInv, SweepInv, ProbedInv,
              Genuine, Answered, Probed, SeedFacts, NamedBy, NSNotFound
<1>3. JudgeCandidates' = JudgeCandidates BY <1>1, JudgeCandidatesStay
<1>4. ASSUME NEW q \in pctx.sweptLabels PROVE Accounted(q)'
  BY <1>1, <1>3, AccountedStays DEF DNSInv, SweptInv
<1>5. SweptInv' /\ PromotedInv' BY <1>1, <1>4, PromotedStays DEF DNSInv, SweptInv
<1> QED BY <1>1, <1>2, <1>5 DEF DNSInv

LEMMA DNSInductive == StagesSpec => []DNSStageInv
<1>1. StagesInit => DNSStageInv
  <2> SUFFICES ASSUME StagesInit PROVE DNSStageInv
    OBVIOUS
  <2>1. /\ dns = [phase |-> "idle", seeds |-> {}, seed |-> {}, todo |-> {},
                  seen |-> NothingSeen, baseline |-> {}, cands |-> <<>>, labels |-> {},
                  label |-> {}, rest |-> {}, assets |-> {}, relations |-> {}]
        /\ dnsHist = [wave |-> 0, faults |-> 0, probes |-> [r \in Root |-> 0],
                      judged |-> {}, sweeper |-> [l \in Label |-> {}]]
    BY DEF StagesInit, DNSInit
  <2>2. /\ DOMAIN pctx = {"threshold", "judge", "log", "known", "promoted", "assets",
                          "relations", "sweptLabels"}
        /\ pctx.promoted = {} /\ pctx.sweptLabels = {}
    BY DEF StagesInit, NewStageContext
  <2>3. DNSShape BY <2>1, <2>2 DEF DNSShape, DNSFields, NothingSeen
  <2>4. ObservedInv /\ BaselineInv /\ PoolInv /\ SweepInv /\ ProbedInv
    BY <2>1 DEF ObservedInv, BaselineInv, PoolInv, SweepInv, ProbedInv
  <2>5. DNSInv BY <2>2, <2>3, <2>4 DEF DNSInv, SweptInv, PromotedInv
  <2> QED BY <2>1, <2>5 DEF DNSStageInv
<1>2. DNSStageInv /\ [StagesNext]_stageVars => DNSStageInv'
  <2> SUFFICES ASSUME DNSStageInv, [StagesNext]_stageVars PROVE DNSStageInv'
    OBVIOUS
  <2>1. CASE stage = "dns"
    <3>1. DNSInv /\ stage' = stage BY <2>1 DEF DNSStageInv, StagesNext, stageVars
    <3>2. DNSNext \/ UNCHANGED <<pctx, dnsVars>> BY <2>1 DEF StagesNext, stageVars
    <3> QED BY <2>1, <3>1, <3>2, DNSStep, DNSStands DEF DNSStageInv
  <2>2. CASE stage # "dns"
    <3>1. UNCHANGED <<stage, dnsVars>> BY <2>2 DEF StagesNext, stageVars
    <3> QED BY <2>2, <3>1 DEF DNSStageInv, dnsVars
  <2> QED BY <2>1, <2>2
<1> QED BY <1>1, <1>2, PTL DEF StagesSpec

\* No root is probed by two sweeps of a run: the labels swept are marked, and a
\* sweep probes the roots of its label once (HasDNSVariantSweepLabel).
THEOREM VariantsProbedOnce == StagesSpec => []VariantProbedOnce
<1>1. DNSStageInv => VariantProbedOnce
  BY DEF DNSStageInv, DNSInv, ProbedInv, VariantProbedOnce
<1> QED BY <1>1, DNSInductive, PTL

\* Without a failed lookup a sweep puts every related root of its label to the
\* judge, but for what the preflight takes for absent and no record of the seed
\* refers to (observeVariantCandidateRoots, buildDNSCandidateEvidence).
THEOREM SweepIsComplete == StagesSpec => []SweepLosesNothing
<1>1. DNSStageInv => SweepLosesNothing
  <2> SUFFICES ASSUME DNSStageInv PROVE SweepLosesNothing
    OBVIOUS
  <2>1. ASSUME NEW l \in pctx.sweptLabels,
               dns.phase \in {"seeds", "returned"}, dnsHist.faults = 0, pctx.judge,
               dnsWorld.mode = "exhaustive"
        PROVE  \/ Related(l, dnsHist.sweeper[l]) = {}
               \/ \E j \in dnsHist.judged :
                     j.seed = dnsHist.sweeper[l] /\ Related(l, dnsHist.sweeper[l]) \subseteq j.roots
    <3>1. Accounted(l) BY <2>1 DEF DNSStageInv, DNSInv, SweptInv
    <3> QED BY <2>1, <3>1 DEF Accounted
  <2>2. \A l \in pctx.sweptLabels :
            /\ dnsHist.faults = 0 /\ pctx.judge /\ dnsWorld.mode = "exhaustive"
            /\ dns.phase \in {"seeds", "returned"}
            => \/ Related(l, dnsHist.sweeper[l]) = {}
               \/ \E j \in dnsHist.judged :
                     j.seed = dnsHist.sweeper[l] /\ Related(l, dnsHist.sweeper[l]) \subseteq j.roots
    BY <2>1
  <2> QED BY <2>2 DEF SweepLosesNothing, Related, SeedFacts, NamedBy
<1> QED BY <1>1, DNSInductive, PTL

\* A root the collector promotes is live and shares a fact with the seed whose
\* request named it, and is none of that seed's own roots.
THEOREM PromotionsAreCorroborated == StagesSpec => []PromotedIsCorroborated
<1>1. DNSStageInv => PromotedIsCorroborated
  BY DEF DNSStageInv, DNSInv, PromotedInv, PromotedIsCorroborated, Corroborated, SeedFacts
<1> QED BY <1>1, DNSInductive, PTL

-----------------------------------------------------------------------------
(* The sitemap collector.                                                  *)

SiteFields == {"phase", "seed", "targets", "queued", "seenDocs", "found", "seeds", "assets"}

\* A document that was parsed for the seed at hand is seen, and the limit holds.
SitemapInv ==
    /\ DOMAIN site = SiteFields
    /\ DOMAIN siteHist = {"parsed", "faults"} /\ DOMAIN siteHist.parsed = SiteDoc
    /\ IsFiniteSet(site.seenDocs) /\ Cardinality(site.seenDocs) <= MaxSitemapDocs
    /\ \A d \in SiteDoc : /\ siteHist.parsed[d] \in {0, 1}
                          /\ siteHist.parsed[d] = 1 => d \in site.seenDocs

\* What is parsed is counted in seenDocs.
LEMMA ParsedIsSeen ==
    ASSUME SitemapInv
    PROVE  DocumentParsedOnce
<1> DEFINE parsed == {d \in SiteDoc : siteHist.parsed[d] > 0}
<1>1. parsed \subseteq site.seenDocs BY DEF SitemapInv
<1>2. IsFiniteSet(site.seenDocs) BY DEF SitemapInv
<1>3. /\ IsFiniteSet(parsed) /\ Cardinality(parsed) <= Cardinality(site.seenDocs)
  BY <1>1, <1>2, FS_Subset
<1>4. Cardinality(parsed) \in Nat /\ Cardinality(site.seenDocs) \in Nat
  BY <1>2, <1>3, FS_CardinalityType
<1>5. Cardinality(parsed) <= MaxSitemapDocs
  BY <1>3, <1>4, SiteAssumption DEF SitemapInv, SiteAssumption
<1> QED BY <1>5 DEF DocumentParsedOnce, SitemapInv

\* A seed begins with nothing seen.
LEMMA SiteStartSeedKeeps ==
    ASSUME SitemapInv, NEW s, SiteStartSeed(s)
    PROVE  SitemapInv'
<1> DEFINE left == [site EXCEPT !.seeds = @ \ {s}]
<1>1. /\ site' = IF s.scope = {} THEN left ELSE NewSite(left, s)
      /\ siteHist' = [siteHist EXCEPT !.parsed = [d \in SiteDoc |-> 0]]
  BY DEF SiteStartSeed
<1>2. /\ DOMAIN siteHist' = {"parsed", "faults"}
      /\ siteHist'.parsed = [d \in SiteDoc |-> 0]
  BY <1>1 DEF SitemapInv
<1>3. DOMAIN left = SiteFields /\ left.seenDocs = site.seenDocs
  BY DEF SitemapInv, SiteFields
<1> HIDE DEF left
<1>4. CASE s.scope = {} BY <1>1, <1>2, <1>3, <1>4 DEF SitemapInv
<1>5. CASE s.scope # {}
  <2>1. DOMAIN site' = SiteFields /\ site'.seenDocs = {}
    BY <1>1, <1>3, <1>5 DEF NewSite, SiteFields
  <2>2. IsFiniteSet({}) /\ Cardinality({}) = 0 BY FS_EmptySet
  <2> QED BY <1>2, <2>1, <2>2, SiteAssumption DEF SitemapInv, SiteAssumption
<1> QED BY <1>4, <1>5

\* A document is fetched: only a new one is parsed, while the limit allows it.
LEMMA SiteFetchDocKeeps ==
    ASSUME SitemapInv, NEW failed \in BOOLEAN, SiteFetchDoc(failed)
    PROVE  SitemapInv'
<1> DEFINE doc == Head(site.queued)
           final == siteWorld[doc].final
           popped == [site EXCEPT !.queued = Tail(@)]
           skip == failed \/ final \in site.seenDocs
<1>1. /\ site' = IF skip THEN popped ELSE takeDocument(popped, doc)
      /\ siteHist' = [siteHist EXCEPT
            !.parsed[final] = IF skip THEN @ ELSE @ + 1,
            !.faults = IF failed THEN @ + 1 ELSE @]
      /\ Cardinality(site.seenDocs) < MaxSitemapDocs
  BY DEF SiteFetchDoc, CanFetchDoc, normalizedDoc
<1>2. DOMAIN popped = SiteFields /\ popped.seenDocs = site.seenDocs
  BY DEF SitemapInv, SiteFields
<1>3. /\ DOMAIN takeDocument(popped, doc) = SiteFields
      /\ takeDocument(popped, doc).seenDocs = site.seenDocs \cup {final}
  <2> DEFINE seen == popped.seenDocs \cup {final}
  <2> HIDE DEF popped
  <2>1. PICK queued, found :
           takeDocument(popped, doc)
              = [popped EXCEPT !.seenDocs = seen, !.queued = queued, !.found = found]
    BY DEF takeDocument, normalizedDoc
  <2> QED BY <1>2, <2>1 DEF SiteFields
<1> HIDE DEF popped, doc, final
<1>4. DOMAIN site' = SiteFields
  BY <1>1, <1>2, <1>3
<1>5. /\ DOMAIN siteHist' = {"parsed", "faults"} /\ DOMAIN siteHist'.parsed = SiteDoc
      /\ \A d \in SiteDoc :
            siteHist'.parsed[d] = IF d = final /\ ~skip THEN siteHist.parsed[d] + 1
                                                        ELSE siteHist.parsed[d]
  BY <1>1 DEF SitemapInv
<1>6. CASE skip BY <1>1, <1>2, <1>4, <1>5, <1>6 DEF SitemapInv
<1>7. CASE ~skip
  <2>1. site'.seenDocs = site.seenDocs \cup {final} BY <1>1, <1>3, <1>7
  <2>2. IsFiniteSet(site.seenDocs) /\ final \notin site.seenDocs BY <1>7 DEF SitemapInv
  <2>3. /\ IsFiniteSet(site'.seenDocs)
        /\ Cardinality(site'.seenDocs) = Cardinality(site.seenDocs) + 1
    BY <2>1, <2>2, FS_AddElement
  <2>4. Cardinality(site.seenDocs) \in Nat BY <2>2, FS_CardinalityType
  <2>5. Cardinality(site'.seenDocs) <= MaxSitemapDocs
    BY <1>1, <2>3, <2>4, SiteAssumption DEF SiteAssumption
  <2> QED BY <1>4, <1>5, <1>7, <2>1, <2>2, <2>3, <2>5 DEF SitemapInv
<1> QED BY <1>6, <1>7

\* Every other step leaves the documents alone.
LEMMA SiteNextKeeps ==
    ASSUME SitemapInv, SiteNext
    PROVE  SitemapInv'
<1>1. ASSUME DOMAIN site' = SiteFields, site'.seenDocs = site.seenDocs,
             UNCHANGED siteHist \/ \E n : siteHist' = [siteHist EXCEPT !.faults = n]
      PROVE  SitemapInv'
  BY <1>1 DEF SitemapInv
<1>2. DOMAIN site = SiteFields BY DEF SitemapInv
<1>3. CASE SiteProcess BY <1>1, <1>2, <1>3 DEF SiteProcess, SiteFields
<1>4. ASSUME NEW failed \in BOOLEAN, SiteTarget(failed) PROVE SitemapInv'
  <2>1. PICK queued : site' = [site EXCEPT !.targets = Tail(@), !.queued = queued]
    BY <1>4 DEF SiteTarget
  <2>2. \E n : siteHist' = [siteHist EXCEPT !.faults = n] BY <1>4 DEF SiteTarget
  <2> QED BY <1>1, <1>2, <2>1, <2>2 DEF SiteFields
<1>5. CASE SiteEndDocs BY <1>1, <1>2, <1>5 DEF SiteEndDocs, SiteFields
<1>6. CASE SiteJudgeFails BY <1>1, <1>2, <1>6 DEF SiteJudgeFails, SiteFields
<1>7. ASSUME NEW reply, NEW accepted, SiteJudged(reply, accepted) PROVE SitemapInv'
  BY <1>1, <1>2, <1>7 DEF SiteJudged, SiteFields
<1>8. CASE SiteReturn BY <1>1, <1>2, <1>8 DEF SiteReturn, SiteFields
<1> QED
  BY <1>3, <1>4, <1>5, <1>6, <1>7, <1>8, SiteStartSeedKeeps, SiteFetchDocKeeps DEF SiteNext

\* A document is parsed at most once for a seed, whatever indexes list it, and
\* no more than the limit are (SitemapCollector.Process).
THEOREM DocumentsParsedOnce == StagesSpec => []DocumentParsedOnce
<1>1. StagesInit => SitemapInv
  <2> SUFFICES ASSUME StagesInit PROVE SitemapInv
    OBVIOUS
  <2>1. /\ DOMAIN site = SiteFields /\ site.seenDocs = {}
        /\ siteHist = [parsed |-> [d \in SiteDoc |-> 0], faults |-> 0]
    BY DEF StagesInit, SiteInit, SiteFields
  <2>2. IsFiniteSet({}) /\ Cardinality({}) = 0 BY FS_EmptySet
  <2> QED BY <2>1, <2>2, SiteAssumption DEF SitemapInv, SiteAssumption
<1>2. SitemapInv /\ [StagesNext]_stageVars => SitemapInv'
  <2> SUFFICES ASSUME SitemapInv, [StagesNext]_stageVars PROVE SitemapInv'
    OBVIOUS
  <2>1. CASE SiteNext BY <2>1, SiteNextKeeps
  <2>2. CASE UNCHANGED siteVars BY <2>2 DEF SitemapInv, siteVars
  <2> QED BY <2>1, <2>2 DEF StagesNext, stageVars
<1> QED BY <1>1, <1>2, ParsedIsSeen, PTL DEF StagesSpec

-----------------------------------------------------------------------------
(* The AI search.                                                          *)

\* Induction over the numbers, for sets.
LEMMA Numbers ==
    ASSUME NEW T, 0 \in T, \A n \in Nat : n \in T => n + 1 \in T
    PROVE  Nat \subseteq T
<1> DEFINE R == OpToRel(<, Nat)
<1>1. IsWellFoundedOn(R, Nat) BY NatLessThanWellFounded
<1>2. \A m, n \in Nat : m < n => <<m, n>> \in R BY DEF OpToRel
<1> HIDE DEF R
<1> SUFFICES ASSUME Nat \ T # {} PROVE FALSE
  OBVIOUS
<1>3. PICK n \in Nat \ T : \A m \in Nat \ T : ~(<<m, n>> \in R) BY <1>1, WFMin
<1>4. n # 0 /\ n - 1 \in Nat /\ n - 1 < n /\ (n - 1) + 1 = n BY <1>3
<1>5. n - 1 \in T BY <1>2, <1>3, <1>4
<1> QED BY <1>3, <1>4, <1>5

NewPlan(found, candidates) ==
    [NoPlan EXCEPT !.candidates = {found[i].root : i \in candidates},
                   !.truncated = {found[i].root : i \in candidates \ selectedRoots(candidates)}]

\* The plan after each of the first n places.
PlanSteps(p, found, candidates, n) ==
    p = [i \in 0..n |->
            IF i = 0 THEN NewPlan(found, candidates)
            ELSE IF i \in selectedRoots(candidates) THEN PlanCandidate(p[i - 1], found[i].root)
            ELSE p[i - 1]]

LEMMA PlanStepsExist ==
    ASSUME NEW found, NEW candidates, NEW n \in Nat
    PROVE  \E p : PlanSteps(p, found, candidates, n)
<1> DEFINE T == {m \in Nat : \E p : PlanSteps(p, found, candidates, m)}
           next(p, i) == IF i \in selectedRoots(candidates)
                         THEN PlanCandidate(p[i - 1], found[i].root) ELSE p[i - 1]
<1>1. \A p, m : PlanSteps(p, found, candidates, m) <=>
         p = [i \in 0..m |-> IF i = 0 THEN NewPlan(found, candidates) ELSE next(p, i)]
  BY DEF PlanSteps
<1>2. \A p, q, i : p[i - 1] = q[i - 1] => next(p, i) = next(q, i) OBVIOUS
<1> HIDE DEF next
<1>3. 0 \in T
  <2> DEFINE p == [i \in 0..0 |-> NewPlan(found, candidates)]
  <2>1. p = [i \in 0..0 |-> IF i = 0 THEN NewPlan(found, candidates) ELSE next(p, i)]
    OBVIOUS
  <2>2. PlanSteps(p, found, candidates, 0) BY <1>1, <2>1
  <2> QED BY <2>2
<1>4. ASSUME NEW m \in Nat, m \in T PROVE m + 1 \in T
  <2>1. PICK p : p = [i \in 0..m |-> IF i = 0 THEN NewPlan(found, candidates) ELSE next(p, i)]
    BY <1>1, <1>4
  <2> DEFINE q == [i \in 0..(m + 1) |-> IF i = m + 1 THEN next(p, i) ELSE p[i]]
  <2>2. ASSUME NEW i \in 0..(m + 1)
        PROVE  q[i] = IF i = 0 THEN NewPlan(found, candidates) ELSE next(q, i)
    <3>1. CASE i = 0 BY <2>1, <3>1
    <3>2. CASE i # 0
      <4>1. q[i - 1] = p[i - 1] BY <3>2
      <4>2. next(q, i) = next(p, i) BY <1>2, <4>1
      <4>3. q[i] = next(p, i) BY <2>1, <3>2
      <4> QED BY <3>2, <4>2, <4>3
    <3> QED BY <3>1, <3>2
  <2>3. q = [i \in 0..(m + 1) |-> q[i]] OBVIOUS
  <2> HIDE DEF q
  <2>4. q = [i \in 0..(m + 1) |-> IF i = 0 THEN NewPlan(found, candidates) ELSE next(q, i)]
    BY <2>2, <2>3
  <2> QED BY <1>1, <2>4
<1>5. Nat \subseteq T
  <2> HIDE DEF T
  <2> QED BY <1>3, <1>4, Numbers
<1> QED BY <1>5

\* buildJudgeRequests goes through the places one by one.
LEMMA PlanUnfolds ==
    ASSUME NEW found, NEW candidates, Len(found) \in Nat
    PROVE  \E p : /\ PlanSteps(p, found, candidates, Len(found))
                  /\ buildJudgeRequests(found, candidates) = Flush(p[Len(found)])
<1> DEFINE p == CHOOSE x : PlanSteps(x, found, candidates, Len(found))
<1>1. \E x : PlanSteps(x, found, candidates, Len(found)) BY PlanStepsExist
<1>2. PlanSteps(p, found, candidates, Len(found)) BY <1>1
<1>3. buildJudgeRequests(found, candidates) = Flush(p[Len(found)])
  BY Zenon DEF buildJudgeRequests, PlanSteps, NewPlan
<1> QED BY <1>2, <1>3

\* The roots dealt with so far are each in one request, or skipped.
PlanOK(plan, done) ==
    /\ DOMAIN plan = {"candidates", "truncated", "skipped", "requests", "current"}
    /\ plan.requests \in Seq(Seq(SearchRoot)) /\ plan.current \in Seq(SearchRoot)
    /\ \A r : r \in done <=> \/ r \in Range(plan.current) \cup plan.skipped
                            \/ \E k \in DOMAIN plan.requests : r \in Range(plan.requests[k])
    /\ Range(plan.current) \cap plan.skipped = {}
    /\ \A k \in DOMAIN plan.requests :
          /\ Range(plan.requests[k]) \cap (Range(plan.current) \cup plan.skipped) = {}
          /\ \A m \in DOMAIN plan.requests :
                k # m => Range(plan.requests[k]) \cap Range(plan.requests[m]) = {}
          /\ Fits(plan.requests[k])
    /\ plan.current # <<>> => Fits(plan.current)
    /\ \A r \in plan.skipped : ~Fits(<<r>>)

LEMMA RangeAppends ==
    ASSUME NEW S, NEW s \in Seq(S), NEW x \in S
    PROVE  Append(s, x) \in Seq(S) /\ Range(Append(s, x)) = Range(s) \cup {x}
<1>1. /\ Append(s, x) \in Seq(S) /\ DOMAIN Append(s, x) = 1..(Len(s) + 1)
      /\ DOMAIN s = 1..Len(s) /\ Len(s) \in Nat
      /\ \A i \in 1..Len(s) : Append(s, x)[i] = s[i]
      /\ Append(s, x)[Len(s) + 1] = x
  OBVIOUS
<1>2. \A i \in 1..(Len(s) + 1) : i = Len(s) + 1 \/ i \in 1..Len(s) BY <1>1
<1> QED BY <1>1, <1>2 DEF Range

\* The request at hand is closed.
LEMMA FlushKeeps ==
    ASSUME NEW plan, NEW done, PlanOK(plan, done)
    PROVE  LET new == Flush(plan)
           IN  /\ PlanOK(new, done) /\ new.current = <<>>
               /\ new.candidates = plan.candidates /\ new.truncated = plan.truncated
               /\ new.skipped = plan.skipped
<1> DEFINE new == Flush(plan)
<1>1. CASE plan.current = <<>> BY <1>1 DEF Flush
<1>2. CASE plan.current # <<>>
  <2>1. new = [plan EXCEPT !.requests = Append(@, plan.current), !.current = <<>>]
    BY <1>2 DEF Flush
  <2>2. /\ DOMAIN new = DOMAIN plan /\ new.requests = Append(plan.requests, plan.current)
        /\ new.current = <<>> /\ new.candidates = plan.candidates
        /\ new.truncated = plan.truncated /\ new.skipped = plan.skipped
    BY <2>1 DEF PlanOK
  <2> HIDE DEF new
  <2> DEFINE n == Len(plan.requests)
  <2>3. /\ n \in Nat /\ DOMAIN plan.requests = 1..n /\ DOMAIN new.requests = 1..(n + 1)
        /\ new.requests \in Seq(Seq(SearchRoot))
        /\ \A k \in 1..n : new.requests[k] = plan.requests[k]
        /\ new.requests[n + 1] = plan.current
    BY <2>2 DEF PlanOK
  <2>4. Range(<<>>) = {} BY DEF Range
  <2>5. <<>> \in Seq(SearchRoot) OBVIOUS
  <2>6. \A k \in 1..(n + 1) : k \in 1..n \/ k = n + 1 BY <2>3
  <2> HIDE DEF n
  <2>7. \A r : (\E k \in 1..(n + 1) : r \in Range(new.requests[k]))
                 <=> (\E k \in 1..n : r \in Range(plan.requests[k])) \/ r \in Range(plan.current)
    <3>1. 1..n \subseteq 1..(n + 1) /\ n + 1 \in 1..(n + 1) BY <2>3
    <3> QED BY <2>3, <2>6, <3>1
  <2>8. ASSUME NEW k \in 1..(n + 1)
        PROVE  /\ Range(new.requests[k]) \cap new.skipped = {}
               /\ \A m \in 1..(n + 1) :
                     k # m => Range(new.requests[k]) \cap Range(new.requests[m]) = {}
               /\ Fits(new.requests[k])
    <3>1. CASE k \in 1..n BY <2>2, <2>3, <2>6, <3>1 DEF PlanOK
    <3>2. CASE k = n + 1 BY <1>2, <2>2, <2>3, <2>6, <3>2 DEF PlanOK
    <3> QED BY <2>6, <3>1, <3>2
  <2>9. PlanOK(new, done) BY <2>2, <2>3, <2>4, <2>5, <2>7, <2>8 DEF PlanOK
  <2> QED BY <2>2, <2>9 DEF new
<1> QED BY <1>1, <1>2

\* One more candidate.
LEMMA PlanCandidateKeeps ==
    ASSUME NEW plan, NEW done, PlanOK(plan, done), NEW r \in SearchRoot, r \notin done
    PROVE  LET new == PlanCandidate(plan, r)
           IN  /\ PlanOK(new, done \cup {r})
               /\ new.candidates = plan.candidates /\ new.truncated = plan.truncated
<1> DEFINE new == PlanCandidate(plan, r)
<1>1. ASSUME NEW p, PlanOK(p, done), NEW s \in Seq(SearchRoot),
             Range(s) = Range(p.current) \cup {r}, Fits(s)
      PROVE  PlanOK([p EXCEPT !.current = s], done \cup {r})
  <2> DEFINE q == [p EXCEPT !.current = s]
  <2>1. /\ DOMAIN q = DOMAIN p /\ q.current = s /\ q.requests = p.requests
        /\ q.skipped = p.skipped
    BY <1>1 DEF PlanOK
  <2> HIDE DEF q
  <2>2. PlanOK(q, done \cup {r}) BY <1>1, <2>1 DEF PlanOK
  <2> QED BY <2>2 DEF q
<1>2. CASE Fits(Append(plan.current, r))
  <2>1. new = [plan EXCEPT !.current = Append(plan.current, r)] BY <1>2 DEF PlanCandidate
  <2> DEFINE s == Append(plan.current, r)
  <2>2. /\ s \in Seq(SearchRoot) /\ Range(s) = Range(plan.current) \cup {r} /\ Fits(s)
    BY <1>2, RangeAppends DEF PlanOK
  <2> HIDE DEF s
  <2>3. PlanOK([plan EXCEPT !.current = s], done \cup {r}) BY <1>1, <2>2
  <2>4. new.candidates = plan.candidates /\ new.truncated = plan.truncated
    BY <2>1
  <2> QED BY <2>1, <2>3, <2>4 DEF s
<1> DEFINE flushed == Flush(plan)
<1>3. /\ PlanOK(flushed, done) /\ flushed.current = <<>>
      /\ flushed.candidates = plan.candidates /\ flushed.truncated = plan.truncated
  BY FlushKeeps
<1> HIDE DEF flushed
<1>4. Range(<<r>>) = {r} /\ Range(<<>>) = {} /\ <<r>> \in Seq(SearchRoot)
  BY DEF Range
<1>5. CASE ~Fits(Append(plan.current, r)) /\ Fits(<<r>>)
  <2>1. new = [flushed EXCEPT !.current = <<r>>] BY <1>5 DEF PlanCandidate, flushed
  <2>2. PlanOK(new, done \cup {r}) BY <1>1, <1>3, <1>4, <1>5, <2>1
  <2>3. new.candidates = plan.candidates /\ new.truncated = plan.truncated
    BY <1>3, <2>1 DEF PlanOK
  <2> QED BY <2>2, <2>3
<1>6. CASE ~Fits(Append(plan.current, r)) /\ ~Fits(<<r>>)
  <2>1. new = [flushed EXCEPT !.skipped = @ \cup {r}] BY <1>6 DEF PlanCandidate, flushed
  <2>2. /\ DOMAIN new = DOMAIN flushed /\ new.current = <<>>
        /\ new.requests = flushed.requests /\ new.skipped = flushed.skipped \cup {r}
        /\ new.candidates = plan.candidates /\ new.truncated = plan.truncated
    BY <1>3, <2>1 DEF PlanOK
  <2> HIDE DEF new
  <2>3. \A q \in new.skipped : ~Fits(<<q>>) BY <1>3, <1>6, <2>2 DEF PlanOK
  <2>4. Range(new.current) = {} /\ new.current \in Seq(SearchRoot) BY <1>3, <1>4, <2>2 DEF PlanOK
  <2>5. /\ \A q : q \in done \cup {r} <=>
              \/ q \in Range(new.current) \cup new.skipped
              \/ \E k \in DOMAIN new.requests : q \in Range(new.requests[k])
        /\ \A k \in DOMAIN new.requests :
              Range(new.requests[k]) \cap (Range(new.current) \cup new.skipped) = {}
    BY <1>3, <1>4, <2>2, <2>4 DEF PlanOK
  <2>6. PlanOK(new, done \cup {r}) BY <1>3, <2>2, <2>3, <2>4, <2>5 DEF PlanOK
  <2> QED BY <2>2, <2>6 DEF new
<1> QED BY <1>2, <1>5, <1>6

Distinct(found, places) ==
    /\ places \subseteq DOMAIN found
    /\ \A i, j \in places : i # j => found[i].root # found[j].root

\* The plan of a search.
LEMMA PlanIsSound ==
    ASSUME NEW found \in Seq([root : SearchRoot, good : BOOLEAN]), NEW candidates,
           Distinct(found, candidates)
    PROVE  LET plan == buildJudgeRequests(found, candidates)
               judged == selectedRoots(candidates)
           IN  /\ PlanOK(plan, {found[i].root : i \in judged}) /\ plan.current = <<>>
               /\ plan.candidates = {found[i].root : i \in candidates}
               /\ plan.truncated = {found[i].root : i \in candidates \ judged}
<1> DEFINE judged == selectedRoots(candidates)
           n == Len(found)
           done(k) == {found[i].root : i \in judged \cap (1..k)}
<1>1. n \in Nat /\ DOMAIN found = 1..n OBVIOUS
<1>2. \A i \in 1..n : found[i].root \in SearchRoot
  <2> DEFINE Hits == [root : SearchRoot, good : BOOLEAN]
  <2>1. found \in Seq(Hits) OBVIOUS
  <2>2. \A hit \in Hits : hit.root \in SearchRoot OBVIOUS
  <2> HIDE DEF Hits, n
  <2>3. \A i \in 1..n : found[i] \in Hits BY <2>1 DEF n
  <2> QED BY <2>2, <2>3
<1>3. judged \subseteq candidates BY DEF selectedRoots, FirstPlaces
<1>4. candidates \subseteq 1..n /\ \A i, j \in candidates : i # j => found[i].root # found[j].root
  BY <1>1 DEF Distinct
<1>5. PICK p : /\ PlanSteps(p, found, candidates, n)
               /\ buildJudgeRequests(found, candidates) = Flush(p[n])
  BY <1>1, PlanUnfolds
<1>6. /\ p[0] = NewPlan(found, candidates)
      /\ \A i \in 1..n : p[i] = IF i \in judged THEN PlanCandidate(p[i - 1], found[i].root)
                                ELSE p[i - 1]
  <2> HIDE DEF n, judged
  <2>1. p = [i \in 0..n |->
               IF i = 0 THEN NewPlan(found, candidates)
               ELSE IF i \in judged THEN PlanCandidate(p[i - 1], found[i].root)
               ELSE p[i - 1]]
    BY <1>5 DEF PlanSteps, n, judged
  <2>2. 0 \in 0..n /\ \A i \in 1..n : i \in 0..n /\ i # 0 BY <1>1
  <2>3. p[0] = NewPlan(found, candidates) BY <2>1, <2>2
  <2>4. ASSUME NEW i \in 1..n
        PROVE  p[i] = IF i \in judged THEN PlanCandidate(p[i - 1], found[i].root) ELSE p[i - 1]
    BY <2>1, <2>2
  <2> QED BY <2>3, <2>4
<1> DEFINE sound(k) == /\ PlanOK(p[k], done(k))
                       /\ p[k].candidates = {found[i].root : i \in candidates}
                       /\ p[k].truncated = {found[i].root : i \in candidates \ judged}
           T == {k \in Nat : k <= n => sound(k)}
<1>7. 0 \in T
  <2>1. /\ DOMAIN p[0] = {"candidates", "truncated", "skipped", "requests", "current"}
        /\ p[0].requests = <<>> /\ p[0].current = <<>> /\ p[0].skipped = {}
        /\ p[0].candidates = {found[i].root : i \in candidates}
        /\ p[0].truncated = {found[i].root : i \in candidates \ judged}
    BY <1>6 DEF NewPlan, NoPlan
  <2>2. Range(<<>>) = {} BY DEF Range
  <2>3. done(0) = {} OBVIOUS
  <2>4. <<>> \in Seq(SearchRoot) /\ <<>> \in Seq(Seq(SearchRoot)) OBVIOUS
  <2>5. PlanOK(p[0], {}) BY <2>1, <2>2, <2>4 DEF PlanOK
  <2> QED BY <2>1, <2>3, <2>5
<1>8. ASSUME NEW k \in Nat, k \in T PROVE k + 1 \in T
  <2> SUFFICES ASSUME k + 1 <= n PROVE sound(k + 1)
    OBVIOUS
  <2>1. sound(k) /\ k + 1 \in 1..n /\ (k + 1) - 1 = k BY <1>1, <1>8
  <2> DEFINE r == found[k + 1].root
  <2>2. p[k + 1] = IF k + 1 \in judged THEN PlanCandidate(p[k], r) ELSE p[k]
    BY <1>6, <2>1
  <2>3. \A i \in 1..(k + 1) : i = k + 1 \/ i \in 1..k OBVIOUS
  <2>4. CASE k + 1 \in judged
    <3>1. done(k + 1) = done(k) \cup {r} BY <2>3, <2>4
    <3>2. r \in SearchRoot BY <1>2, <2>1
    <3>3. r \notin done(k) BY <1>3, <1>4, <2>4
    <3> HIDE DEF r, done
    <3>4. /\ PlanOK(p[k + 1], done(k) \cup {r})
          /\ p[k + 1].candidates = p[k].candidates /\ p[k + 1].truncated = p[k].truncated
      <4> DEFINE q == p[k]
                 some == done(k)
      <4>1. PlanOK(q, some) BY <2>1
      <4> HIDE DEF q, some
      <4>2. r \in SearchRoot /\ r \notin some BY <3>2, <3>3 DEF some
      <4>3. /\ PlanOK(PlanCandidate(q, r), some \cup {r})
            /\ PlanCandidate(q, r).candidates = q.candidates
            /\ PlanCandidate(q, r).truncated = q.truncated
        BY <4>1, <4>2, PlanCandidateKeeps
      <4>4. p[k + 1] = PlanCandidate(q, r) BY <2>2, <2>4 DEF q
      <4> QED BY <4>3, <4>4 DEF q, some
    <3> QED BY <2>1, <3>1, <3>4
  <2>5. CASE k + 1 \notin judged
    <3>1. done(k + 1) = done(k) BY <2>3, <2>5
    <3> HIDE DEF done
    <3> QED BY <2>1, <2>2, <2>5, <3>1
  <2> QED BY <2>4, <2>5
<1>9. sound(n)
  <2>1. Nat \subseteq T
    <3> HIDE DEF T
    <3> QED BY <1>7, <1>8, Numbers
  <2> HIDE DEF sound
  <2> QED BY <1>1, <2>1
<1>10. done(n) = {found[i].root : i \in judged} BY <1>3, <1>4
<1> HIDE DEF n, judged, done
<1> QED BY <1>5, <1>9, <1>10, FlushKeeps DEF judged

\* BatchesCoverCandidates of any plan.
Covers(plan) ==
    LET asked(r) == Cardinality({i \in DOMAIN plan.requests : r \in Range(plan.requests[i])})
    IN  /\ \A r \in plan.candidates :
              IF asked(r) = 0
              THEN \/ r \in plan.truncated
                   \/ r \in plan.skipped /\ ~Fits(<<r>>)
              ELSE asked(r) = 1 /\ r \notin plan.truncated \cup plan.skipped
        /\ \A i \in DOMAIN plan.requests : Fits(plan.requests[i])

LEMMA PlanCovers ==
    ASSUME NEW found \in Seq([root : SearchRoot, good : BOOLEAN]), NEW candidates,
           Distinct(found, candidates), NEW plan, plan = buildJudgeRequests(found, candidates)
    PROVE  Covers(plan)
<1> DEFINE judged == selectedRoots(candidates)
           done == {found[i].root : i \in judged}
           requests(r) == {i \in DOMAIN plan.requests : r \in Range(plan.requests[i])}
<1>1. /\ PlanOK(plan, done) /\ plan.current = <<>>
      /\ plan.candidates = {found[i].root : i \in candidates}
      /\ plan.truncated = {found[i].root : i \in candidates \ judged}
  BY PlanIsSound
<1>2. judged \subseteq candidates BY DEF selectedRoots, FirstPlaces
<1>3. \A i, j \in candidates : i # j => found[i].root # found[j].root BY DEF Distinct
<1>4. \A r \in plan.candidates : r \in done <=> r \notin plan.truncated BY <1>1, <1>2, <1>3
<1>5. Range(<<>>) = {} BY DEF Range
<1> HIDE DEF done, judged
<1>6. ASSUME NEW r \in plan.candidates
      PROVE  IF Cardinality(requests(r)) = 0
             THEN \/ r \in plan.truncated
                  \/ r \in plan.skipped /\ ~Fits(<<r>>)
             ELSE Cardinality(requests(r)) = 1 /\ r \notin plan.truncated \cup plan.skipped
  <2>1. CASE r \notin done \/ r \in plan.skipped
    <3>1. requests(r) = {} BY <1>1, <2>1 DEF PlanOK
    <3>2. Cardinality(requests(r)) = 0 BY <3>1, FS_EmptySet
    <3>3. r \in plan.truncated \/ r \in plan.skipped BY <1>4, <2>1
    <3>4. r \in plan.skipped => ~Fits(<<r>>) BY <1>1 DEF PlanOK
    <3> HIDE DEF requests
    <3> QED BY <3>2, <3>3, <3>4
  <2>2. CASE r \in done /\ r \notin plan.skipped
    <3>1. PICK k \in DOMAIN plan.requests : r \in Range(plan.requests[k])
      BY <1>1, <1>5, <2>2 DEF PlanOK
    <3>2. requests(r) = {k} BY <1>1, <3>1 DEF PlanOK
    <3>3. Cardinality(requests(r)) = 1 BY <3>2, FS_Singleton
    <3>4. r \notin plan.truncated BY <1>4, <2>2
    <3> HIDE DEF requests
    <3> QED BY <2>2, <3>3, <3>4
  <2> QED BY <2>1, <2>2
<1>7. \A i \in DOMAIN plan.requests : Fits(plan.requests[i]) BY <1>1 DEF PlanOK
<1> QED BY <1>6, <1>7 DEF Covers

\* What normalizeSearchResult leaves, and the filter leaves of that, are roots
\* named once.
LEMMA FilterIsDistinct ==
    ASSUME NEW found \in Seq([root : SearchRoot, good : BOOLEAN]), NEW seed, NEW executed
    PROVE  /\ Distinct(found, filterAISearchCandidates(seed, executed, found))
           /\ \A i \in filterAISearchCandidates(seed, executed, found) :
                 found[i].root \notin JudgedRoots(seed)
<1>1. DOMAIN found = 1..Len(found) /\ Len(found) \in Nat OBVIOUS
<1>2. \A i \in normalizeSearchResult(found) :
         /\ i \in DOMAIN found /\ found[i].good
         /\ \A j \in DOMAIN found : j < i /\ found[j].good => found[j].root # found[i].root
  BY DEF normalizeSearchResult, FirstPlaces
<1>3. \A i, j \in normalizeSearchResult(found) : i # j => found[i].root # found[j].root
  <2> SUFFICES ASSUME NEW i \in normalizeSearchResult(found),
                      NEW j \in normalizeSearchResult(found), i # j
               PROVE  found[i].root # found[j].root
    OBVIOUS
  <2>1. i \in 1..Len(found) /\ j \in 1..Len(found) BY <1>1, <1>2
  <2>2. i < j \/ j < i BY <1>1, <2>1
  <2> QED BY <1>1, <1>2, <2>1, <2>2
<1> QED BY <1>2, <1>3 DEF filterAISearchCandidates, Distinct

-----------------------------------------------------------------------------

ExpFields == {"phase", "wave", "extra", "todo", "executed", "evals", "pending", "seed",
              "plan", "requests", "groups", "errors"}

\* Only roots of the world are searched, judged and reconsidered.
ExpShape ==
    /\ DOMAIN exp = ExpFields
    /\ exp.phase # "idle" => expWorld \in SearchWorld
    /\ \A f \in exp.todo : f[2] \in SearchRoot
    /\ exp.pending \subseteq SearchRoot
    /\ \A g \in exp.groups : g[2] \subseteq SearchRoot

EvalsInv ==
    /\ exp.evals \in Seq(Range(exp.evals))
    /\ \A e \in Range(exp.evals) :
          /\ DOMAIN e.outcomes \subseteq SearchRoot
          /\ \A r \in DOMAIN e.outcomes : e.outcomes[r].collect \in BOOLEAN

\* The requests to come name no root twice, and none that was decided on for the seed.
RequestsInv ==
    exp.phase = "judge" =>
        /\ exp.requests \in Seq(Seq(SearchRoot))
        /\ \A k \in DOMAIN exp.requests :
              /\ \A m \in DOMAIN exp.requests :
                    k # m => Range(exp.requests[k]) \cap Range(exp.requests[m]) = {}
              /\ \A e \in Range(exp.evals) :
                    e.seed = exp.seed.id => DOMAIN e.outcomes \cap Range(exp.requests[k]) = {}

ExpInv ==
    /\ ExpShape /\ EvalsInv /\ RequestsInv
    /\ BatchesCoverCandidates /\ NotAskedAgain
    /\ exp.phase = "idle" => exp.evals = <<>>

LEMMA CoversPlan == BatchesCoverCandidates <=> Covers(exp.plan)
BY DEF BatchesCoverCandidates, Covers

LEMMA NothingCovered == Covers(NoPlan)
<1>1. NoPlan.candidates = {} /\ NoPlan.requests = <<>> BY DEF NoPlan
<1> QED BY <1>1 DEF Covers

\* One more evaluation on record.
LEMMA EvaluationAdded ==
    ASSUME NEW s, s \in Seq(Range(s)), NEW e
    PROVE  /\ Append(s, e) \in Seq(Range(Append(s, e)))
           /\ Range(Append(s, e)) = Range(s) \cup {e}
           /\ Len(s) \in Nat /\ DOMAIN s = 1..Len(s)
           /\ DOMAIN Append(s, e) = 1..(Len(s) + 1)
           /\ \A i \in 1..Len(s) : Append(s, e)[i] = s[i]
           /\ Append(s, e)[Len(s) + 1] = e
<1> DEFINE S == Range(s) \cup {e}
<1>1. s \in Seq(S) /\ e \in S
  <2>1. Len(s) \in Nat /\ \A i \in 1..Len(s) : s[i] \in Range(s) OBVIOUS
  <2>2. s = [i \in 1..Len(s) |-> s[i]] OBVIOUS
  <2>3. \A i \in 1..Len(s) : s[i] \in S BY <2>1
  <2> HIDE DEF S
  <2>4. [i \in 1..Len(s) |-> s[i]] \in Seq(S) BY <2>1, <2>3
  <2>5. e \in S BY DEF S
  <2> QED BY <2>2, <2>4, <2>5
<1> HIDE DEF S
<1>2. Append(s, e) \in Seq(S) /\ Range(Append(s, e)) = Range(s) \cup {e} BY <1>1, RangeAppends
<1>3. Range(Append(s, e)) = S BY <1>2 DEF S
<1>4. /\ Len(s) \in Nat /\ DOMAIN s = 1..Len(s)
      /\ DOMAIN Append(s, e) = 1..(Len(s) + 1)
      /\ \A i \in 1..Len(s) : Append(s, e)[i] = s[i]
      /\ Append(s, e)[Len(s) + 1] = e
  BY <1>1
<1> QED BY <1>2, <1>3, <1>4

\* A search that answers: its requests are about roots nobody has decided on.
LEMMA AISearchRootKeeps ==
    ASSUME ExpInv, NEW f \in exp.todo, NEW answers \in BOOLEAN, AISearchRoot(f, answers)
    PROVE  ExpInv'
<1> DEFINE found == expWorld.found[f[2]]
           executed == exp.executed \cup {f[2]}
           candidates == filterAISearchCandidates(f[1], executed, found)
           plan == buildJudgeRequests(found, candidates)
<1>0. ExpShape /\ EvalsInv /\ RequestsInv /\ BatchesCoverCandidates /\ NotAskedAgain BY DEF ExpInv
<1>1. /\ exp.phase = "search" /\ UNCHANGED <<expWorld, pctx>>
      /\ \/ exp' = [exp EXCEPT !.todo = @ \ {f}]
         \/ exp' = [exp EXCEPT !.todo = @ \ {f}, !.executed = executed, !.errors = @ + 1]
         \/ exp' = [exp EXCEPT !.todo = @ \ {f}, !.executed = executed, !.phase = "judge",
                               !.seed = f[1], !.plan = plan, !.requests = plan.requests]
  BY DEF AISearchRoot
<1>2. /\ expWorld \in SearchWorld /\ f[2] \in SearchRoot BY <1>0, <1>1 DEF ExpShape
<1>3. found \in Seq([root : SearchRoot, good : BOOLEAN])
  BY <1>2, SearchAssumption DEF SearchAssumption
<1>4. /\ Distinct(found, candidates)
      /\ \A i \in candidates : found[i].root \notin JudgedRoots(f[1])
  BY <1>3, FilterIsDistinct
<1>5. Covers(plan) BY <1>3, <1>4, PlanCovers
<1>6. PlanOK(plan, {found[i].root : i \in selectedRoots(candidates)})
  BY <1>3, <1>4, PlanIsSound
<1>7. selectedRoots(candidates) \subseteq candidates BY DEF selectedRoots, FirstPlaces
<1>8. ASSUME NEW k \in DOMAIN plan.requests, NEW e \in Range(exp.evals), e.seed = f[1].id
      PROVE  DOMAIN e.outcomes \cap Range(plan.requests[k]) = {}
  <2> SUFFICES ASSUME NEW r \in DOMAIN e.outcomes, r \in Range(plan.requests[k]) PROVE FALSE
    OBVIOUS
  <2>1. PICK i \in candidates : r = found[i].root
    <3> DEFINE done == {found[i].root : i \in selectedRoots(candidates)}
    <3>1. PlanOK(plan, done) BY <1>6
    <3> HIDE DEF plan, done
    <3>2. r \in done BY <3>1 DEF PlanOK
    <3> QED BY <1>7, <3>2 DEF done
  <2>2. e.outcomes[r].collect \in BOOLEAN BY <1>0 DEF EvalsInv
  <2>3. r \in JudgedRoots(f[1]) BY <1>8, <2>2 DEF JudgedRoots, Outcomes
  <2> QED BY <1>4, <2>1, <2>3
<1> HIDE DEF found, executed, candidates, plan
<1>9. CASE exp' = [exp EXCEPT !.todo = @ \ {f}]
           \/ exp' = [exp EXCEPT !.todo = @ \ {f}, !.executed = executed, !.errors = @ + 1]
  <2>1. /\ DOMAIN exp' = DOMAIN exp
        /\ \A x \in ExpFields \ {"todo", "executed", "errors"} : exp'[x] = exp[x]
        /\ exp'.todo = exp.todo \ {f}
    BY <1>0, <1>9 DEF ExpShape, ExpFields
  <2>2. /\ exp'.phase = exp.phase /\ exp'.pending = exp.pending /\ exp'.groups = exp.groups
        /\ exp'.evals = exp.evals /\ exp'.seed = exp.seed /\ exp'.requests = exp.requests
        /\ exp'.plan = exp.plan
    BY <2>1 DEF ExpFields
  <2> QED
    BY <1>0, <1>1, <2>1, <2>2
       DEF ExpInv, ExpShape, EvalsInv, RequestsInv, BatchesCoverCandidates, NotAskedAgain
<1>10. CASE exp' = [exp EXCEPT !.todo = @ \ {f}, !.executed = executed, !.phase = "judge",
                               !.seed = f[1], !.plan = plan, !.requests = plan.requests]
  <2>1. /\ DOMAIN exp' = DOMAIN exp /\ exp'.todo = exp.todo \ {f} /\ exp'.phase = "judge"
        /\ exp'.pending = exp.pending /\ exp'.groups = exp.groups
        /\ exp'.evals = exp.evals /\ exp'.seed = f[1] /\ exp'.requests = plan.requests
        /\ exp'.plan = plan
    BY <1>0, <1>10 DEF ExpShape, ExpFields
  <2>2. ExpShape' BY <1>0, <1>1, <1>2, <2>1 DEF ExpShape
  <2>3. EvalsInv' /\ NotAskedAgain' BY <1>0, <2>1 DEF EvalsInv, NotAskedAgain
  <2>4. RequestsInv' BY <1>6, <1>8, <2>1 DEF RequestsInv, PlanOK
  <2>5. BatchesCoverCandidates' BY <1>5, <2>1 DEF BatchesCoverCandidates, Covers
  <2> QED BY <2>1, <2>2, <2>3, <2>4, <2>5 DEF ExpInv
<1> QED BY <1>1, <1>9, <1>10


LEMMA RequestDropped ==
    ASSUME NEW s, NEW S, s \in Seq(S), s # <<>>
    PROVE  /\ Tail(s) \in Seq(S) /\ Head(s) = s[1] /\ 1 \in DOMAIN s
           /\ \A k \in DOMAIN Tail(s) : k + 1 \in DOMAIN s /\ Tail(s)[k] = s[k + 1] /\ k + 1 # 1
           /\ \A k, m \in DOMAIN Tail(s) : k # m => k + 1 # m + 1
BY SMT

\* A request that is dropped.
LEMMA AIJudgeFailsKeeps ==
    ASSUME ExpInv, AIJudgeFails PROVE ExpInv'
<1>1. ExpShape /\ EvalsInv /\ RequestsInv /\ BatchesCoverCandidates /\ NotAskedAgain BY DEF ExpInv
<1>2. /\ exp.phase = "judge" /\ exp.requests # <<>> /\ UNCHANGED expWorld
      /\ exp' = [exp EXCEPT !.requests = Tail(@), !.errors = @ + 1]
  BY DEF AIJudgeFails
<1>3. /\ DOMAIN exp' = DOMAIN exp /\ exp'.requests = Tail(exp.requests)
      /\ exp'.phase = exp.phase /\ exp'.pending = exp.pending /\ exp'.groups = exp.groups
      /\ exp'.evals = exp.evals /\ exp'.seed = exp.seed /\ exp'.todo = exp.todo
      /\ exp'.plan = exp.plan
  BY <1>1, <1>2 DEF ExpShape, ExpFields
<1>4. ExpShape' /\ EvalsInv' /\ BatchesCoverCandidates' /\ NotAskedAgain'
  BY <1>1, <1>2, <1>3 DEF ExpShape, EvalsInv, BatchesCoverCandidates, NotAskedAgain
<1>5. RequestsInv'
  <2>1. exp.requests \in Seq(Seq(SearchRoot)) BY <1>1, <1>2 DEF RequestsInv
  <2> DEFINE old == exp.requests
             new == Tail(old)
  <2>2. /\ new \in Seq(Seq(SearchRoot))
        /\ \A k \in DOMAIN new : k + 1 \in DOMAIN old /\ new[k] = old[k + 1]
        /\ \A k, m \in DOMAIN new : k # m => k + 1 # m + 1
    BY <1>2, <2>1, RequestDropped
  <2>3. exp'.requests = new BY <1>3
  <2> HIDE DEF new
  <2>4. /\ \A k, m \in DOMAIN old : k # m => Range(old[k]) \cap Range(old[m]) = {}
        /\ \A k \in DOMAIN old : \A e \in Range(exp.evals) :
              e.seed = exp.seed.id => DOMAIN e.outcomes \cap Range(old[k]) = {}
    BY <1>1, <1>2 DEF RequestsInv
  <2>5. /\ \A k, m \in DOMAIN new : k # m => Range(new[k]) \cap Range(new[m]) = {}
        /\ \A k \in DOMAIN new : \A e \in Range(exp.evals) :
              e.seed = exp.seed.id => DOMAIN e.outcomes \cap Range(new[k]) = {}
    BY <2>2, <2>4
  <2> QED BY <1>3, <2>2, <2>3, <2>5 DEF RequestsInv
<1> QED BY <1>2, <1>3, <1>4, <1>5 DEF ExpInv

\* The judge's reply to a request: no root of it was decided on for the seed.
LEMMA AIJudgedKeeps ==
    ASSUME ExpInv, exp.requests # <<>>, NEW reply \in Replies(AIRequest),
           NEW accepted \in SUBSET AIRequest, AIJudged(reply, accepted)
    PROVE  ExpInv'
<1> DEFINE outcomes == EvaluateCandidates(AIRequest, reply)
           added == [by |-> "ai_search", seed |-> exp.seed.id, outcomes |-> outcomes]
<1>1. ExpShape /\ EvalsInv /\ RequestsInv /\ BatchesCoverCandidates /\ NotAskedAgain BY DEF ExpInv
<1>2. /\ exp.phase = "judge" /\ UNCHANGED expWorld
      /\ exp' = [exp EXCEPT !.requests = Tail(@), !.evals = Append(@, added),
                    !.pending = IF Schedules THEN @ \cup (accepted \ pctx.known) ELSE @]
  BY DEF AIJudged
<1>3. /\ DOMAIN exp' = DOMAIN exp /\ exp'.requests = Tail(exp.requests)
      /\ exp'.phase = exp.phase /\ exp'.groups = exp.groups
      /\ exp'.evals = Append(exp.evals, added) /\ exp'.seed = exp.seed /\ exp'.todo = exp.todo
      /\ exp'.plan = exp.plan
      /\ exp'.pending \subseteq exp.pending \cup accepted
  BY <1>1, <1>2 DEF ExpShape, ExpFields
<1>4. exp.requests \in Seq(Seq(SearchRoot)) BY <1>1, <1>2 DEF RequestsInv
<1> DEFINE old == exp.requests
           new == Tail(old)
<1>5. /\ new \in Seq(Seq(SearchRoot)) /\ Head(old) = old[1] /\ 1 \in DOMAIN old
      /\ \A k \in DOMAIN new : k + 1 \in DOMAIN old /\ new[k] = old[k + 1] /\ k + 1 # 1
      /\ \A k, m \in DOMAIN new : k # m => k + 1 # m + 1
  BY <1>4, RequestDropped
<1>6. AIRequest = Range(old[1]) /\ AIRequest \subseteq SearchRoot
  <2>1. old[1] \in Seq(SearchRoot) BY <1>4, <1>5
  <2> DEFINE first == old[1]
  <2>2. first \in Seq(SearchRoot) BY <2>1
  <2> HIDE DEF first
  <2>3. Range(first) \subseteq SearchRoot BY <2>2 DEF Range
  <2> QED BY <1>5, <2>3 DEF AIRequest, first
<1> HIDE DEF new
<1>7. DOMAIN outcomes = AIRequest BY DEF EvaluateCandidates
<1>8. \A r \in AIRequest : outcomes[r].collect \in BOOLEAN
  BY DEF EvaluateCandidates, Replies, Reply, Silence
<1> HIDE DEF outcomes
<1>9. added.by = "ai_search" /\ added.seed = exp.seed.id /\ added.outcomes = outcomes OBVIOUS
<1> HIDE DEF added
<1> DEFINE s == exp.evals
           t == Append(s, added)
<1>10. /\ t \in Seq(Range(t)) /\ Range(t) = Range(s) \cup {added}
       /\ Len(s) \in Nat /\ DOMAIN s = 1..Len(s) /\ DOMAIN t = 1..(Len(s) + 1)
       /\ \A i \in 1..Len(s) : t[i] = s[i]
       /\ t[Len(s) + 1] = added
  BY <1>1, EvaluationAdded DEF EvalsInv
<1> HIDE DEF t
<1>11. ExpShape' BY <1>1, <1>2, <1>3, <1>6 DEF ExpShape
<1>12. EvalsInv'
  BY <1>1, <1>3, <1>6, <1>7, <1>8, <1>9, <1>10 DEF EvalsInv, t
<1>13. BatchesCoverCandidates' BY <1>1, <1>3 DEF BatchesCoverCandidates
<1>14. \A k \in DOMAIN old : \A e \in Range(s) :
          e.seed = exp.seed.id => DOMAIN e.outcomes \cap Range(old[k]) = {}
  BY <1>1, <1>2 DEF RequestsInv
<1>15. \A k, m \in DOMAIN old : k # m => Range(old[k]) \cap Range(old[m]) = {}
  BY <1>1, <1>2 DEF RequestsInv
<1>16. RequestsInv'
  <2>1. exp'.requests = new /\ exp'.evals = t /\ exp'.seed = exp.seed BY <1>3 DEF new, t
  <2>2. \A k, m \in DOMAIN new : k # m => Range(new[k]) \cap Range(new[m]) = {}
    BY <1>5, <1>15
  <2>3. ASSUME NEW k \in DOMAIN new, NEW e \in Range(t), e.seed = exp.seed.id
        PROVE  DOMAIN e.outcomes \cap Range(new[k]) = {}
    <3>1. k + 1 \in DOMAIN old /\ new[k] = old[k + 1] /\ k + 1 # 1 BY <1>5
    <3>2. CASE e \in Range(s) BY <1>14, <2>3, <3>1, <3>2
    <3>3. CASE e = added
      <4>1. Range(old[1]) \cap Range(old[k + 1]) = {} BY <1>5, <1>15, <3>1
      <4> QED BY <1>6, <1>7, <1>9, <3>1, <3>3, <4>1
    <3> QED BY <1>10, <3>2, <3>3
  <2> QED BY <1>5, <2>1, <2>2, <2>3 DEF RequestsInv
<1>17. NotAskedAgain'
  <2> SUFFICES ASSUME NEW i \in DOMAIN t, NEW j \in DOMAIN t,
                      i < j, t[j].by = "ai_search", t[i].seed = t[j].seed
               PROVE  DOMAIN t[i].outcomes \cap DOMAIN t[j].outcomes = {}
    BY <1>3 DEF NotAskedAgain, t
  <2>1. i \in 1..Len(s) /\ t[i] = s[i] /\ s[i] \in Range(s) BY <1>10 DEF Range
  <2>2. CASE j \in 1..Len(s) BY <1>1, <1>10, <2>1, <2>2 DEF NotAskedAgain
  <2>3. CASE j = Len(s) + 1
    <3>1. t[j] = added BY <1>10, <2>3
    <3>2. DOMAIN s[i].outcomes \cap Range(old[1]) = {} BY <1>5, <1>9, <1>14, <2>1, <3>1
    <3> QED BY <1>6, <1>7, <1>9, <2>1, <3>1, <3>2
  <2> QED BY <1>10, <2>2, <2>3
<1> QED BY <1>2, <1>3, <1>11, <1>12, <1>13, <1>16, <1>17 DEF ExpInv


\* The requests of a search are done with, and its plan is dropped.
LEMMA AIRootDoneKeeps ==
    ASSUME ExpInv, AIRootDone PROVE ExpInv'
<1>1. ExpShape /\ EvalsInv /\ NotAskedAgain BY DEF ExpInv
<1>2. /\ UNCHANGED expWorld /\ exp.phase = "judge"
      /\ exp' = [exp EXCEPT !.phase = "search", !.plan = NoPlan]
  BY DEF AIRootDone
<1>3. /\ DOMAIN exp' = DOMAIN exp /\ exp'.phase = "search" /\ exp'.pending = exp.pending
      /\ exp'.groups = exp.groups /\ exp'.evals = exp.evals /\ exp'.todo = exp.todo
      /\ exp'.plan = NoPlan
  BY <1>1, <1>2 DEF ExpShape, ExpFields
<1>4. ExpShape' /\ EvalsInv' /\ RequestsInv' /\ NotAskedAgain'
  BY <1>1, <1>2, <1>3 DEF ExpShape, EvalsInv, RequestsInv, NotAskedAgain
<1>5. BatchesCoverCandidates' BY <1>3, NothingCovered DEF BatchesCoverCandidates, Covers
<1> QED BY <1>3, <1>4, <1>5 DEF ExpInv

\* A step outside of a search that leaves the record alone.
LEMMA RecordKept ==
    ASSUME ExpInv, UNCHANGED expWorld, exp'.evals = exp.evals, exp'.plan = exp.plan,
           exp.phase # "idle", exp'.phase \notin {"idle", "judge"},
           DOMAIN exp' = ExpFields, exp'.pending \subseteq exp.pending,
           \A f \in exp'.todo : f[2] \in SearchRoot,
           \A g \in exp'.groups : g[2] \subseteq SearchRoot
    PROVE  ExpInv'
BY DEF ExpInv, ExpShape, EvalsInv, RequestsInv, BatchesCoverCandidates, NotAskedAgain

LEMMA NextWaveFields ==
    ASSUME NEW e, DOMAIN e = ExpFields, e.pending \subseteq SearchRoot
    PROVE  LET next == NextWave(e)
           IN  /\ DOMAIN next = ExpFields /\ next.evals = e.evals /\ next.plan = e.plan
               /\ next.phase = "search" /\ next.pending = {} /\ next.groups = e.groups
               /\ \A f \in next.todo : f[2] \in SearchRoot
<1> DEFINE seeds == {[id |-> r, roots |-> {r}] : r \in e.pending}
           next == NextWave(e)
<1>1. /\ DOMAIN next = ExpFields /\ next.evals = e.evals /\ next.plan = e.plan
      /\ next.phase = "search" /\ next.pending = {} /\ next.groups = e.groups
      /\ next.todo = FocusRoots(seeds)
  BY DEF NextWave, ExpFields
<1>2. \A f \in FocusRoots(seeds) : f[2] \in SearchRoot BY DEF FocusRoots
<1> HIDE DEF next, seeds
<1> QED BY <1>1, <1>2 DEF next

LEMMA ExpandWaveDoneKeeps ==
    ASSUME ExpInv, ExpandWaveDone PROVE ExpInv'
<1> DEFINE done == [exp EXCEPT !.todo = {}]
<1>1. ExpShape BY DEF ExpInv
<1>2. /\ exp.phase = "search" /\ UNCHANGED expWorld
      /\ \/ exp' = [done EXCEPT !.phase = "returned"]
         \/ exp' = NextWave(done)
         \/ exp' = [done EXCEPT !.phase = "reconsider"]
  BY DEF ExpandWaveDone
<1>3. /\ DOMAIN done = ExpFields /\ done.evals = exp.evals /\ done.plan = exp.plan
      /\ done.pending = exp.pending /\ done.groups = exp.groups /\ done.todo = {}
  BY <1>1 DEF ExpShape, ExpFields
<1> HIDE DEF done
<1>4. CASE exp' = NextWave(done)
  <2>1. done.pending \subseteq SearchRoot BY <1>1, <1>3 DEF ExpShape
  <2>2. /\ DOMAIN exp' = ExpFields /\ exp'.evals = done.evals /\ exp'.plan = done.plan
        /\ exp'.phase = "search" /\ exp'.pending = {} /\ exp'.groups = done.groups
        /\ \A f \in exp'.todo : f[2] \in SearchRoot
    BY <1>3, <1>4, <2>1, NextWaveFields
  <2> QED BY <1>1, <1>2, <1>3, <2>2, RecordKept DEF ExpShape
<1>5. ASSUME NEW phase \in {"returned", "reconsider"}, exp' = [done EXCEPT !.phase = phase]
      PROVE  ExpInv'
  <2>1. /\ DOMAIN exp' = ExpFields /\ exp'.evals = exp.evals /\ exp'.plan = exp.plan
        /\ exp'.phase = phase /\ exp'.pending = exp.pending /\ exp'.groups = exp.groups
        /\ exp'.todo = {}
    BY <1>3, <1>5 DEF ExpFields
  <2> QED BY <1>1, <1>2, <1>5, <2>1, RecordKept DEF ExpShape
<1> QED BY <1>2, <1>4, <1>5

LEMMA ReconsiderStartKeeps ==
    ASSUME ExpInv, ReconsiderStart PROVE ExpInv'
<1> DEFINE parents == {s \in {e.seed : e \in Range(exp.evals)} : Discards(s) # {}}
           groups == IF pctx.judge THEN {<<s, Discards(s)>> : s \in parents} ELSE {}
<1>1. ExpShape /\ EvalsInv BY DEF ExpInv
<1>2. /\ exp.phase = "reconsider" /\ UNCHANGED expWorld
      /\ exp' = [exp EXCEPT !.phase = "regroup", !.groups = groups]
  BY DEF ReconsiderStart
<1>3. \A s : Discards(s) \subseteq SearchRoot BY <1>1 DEF Discards, EvalsInv
<1>4. \A g \in groups : g[2] \subseteq SearchRoot BY <1>3
<1> HIDE DEF groups
<1>5. /\ DOMAIN exp' = ExpFields /\ exp'.evals = exp.evals /\ exp'.plan = exp.plan
      /\ exp'.phase = "regroup" /\ exp'.pending = exp.pending /\ exp'.groups = groups
      /\ exp'.todo = exp.todo
  BY <1>1, <1>2 DEF ExpShape, ExpFields
<1> QED BY <1>1, <1>2, <1>4, <1>5, RecordKept DEF ExpShape

LEMMA ReconsiderFailsKeeps ==
    ASSUME ExpInv, NEW g \in exp.groups, ReconsiderFails(g) PROVE ExpInv'
<1>1. ExpShape BY DEF ExpInv
<1>2. /\ exp.phase = "regroup" /\ UNCHANGED expWorld
      /\ exp' = [exp EXCEPT !.groups = @ \ {g}, !.errors = @ + 1]
  BY DEF ReconsiderFails
<1>3. /\ DOMAIN exp' = ExpFields /\ exp'.evals = exp.evals /\ exp'.plan = exp.plan
      /\ exp'.phase = "regroup" /\ exp'.pending = exp.pending
      /\ exp'.groups = exp.groups \ {g} /\ exp'.todo = exp.todo
  BY <1>1, <1>2 DEF ExpShape, ExpFields
<1> QED BY <1>1, <1>2, <1>3, RecordKept DEF ExpShape

LEMMA ReconsiderDoneKeeps ==
    ASSUME ExpInv, ReconsiderDone PROVE ExpInv'
<1>1. ExpShape BY DEF ExpInv
<1>2. /\ exp.phase = "regroup" /\ UNCHANGED expWorld
      /\ \/ exp' = [exp EXCEPT !.phase = "returned"]
         \/ exp' = [NextWave(exp) EXCEPT !.extra = TRUE]
  BY DEF ReconsiderDone
<1>3. CASE exp' = [exp EXCEPT !.phase = "returned"]
  <2>1. /\ DOMAIN exp' = ExpFields /\ exp'.evals = exp.evals /\ exp'.plan = exp.plan
        /\ exp'.phase = "returned" /\ exp'.pending = exp.pending
        /\ exp'.groups = exp.groups /\ exp'.todo = exp.todo
    BY <1>1, <1>3 DEF ExpShape, ExpFields
  <2> QED BY <1>1, <1>2, <2>1, RecordKept DEF ExpShape
<1>4. CASE exp' = [NextWave(exp) EXCEPT !.extra = TRUE]
  <2> DEFINE next == NextWave(exp)
  <2>1. /\ DOMAIN next = ExpFields /\ next.evals = exp.evals /\ next.plan = exp.plan
        /\ next.phase = "search" /\ next.pending = {} /\ next.groups = exp.groups
        /\ \A f \in next.todo : f[2] \in SearchRoot
    BY <1>1, NextWaveFields DEF ExpShape
  <2>2. exp' = [next EXCEPT !.extra = TRUE] BY <1>4
  <2> HIDE DEF next
  <2>3. /\ DOMAIN exp' = ExpFields /\ exp'.evals = exp.evals /\ exp'.plan = exp.plan
        /\ exp'.phase = "search" /\ exp'.pending = {} /\ exp'.groups = exp.groups
        /\ exp'.todo = next.todo
    BY <2>1, <2>2 DEF ExpFields
  <2> QED BY <1>1, <1>2, <2>1, <2>3, RecordKept DEF ExpShape
<1> QED BY <1>2, <1>3, <1>4


LEMMA ReconsiderJudgedKeeps ==
    ASSUME ExpInv, NEW g \in exp.groups, NEW reply \in Replies(g[2]),
           NEW accepted \in SUBSET g[2], ReconsiderJudged(g, reply, accepted)
    PROVE  ExpInv'
<1> DEFINE outcomes == EvaluateCandidates(g[2], reply)
           added == [by |-> "reconsider", seed |-> g[1], outcomes |-> outcomes]
           s == exp.evals
           t == Append(s, added)
<1>1. ExpShape /\ EvalsInv /\ BatchesCoverCandidates /\ NotAskedAgain BY DEF ExpInv
<1>2. /\ exp.phase = "regroup" /\ UNCHANGED expWorld
      /\ exp' = [exp EXCEPT !.groups = @ \ {g}, !.evals = Append(@, added),
                    !.pending = @ \cup (accepted \ pctx.known)]
  BY DEF ReconsiderJudged
<1>3. /\ DOMAIN exp' = DOMAIN exp /\ exp'.phase = "regroup"
      /\ exp'.groups = exp.groups \ {g} /\ exp'.evals = t /\ exp'.todo = exp.todo
      /\ exp'.plan = exp.plan /\ exp'.pending \subseteq exp.pending \cup accepted
  BY <1>1, <1>2 DEF ExpShape, ExpFields
<1>4. DOMAIN outcomes = g[2] /\ g[2] \subseteq SearchRoot
  BY <1>1 DEF EvaluateCandidates, ExpShape
<1>5. \A r \in g[2] : outcomes[r].collect \in BOOLEAN
  BY DEF EvaluateCandidates, Replies, Reply, Silence
<1> HIDE DEF outcomes
<1>6. added.by = "reconsider" /\ added.outcomes = outcomes OBVIOUS
<1> HIDE DEF added
<1>7. /\ t \in Seq(Range(t)) /\ Range(t) = Range(s) \cup {added}
      /\ Len(s) \in Nat /\ DOMAIN s = 1..Len(s) /\ DOMAIN t = 1..(Len(s) + 1)
      /\ \A i \in 1..Len(s) : t[i] = s[i]
      /\ t[Len(s) + 1] = added
  BY <1>1, EvaluationAdded DEF EvalsInv
<1> HIDE DEF t
<1>8. ExpShape' BY <1>1, <1>2, <1>3, <1>4 DEF ExpShape
<1>9. EvalsInv' BY <1>1, <1>3, <1>4, <1>5, <1>6, <1>7 DEF EvalsInv
<1>10. BatchesCoverCandidates' BY <1>1, <1>3 DEF BatchesCoverCandidates
<1>11. NotAskedAgain'
  <2> SUFFICES ASSUME NEW i \in DOMAIN t, NEW j \in DOMAIN t,
                      i < j, t[j].by = "ai_search", t[i].seed = t[j].seed
               PROVE  DOMAIN t[i].outcomes \cap DOMAIN t[j].outcomes = {}
    BY <1>3 DEF NotAskedAgain
  <2>1. i \in 1..Len(s) /\ j \in 1..Len(s) BY <1>6, <1>7
  <2> QED BY <1>1, <1>7, <2>1 DEF NotAskedAgain
<1> QED BY <1>3, <1>8, <1>9, <1>10, <1>11 DEF ExpInv, RequestsInv

LEMMA ExpandStartKeeps ==
    ASSUME ExpInv, ExpandStart PROVE ExpInv'
<1>1. ExpShape /\ BatchesCoverCandidates BY DEF ExpInv
<1>2. PICK w \in SearchWorld :
         /\ expWorld' = w
         /\ exp' = [exp EXCEPT !.phase = "search", !.evals = w.earlier,
                               !.todo = FocusRoots(SearchSeeds)]
  BY DEF ExpandStart
<1>3. /\ DOMAIN exp' = DOMAIN exp /\ exp'.phase = "search" /\ exp'.groups = exp.groups
      /\ exp'.evals = w.earlier /\ exp'.todo = FocusRoots(SearchSeeds)
      /\ exp'.plan = exp.plan /\ exp'.pending = exp.pending
  BY <1>1, <1>2 DEF ExpShape, ExpFields
<1>4. \A f \in FocusRoots(SearchSeeds) : f[2] \in SearchRoot
  BY SearchAssumption DEF SearchAssumption, FocusRoots
<1>5. ExpShape' BY <1>1, <1>2, <1>3, <1>4 DEF ExpShape
<1>6. EvalsInv' BY <1>3, SearchAssumption DEF SearchAssumption, EvalsInv
<1>7. BatchesCoverCandidates' BY <1>1, <1>3 DEF BatchesCoverCandidates
<1>8. NotAskedAgain'
  <2>1. \A j \in DOMAIN w.earlier : w.earlier[j].by # "ai_search"
    BY SearchAssumption DEF SearchAssumption, Range
  <2> QED BY <1>3, <2>1 DEF NotAskedAgain
<1> QED BY <1>3, <1>5, <1>6, <1>7, <1>8 DEF ExpInv, RequestsInv

LEMMA ExpStep ==
    ExpInv /\ [StagesNext]_stageVars => ExpInv'
<1> SUFFICES ASSUME ExpInv, [StagesNext]_stageVars PROVE ExpInv'
  OBVIOUS
<1>1. ExpandNext \/ UNCHANGED expVars
  BY DEF StagesNext, stageVars, expVars
<1>2. CASE UNCHANGED expVars
  <2>1. exp' = exp /\ expWorld' = expWorld BY <1>2 DEF expVars
  <2> QED
    BY <2>1 DEF ExpInv, ExpShape, EvalsInv, RequestsInv, BatchesCoverCandidates, NotAskedAgain
<1>3. CASE ExpandNext
  <2>1. CASE ExpandStart BY <2>1, ExpandStartKeeps
  <2>2. CASE \E f \in exp.todo, answers \in BOOLEAN : AISearchRoot(f, answers)
    BY <2>2, AISearchRootKeeps
  <2>3. CASE AIJudgeFails BY <2>3, AIJudgeFailsKeeps
  <2>4. CASE /\ exp.requests # <<>>
             /\ \E reply \in Replies(AIRequest), accepted \in SUBSET AIRequest :
                   AIJudged(reply, accepted)
    BY <2>4, AIJudgedKeeps
  <2>5. CASE AIRootDone BY <2>5, AIRootDoneKeeps
  <2>6. CASE ExpandWaveDone BY <2>6, ExpandWaveDoneKeeps
  <2>7. CASE ReconsiderStart BY <2>7, ReconsiderStartKeeps
  <2>8. CASE \E g \in exp.groups : ReconsiderFails(g) BY <2>8, ReconsiderFailsKeeps
  <2>9. CASE \E g \in exp.groups : \E reply \in Replies(g[2]), accepted \in SUBSET g[2] :
                ReconsiderJudged(g, reply, accepted)
    BY <2>9, ReconsiderJudgedKeeps
  <2>10. CASE ReconsiderDone BY <2>10, ReconsiderDoneKeeps
  <2> QED
    BY <1>3, <2>1, <2>2, <2>3, <2>4, <2>5, <2>6, <2>7, <2>8, <2>9, <2>10 DEF ExpandNext
<1> QED BY <1>1, <1>2, <1>3

LEMMA ExpStarts == StagesInit => ExpInv
<1> SUFFICES ASSUME StagesInit PROVE ExpInv
  OBVIOUS
<1>1. ExpandInit BY DEF StagesInit
<1>2. /\ DOMAIN exp = ExpFields /\ exp.phase = "idle" /\ exp.todo = {} /\ exp.pending = {}
      /\ exp.groups = {} /\ exp.evals = <<>> /\ exp.plan = NoPlan
  BY <1>1 DEF ExpandInit, ExpFields
<1>3. Range(<<>>) = {} /\ <<>> \in Seq({}) BY DEF Range
<1>4. ExpShape /\ EvalsInv /\ RequestsInv BY <1>2, <1>3 DEF ExpShape, EvalsInv, RequestsInv
<1>5. BatchesCoverCandidates BY <1>2, NothingCovered, CoversPlan
<1>6. NotAskedAgain BY <1>2 DEF NotAskedAgain
<1> QED BY <1>2, <1>4, <1>5, <1>6 DEF ExpInv

\* buildJudgeRequests: whatever the sizes of the evidence and the limits are, every
\* candidate of a search is in exactly one request within the prompt's limit, cut
\* off by the cap, or too large for a prompt of its own.
THEOREM BatchesAreComplete == StagesSpec => []BatchesCoverCandidates
<1>1. ExpInv => BatchesCoverCandidates BY DEF ExpInv
<1> QED BY <1>1, ExpStarts, ExpStep, PTL DEF StagesSpec

\* filterAISearchCandidates: over all the waves of a run, no seed's search puts a
\* root to the judge that a judge has decided on for that seed before.
THEOREM NobodyAskedAgain == StagesSpec => []NotAskedAgain
<1>1. ExpInv => NotAskedAgain BY DEF ExpInv
<1> QED BY <1>1, ExpStarts, ExpStep, PTL DEF StagesSpec

-----------------------------------------------------------------------------
(* The crawl.                                                              *)

CrawlFields == {"phase", "seeds", "seed", "queue", "queued", "visited", "pages", "hosts",
                "outbound", "rest", "assets"}

\* Every URL that was queued is visited, or in the queue once.
QueueOK(c) ==
    /\ DOMAIN c = CrawlFields
    /\ c.queue \in Seq(CrawlURL \X Nat)
    /\ c.visited \subseteq c.queued /\ c.queued \subseteq CrawlURL
    /\ \A u \in c.queued : u \in c.visited \/ \E i \in DOMAIN c.queue : c.queue[i][1] = u
    /\ \A i \in DOMAIN c.queue :
          /\ c.queue[i][1] \in c.queued \ c.visited
          /\ \A j \in DOMAIN c.queue : i # j => c.queue[i][1] # c.queue[j][1]

\* With W[n] the URLs within n links: the queue holds URLs at h links from the start,
\* then URLs at one more, and everything within h links was queued.
LevelOK(c, W, h) ==
    /\ W[h] \subseteq c.queued /\ c.visited \subseteq W[h]
    /\ \A i \in DOMAIN c.queue :
          /\ c.queue[i][2] = h => c.queue[i][1] \in W[h]
          /\ c.queue[i][2] # h => /\ c.queue[i][2] = h + 1 /\ h < CrawlMaxDepth
                                  /\ c.queue[i][1] \in W[h + 1] \ W[h]
          /\ \A j \in DOMAIN c.queue : i < j => c.queue[i][2] <= c.queue[j][2]

\* The links of a page that are followed above the depth limit.
Followed(seed, page) ==
    {t \in Targets(page) \cap shouldFollowCrawlerURL :
        CrawlRoot[t] \in ScopeRoots(seed) /\ FinalRoot(page) \in ScopeRoots(seed)}

\* The visited pages are worked off.
VisitedOK(c, world, h) ==
    /\ h < CrawlMaxDepth => \A p \in c.visited : Followed(c.seed, world[p]) \subseteq c.queued
    /\ DOMAIN c.outbound = UNION {OutboundRoots(c.seed, world[p]) : p \in c.visited}

CrawlLevel(c, world, h) ==
    LevelOK(c, Within(c.seed, world), h) /\ VisitedOK(c, world, h)

CrawlShape ==
    /\ DOMAIN crawl = CrawlFields /\ crawl.seeds \subseteq CrawlSeeds
    /\ crawl.phase # "idle" => crawlWorld \in CrawlWorld
    /\ DOMAIN crawlHist = {"faults", "fetched", "asked"}
    /\ crawlHist.fetched \in [CrawlURL -> Nat] /\ crawlHist.faults \in Nat

CrawlInv ==
    /\ CrawlShape
    /\ crawl.phase \in {"crawl", "judge"} =>
          /\ QueueOK(crawl)
          /\ \A p \in CrawlURL : crawlHist.fetched[p] = IF p \in crawl.visited THEN 1 ELSE 0
          /\ crawlHist.faults = 0 => \E h \in 0..CrawlMaxDepth : CrawlLevel(crawl, crawlWorld, h)
    /\ crawl.phase = "crawl" => crawlHist.asked = {}
    /\ crawl.phase = "judge" => crawlHist.asked \cup crawl.rest = DOMAIN crawl.outbound

\* The URLs within each number of links, up to n.
WithinSteps(w, seed, world, n) ==
    w = [i \in 0..n |->
            IF i = 0 THEN Range(seed)
            ELSE w[i - 1] \cup
                 {t \in shouldFollowCrawlerURL :
                    /\ CrawlRoot[t] \in ScopeRoots(seed)
                    /\ \E p \in w[i - 1] : /\ FinalRoot(world[p]) \in ScopeRoots(seed)
                                           /\ t \in Targets(world[p])}]

LEMMA WithinStepsExist ==
    ASSUME NEW seed, NEW world, NEW n \in Nat
    PROVE  \E w : WithinSteps(w, seed, world, n)
<1> DEFINE T == {m \in Nat : \E w : WithinSteps(w, seed, world, m)}
           next(w, i) == w[i - 1] \cup
                 {t \in shouldFollowCrawlerURL :
                    /\ CrawlRoot[t] \in ScopeRoots(seed)
                    /\ \E p \in w[i - 1] : /\ FinalRoot(world[p]) \in ScopeRoots(seed)
                                           /\ t \in Targets(world[p])}
<1>1. \A w, m : WithinSteps(w, seed, world, m) <=>
         w = [i \in 0..m |-> IF i = 0 THEN Range(seed) ELSE next(w, i)]
  BY DEF WithinSteps
<1>2. \A w, v, i : w[i - 1] = v[i - 1] => next(w, i) = next(v, i) OBVIOUS
<1> HIDE DEF next
<1>3. 0 \in T
  <2> DEFINE w == [i \in 0..0 |-> Range(seed)]
  <2>1. w = [i \in 0..0 |-> IF i = 0 THEN Range(seed) ELSE next(w, i)]
    OBVIOUS
  <2>2. WithinSteps(w, seed, world, 0) BY <1>1, <2>1
  <2> QED BY <2>2
<1>4. ASSUME NEW m \in Nat, m \in T PROVE m + 1 \in T
  <2>1. PICK w : w = [i \in 0..m |-> IF i = 0 THEN Range(seed) ELSE next(w, i)]
    BY <1>1, <1>4
  <2> DEFINE v == [i \in 0..(m + 1) |-> IF i = m + 1 THEN next(w, i) ELSE w[i]]
  <2>2. ASSUME NEW i \in 0..(m + 1)
        PROVE  v[i] = IF i = 0 THEN Range(seed) ELSE next(v, i)
    <3>1. CASE i = 0 BY <2>1, <3>1
    <3>2. CASE i # 0
      <4>1. v[i - 1] = w[i - 1] BY <3>2
      <4>2. next(v, i) = next(w, i) BY <1>2, <4>1
      <4>3. v[i] = next(w, i) BY <2>1, <3>2
      <4> QED BY <3>2, <4>2, <4>3
    <3> QED BY <3>1, <3>2
  <2>3. v = [i \in 0..(m + 1) |-> v[i]] OBVIOUS
  <2> HIDE DEF v
  <2>4. v = [i \in 0..(m + 1) |-> IF i = 0 THEN Range(seed) ELSE next(v, i)]
    BY <2>2, <2>3
  <2> QED BY <1>1, <2>4
<1>5. Nat \subseteq T
  <2> HIDE DEF T
  <2> QED BY <1>3, <1>4, Numbers
<1> QED BY <1>5

\* One link further: what the pages so far link to and the crawl follows.
LEMMA WithinUnfolds ==
    ASSUME NEW seed, NEW world
    PROVE  LET W == Within(seed, world)
           IN  /\ W[0] = Range(seed)
               /\ \A n \in 0..(CrawlMaxDepth - 1) :
                     W[n + 1] = W[n] \cup UNION {Followed(seed, world[p]) : p \in W[n]}
<1> DEFINE W == Within(seed, world)
           w == CHOOSE x : WithinSteps(x, seed, world, CrawlMaxDepth)
<1>0. CrawlMaxDepth \in Nat BY CrawlAssumption
<1>1. \E x : WithinSteps(x, seed, world, CrawlMaxDepth) BY <1>0, WithinStepsExist
<1>2. WithinSteps(w, seed, world, CrawlMaxDepth) BY <1>1
<1>3. W = w BY Zenon DEF Within, WithinSteps
<1>4. WithinSteps(W, seed, world, CrawlMaxDepth) BY <1>2, <1>3
<1> HIDE DEF W, w
<1>5. W[0] = Range(seed) BY <1>0, <1>4 DEF WithinSteps
<1>6. ASSUME NEW n \in 0..(CrawlMaxDepth - 1)
      PROVE  W[n + 1] = W[n] \cup UNION {Followed(seed, world[p]) : p \in W[n]}
  <2> DEFINE linked == {t \in shouldFollowCrawlerURL :
                          /\ CrawlRoot[t] \in ScopeRoots(seed)
                          /\ \E p \in W[n] : /\ FinalRoot(world[p]) \in ScopeRoots(seed)
                                             /\ t \in Targets(world[p])}
  <2>1. n + 1 \in 0..CrawlMaxDepth /\ n + 1 # 0 /\ (n + 1) - 1 = n BY <1>0
  <2>2. W[n + 1] = W[n] \cup linked BY <1>4, <2>1 DEF WithinSteps
  <2>3. linked = UNION {Followed(seed, world[p]) : p \in W[n]} BY DEF Followed
  <2> QED BY <2>2, <2>3
<1> QED BY <1>5, <1>6 DEF W

\* Fewer links lead no further.
LEMMA WithinGrows ==
    ASSUME NEW seed, NEW world, NEW n \in 0..(CrawlMaxDepth - 1)
    PROVE  Within(seed, world)[n] \subseteq Within(seed, world)[n + 1]
BY WithinUnfolds

-----------------------------------------------------------------------------

\* One crawl is another one after some of a page's links, to these targets, were
\* followed from depth d.
FollowedTo(b, c, d, targets) ==
    LET old == Len(b.queue)
    IN  /\ DOMAIN c = CrawlFields
        /\ c.phase = b.phase /\ c.seeds = b.seeds /\ c.seed = b.seed
        /\ c.visited = b.visited /\ c.rest = b.rest /\ c.assets = b.assets
        /\ DOMAIN c.outbound = DOMAIN b.outbound
              \cup ({CrawlRoot[t] : t \in targets} \ ScopeRoots(b.seed))
        /\ c.queued = b.queued \cup
              {t \in targets \cap shouldFollowCrawlerURL :
                  CrawlRoot[t] \in ScopeRoots(b.seed) /\ d < CrawlMaxDepth}
        /\ c.queue \in Seq(CrawlURL \X Nat)
        /\ old <= Len(c.queue)
        /\ \A i \in 1..old : c.queue[i] = b.queue[i]
        /\ \A u \in c.queued \ b.queued : \E i \in (old + 1)..Len(c.queue) : c.queue[i][1] = u
        /\ \A i \in (old + 1)..Len(c.queue) :
              /\ c.queue[i][1] \in c.queued \ b.queued /\ c.queue[i][2] = d + 1
              /\ \A j \in (old + 1)..Len(c.queue) : i # j => c.queue[i][1] # c.queue[j][1]

LEMMA CaptureDomain ==
    ASSUME NEW outbound, NEW root, NEW source
    PROVE  DOMAIN captureCrawlerCandidate(outbound, root, source) = DOMAIN outbound \cup {root}
BY DEF captureCrawlerCandidate

\* One link more.
LEMMA FollowLinkKeeps ==
    ASSUME NEW b, NEW c, NEW d \in Nat, NEW targets, NEW target \in CrawlURL, NEW source,
           b.visited \subseteq b.queued, Len(b.queue) \in Nat, FollowedTo(b, c, d, targets)
    PROVE  FollowedTo(b, followLink(c, source, d, target), d, targets \cup {target})
<1> DEFINE new == followLink(c, source, d, target)
           old == Len(b.queue)
           root == CrawlRoot[target]
           wanted == /\ root \in ScopeRoots(b.seed) /\ d < CrawlMaxDepth
                     /\ target \in shouldFollowCrawlerURL
<1>0. /\ DOMAIN c = CrawlFields /\ c.seed = b.seed /\ c.visited \subseteq c.queued
      /\ c.queue \in Seq(CrawlURL \X Nat) /\ Len(c.queue) \in Nat
  BY DEF FollowedTo
<1>1. {CrawlRoot[t] : t \in targets \cup {target}}
         = {CrawlRoot[t] : t \in targets} \cup {root}
  OBVIOUS
<1>2. {t \in (targets \cup {target}) \cap shouldFollowCrawlerURL :
            CrawlRoot[t] \in ScopeRoots(b.seed) /\ d < CrawlMaxDepth}
         = {t \in targets \cap shouldFollowCrawlerURL :
               CrawlRoot[t] \in ScopeRoots(b.seed) /\ d < CrawlMaxDepth}
           \cup (IF wanted THEN {target} ELSE {})
  OBVIOUS
<1>3. CASE root \notin ScopeRoots(b.seed)
  <2> DEFINE outbound == captureCrawlerCandidate(c.outbound, root, source)
  <2>1. new = [c EXCEPT !.outbound = outbound]
    BY <1>0, <1>3 DEF followLink
  <2>2. DOMAIN outbound = DOMAIN c.outbound \cup {root} BY CaptureDomain
  <2> HIDE DEF new, outbound
  <2>3. /\ DOMAIN new = CrawlFields /\ new.outbound = outbound
        /\ new.phase = c.phase /\ new.seeds = c.seeds /\ new.seed = c.seed
        /\ new.visited = c.visited /\ new.rest = c.rest /\ new.assets = c.assets
        /\ new.queue = c.queue /\ new.queued = c.queued
    BY <1>0, <2>1 DEF CrawlFields
  <2>4. DOMAIN new.outbound = DOMAIN b.outbound
           \cup ({CrawlRoot[t] : t \in targets \cup {target}} \ ScopeRoots(b.seed))
    BY <1>1, <1>3, <2>2, <2>3 DEF FollowedTo
  <2>5. ~wanted BY <1>3
  <2> HIDE DEF wanted, root
  <2>6. new.queued = b.queued \cup
              {t \in (targets \cup {target}) \cap shouldFollowCrawlerURL :
                  CrawlRoot[t] \in ScopeRoots(b.seed) /\ d < CrawlMaxDepth}
    BY <1>2, <2>3, <2>5 DEF FollowedTo
  <2>7. FollowedTo(b, new, d, targets \cup {target})
    BY <2>3, <2>4, <2>6 DEF FollowedTo
  <2> QED BY <2>7 DEF new
<1>4. CASE root \in ScopeRoots(b.seed)
  <2> DEFINE h == [c EXCEPT !.hosts = @ \cup ({target} \cap CrawlSubhost)]
  <2>1. /\ DOMAIN h = CrawlFields
        /\ h.phase = c.phase /\ h.seeds = c.seeds /\ h.seed = c.seed
        /\ h.visited = c.visited /\ h.rest = c.rest /\ h.assets = c.assets
        /\ h.queue = c.queue /\ h.queued = c.queued /\ h.outbound = c.outbound
    BY <1>0 DEF CrawlFields
  <2> DEFINE fresh == wanted /\ target \notin c.queued
  <2>2. new = IF fresh THEN [h EXCEPT !.queue = Append(@, <<target, d + 1>>),
                                      !.queued = @ \cup {target}]
              ELSE h
    BY <1>0, <1>4 DEF followLink, EnqueuePage
  <2> HIDE DEF h, new
  <2>3. /\ DOMAIN new = CrawlFields
        /\ new.phase = c.phase /\ new.seeds = c.seeds /\ new.seed = c.seed
        /\ new.visited = c.visited /\ new.rest = c.rest /\ new.assets = c.assets
        /\ new.outbound = c.outbound
        /\ fresh => /\ new.queue = Append(c.queue, <<target, d + 1>>)
                    /\ new.queued = c.queued \cup {target}
        /\ ~fresh => new.queue = c.queue /\ new.queued = c.queued
    BY <2>1, <2>2 DEF CrawlFields
  <2>4. DOMAIN new.outbound = DOMAIN b.outbound
           \cup ({CrawlRoot[t] : t \in targets \cup {target}} \ ScopeRoots(b.seed))
    BY <1>1, <1>4, <2>3 DEF FollowedTo
  <2>5. new.queued = c.queued \cup (IF wanted THEN {target} ELSE {})
    BY <2>3
  <2> HIDE DEF wanted, root
  <2>6. new.queued = b.queued \cup
              {t \in (targets \cup {target}) \cap shouldFollowCrawlerURL :
                  CrawlRoot[t] \in ScopeRoots(b.seed) /\ d < CrawlMaxDepth}
    BY <1>2, <2>5 DEF FollowedTo
  <2>7. CASE ~fresh
    <3>1. new.queue = c.queue /\ new.queued = c.queued BY <2>3, <2>7
    <3>2. FollowedTo(b, new, d, targets \cup {target})
      BY <2>3, <2>4, <2>6, <3>1 DEF FollowedTo
    <3> QED BY <3>2 DEF new
  <2>8. CASE fresh
    <3> DEFINE n == Len(c.queue)
               item == <<target, d + 1>>
    <3>1. /\ new.queue = Append(c.queue, item) /\ target \notin c.queued
          /\ new.queued = c.queued \cup {target} /\ c.queued \subseteq new.queued
      BY <2>3, <2>8
    <3>2. item \in CrawlURL \X Nat /\ item[1] = target /\ item[2] = d + 1 OBVIOUS
    <3> HIDE DEF item
    <3>3. /\ new.queue \in Seq(CrawlURL \X Nat) /\ Len(new.queue) = n + 1
          /\ \A i \in 1..n : new.queue[i] = c.queue[i]
          /\ new.queue[n + 1] = item
      BY <1>0, <3>1, <3>2
    <3>4. /\ old <= n /\ n \in Nat /\ old \in Nat
          /\ \A i \in 1..old : i \in 1..n
          /\ \A i \in (old + 1)..n : i \in 1..n
          /\ \A i \in (old + 1)..(n + 1) : i \in (old + 1)..n \/ i = n + 1
          /\ n + 1 \in (old + 1)..(n + 1)
          /\ \A i \in (old + 1)..n : i \in (old + 1)..(n + 1)
      <4>1. old <= n /\ n \in Nat /\ old \in Nat BY <1>0 DEF FollowedTo
      <4> HIDE DEF n, old
      <4> QED BY <4>1
    <3>5. \A i \in 1..old : new.queue[i] = b.queue[i]
      BY <3>3, <3>4 DEF FollowedTo
    <3>6. b.queued \subseteq c.queued BY DEF FollowedTo
    <3>7. ASSUME NEW u \in new.queued \ b.queued
          PROVE  \E i \in (old + 1)..(n + 1) : new.queue[i][1] = u
      <4>1. CASE u = target BY <3>2, <3>3, <3>4, <4>1
      <4>2. CASE u # target
        <5>1. u \in c.queued \ b.queued BY <3>1, <4>2
        <5>2. PICK i \in (old + 1)..n : c.queue[i][1] = u BY <5>1 DEF FollowedTo
        <5> QED BY <3>3, <3>4, <5>2
      <4> QED BY <4>1, <4>2
    <3>8. ASSUME NEW i \in (old + 1)..(n + 1)
          PROVE  new.queue[i][1] \in new.queued \ b.queued /\ new.queue[i][2] = d + 1
      <4>1. CASE i = n + 1 BY <3>1, <3>2, <3>3, <3>6, <4>1
      <4>2. CASE i \in (old + 1)..n
        <5>1. new.queue[i] = c.queue[i] BY <3>3, <3>4, <4>2
        <5>2. c.queue[i][1] \in c.queued \ b.queued /\ c.queue[i][2] = d + 1
          BY <4>2 DEF FollowedTo
        <5> QED BY <3>1, <5>1, <5>2
      <4> QED BY <3>4, <4>1, <4>2
    <3>9. ASSUME NEW i \in (old + 1)..(n + 1), NEW j \in (old + 1)..(n + 1), i # j
          PROVE  new.queue[i][1] # new.queue[j][1]
      <4>1. \A k \in (old + 1)..n : new.queue[k] = c.queue[k] /\ c.queue[k][1] \in c.queued
        BY <3>3, <3>4 DEF FollowedTo
      <4>2. CASE i \in (old + 1)..n /\ j \in (old + 1)..n
        <5>1. c.queue[i][1] # c.queue[j][1] BY <3>9, <4>2 DEF FollowedTo
        <5> QED BY <4>1, <4>2, <5>1
      <4>3. CASE i = n + 1 /\ j \in (old + 1)..n BY <3>1, <3>2, <3>3, <4>1, <4>3
      <4>4. CASE j = n + 1 /\ i \in (old + 1)..n BY <3>1, <3>2, <3>3, <4>1, <4>4
      <4> QED BY <3>4, <3>9, <4>2, <4>3, <4>4
    <3>10. FollowedTo(b, new, d, targets \cup {target})
      BY <2>3, <2>4, <2>6, <3>3, <3>4, <3>5, <3>7, <3>8, <3>9 DEF FollowedTo
    <3> QED BY <3>10 DEF new
  <2> QED BY <2>7, <2>8
<1> QED BY <1>3, <1>4

\* The crawl after each of the first n anchors of a page within the scope.
FollowSteps(f, c, item, page, n) ==
    f = [i \in 0..n |->
            IF i = 0
            THEN [[c EXCEPT !.pages = @ + 1] EXCEPT
                     !.hosts = @ \cup ({normalizeCrawlerURL[page.final]} \cap CrawlSubhost)]
            ELSE IF i \in extractCrawlerLinks(page)
                 THEN followLink(f[i - 1], normalizeCrawlerURL[page.final], item[2],
                                 LinkTarget(page, i))
            ELSE f[i - 1]]

LEMMA FollowStepsExist ==
    ASSUME NEW c, NEW item, NEW page, NEW n \in Nat
    PROVE  \E f : FollowSteps(f, c, item, page, n)
<1> DEFINE T == {m \in Nat : \E f : FollowSteps(f, c, item, page, m)}
           first == [[c EXCEPT !.pages = @ + 1] EXCEPT
                     !.hosts = @ \cup ({normalizeCrawlerURL[page.final]} \cap CrawlSubhost)]
           next(f, i) == IF i \in extractCrawlerLinks(page)
                         THEN followLink(f[i - 1], normalizeCrawlerURL[page.final], item[2],
                                         LinkTarget(page, i))
                         ELSE f[i - 1]
<1>1. \A f, m : FollowSteps(f, c, item, page, m) <=>
         f = [i \in 0..m |-> IF i = 0 THEN first ELSE next(f, i)]
  BY Zenon DEF FollowSteps
<1>2. \A f, g, i : f[i - 1] = g[i - 1] => next(f, i) = next(g, i) OBVIOUS
<1> HIDE DEF next, first
<1>3. 0 \in T
  <2> DEFINE f == [i \in 0..0 |-> first]
  <2>1. f = [i \in 0..0 |-> IF i = 0 THEN first ELSE next(f, i)]
    OBVIOUS
  <2>2. FollowSteps(f, c, item, page, 0) BY <1>1, <2>1
  <2> QED BY <2>2
<1>4. ASSUME NEW m \in Nat, m \in T PROVE m + 1 \in T
  <2>1. PICK f : f = [i \in 0..m |-> IF i = 0 THEN first ELSE next(f, i)]
    BY <1>1, <1>4
  <2> DEFINE g == [i \in 0..(m + 1) |-> IF i = m + 1 THEN next(f, i) ELSE f[i]]
  <2>2. ASSUME NEW i \in 0..(m + 1)
        PROVE  g[i] = IF i = 0 THEN first ELSE next(g, i)
    <3>1. CASE i = 0 BY <2>1, <3>1
    <3>2. CASE i # 0
      <4>1. g[i - 1] = f[i - 1] BY <3>2
      <4>2. next(g, i) = next(f, i) BY <1>2, <4>1
      <4>3. g[i] = next(f, i) BY <2>1, <3>2
      <4> QED BY <3>2, <4>2, <4>3
    <3> QED BY <3>1, <3>2
  <2>3. g = [i \in 0..(m + 1) |-> g[i]] OBVIOUS
  <2> HIDE DEF g
  <2>4. g = [i \in 0..(m + 1) |-> IF i = 0 THEN first ELSE next(g, i)]
    BY <2>2, <2>3
  <2>5. FollowSteps(g, c, item, page, m + 1) BY Zenon, <1>1, <2>4
  <2>6. m + 1 \in Nat OBVIOUS
  <2> QED BY <2>5, <2>6
<1>5. Nat \subseteq T
  <2> HIDE DEF T
  <2> QED BY <1>3, <1>4, Numbers
<1> QED BY <1>5

\* takePage goes through the anchors one by one.
LEMMA TakePageUnfolds ==
    ASSUME NEW c, NEW item, NEW page, Len(page.anchors) \in Nat,
           FinalRoot(page) \in ScopeRoots(c.seed)
    PROVE  \E f : /\ FollowSteps(f, c, item, page, Len(page.anchors))
                  /\ takePage(c, item, page) = f[Len(page.anchors)]
<1> DEFINE f == CHOOSE x : FollowSteps(x, c, item, page, Len(page.anchors))
<1>1. \E x : FollowSteps(x, c, item, page, Len(page.anchors)) BY FollowStepsExist
<1>2. FollowSteps(f, c, item, page, Len(page.anchors)) BY <1>1
<1>3. takePage(c, item, page) = f[Len(page.anchors)]
  BY Zenon DEF takePage, FollowSteps
<1> QED BY <1>2, <1>3

\* A page's answer is a page: its links resolve to URLs.
LEMMA LinksResolve ==
    ASSUME NEW world \in CrawlWorld, NEW p \in CrawlURL
    PROVE  LET page == world[p]
           IN  /\ Len(page.anchors) \in Nat
               /\ extractCrawlerLinks(page) \subseteq 1..Len(page.anchors)
               /\ \A i \in extractCrawlerLinks(page) : LinkTarget(page, i) \in CrawlURL
<1> DEFINE page == world[p]
<1>1. page \in [final : CrawlHref, anchors : Seq(CrawlHref \X Nat)] BY CrawlAssumption
<1> HIDE DEF page
<1>2. page.anchors \in Seq(CrawlHref \X Nat) BY <1>1
<1>3. Len(page.anchors) \in Nat /\ DOMAIN page.anchors = 1..Len(page.anchors) BY <1>2
<1>4. \A i \in extractCrawlerLinks(page) :
         i \in DOMAIN page.anchors /\ LinkTarget(page, i) # NoURL
  BY DEF extractCrawlerLinks, FirstPlaces
<1>5. ASSUME NEW i \in extractCrawlerLinks(page) PROVE LinkTarget(page, i) \in CrawlURL
  <2>1. page.anchors[i] \in CrawlHref \X Nat BY <1>2, <1>3, <1>4
  <2>2. page.anchors[i][1] \in CrawlHref BY <2>1
  <2>3. LinkTarget(page, i) \in CrawlURL \cup {NoURL} BY <2>2, CrawlAssumption DEF LinkTarget
  <2> QED BY <1>4, <2>3
<1> QED BY <1>3, <1>4, <1>5 DEF page

\* A page within the scope: all of its links are followed.
LEMMA PageFollowed ==
    ASSUME NEW world \in CrawlWorld, NEW p \in CrawlURL, NEW c, NEW item, NEW d \in Nat,
           QueueOK(c), item = <<p, d>>, FinalRoot(world[p]) \in ScopeRoots(c.seed)
    PROVE  FollowedTo(c, takePage(c, item, world[p]), d, Targets(world[p]))
<1> DEFINE page == world[p]
           n == Len(page.anchors)
           final == normalizeCrawlerURL[page.final]
           upTo(m) == {LinkTarget(page, i) : i \in {k \in extractCrawlerLinks(page) : k <= m}}
<1>1. /\ n \in Nat /\ extractCrawlerLinks(page) \subseteq 1..n
      /\ \A i \in extractCrawlerLinks(page) : LinkTarget(page, i) \in CrawlURL
  BY LinksResolve
<1>2. PICK f : FollowSteps(f, c, item, page, n) /\ takePage(c, item, page) = f[n]
  BY <1>1, TakePageUnfolds
<1>3. /\ c.queue \in Seq(CrawlURL \X Nat) /\ Len(c.queue) \in Nat
      /\ c.visited \subseteq c.queued /\ DOMAIN c = CrawlFields
  BY DEF QueueOK
<1>4. item[2] = d OBVIOUS
<1> HIDE DEF page, final
<1> DEFINE T == {m \in Nat : m <= n => FollowedTo(c, f[m], d, upTo(m))}
<1>5. 0 \in T
  <2> DEFINE c1 == [c EXCEPT !.pages = @ + 1]
  <2>1. f[0] = [c1 EXCEPT !.hosts = @ \cup ({final} \cap CrawlSubhost)]
    BY <1>1, <1>2 DEF FollowSteps, final
  <2>2. /\ DOMAIN c1 = CrawlFields
        /\ c1.phase = c.phase /\ c1.seeds = c.seeds /\ c1.seed = c.seed
        /\ c1.visited = c.visited /\ c1.rest = c.rest /\ c1.assets = c.assets
        /\ c1.queue = c.queue /\ c1.queued = c.queued /\ c1.outbound = c.outbound
    BY <1>3 DEF CrawlFields
  <2> HIDE DEF c1
  <2>3. /\ DOMAIN f[0] = CrawlFields
        /\ f[0].phase = c.phase /\ f[0].seeds = c.seeds /\ f[0].seed = c.seed
        /\ f[0].visited = c.visited /\ f[0].rest = c.rest /\ f[0].assets = c.assets
        /\ f[0].queue = c.queue /\ f[0].queued = c.queued /\ f[0].outbound = c.outbound
    BY <2>1, <2>2 DEF CrawlFields
  <2>4. upTo(0) = {} BY <1>1
  <2>5. \A i : i \notin (Len(c.queue) + 1)..Len(c.queue) BY <1>3
  <2> HIDE DEF upTo
  <2>6. FollowedTo(c, f[0], d, upTo(0)) BY <1>3, <2>3, <2>4, <2>5 DEF FollowedTo
  <2> QED BY <2>6
<1>6. ASSUME NEW m \in Nat, m \in T PROVE m + 1 \in T
  <2> SUFFICES ASSUME m + 1 <= n PROVE FollowedTo(c, f[m + 1], d, upTo(m + 1))
    OBVIOUS
  <2>1. FollowedTo(c, f[m], d, upTo(m)) BY <1>1, <1>6
  <2>2. m + 1 \in 0..n /\ m + 1 # 0 /\ (m + 1) - 1 = m BY <1>1
  <2>3. \A k \in 1..n : k <= m + 1 <=> k <= m \/ k = m + 1 BY <1>1
  <2>4. CASE m + 1 \in extractCrawlerLinks(page)
    <3> DEFINE t == LinkTarget(page, m + 1)
    <3>1. f[m + 1] = followLink(f[m], final, d, t)
      BY <1>2, <1>4, <2>2, <2>4 DEF FollowSteps, final
    <3>2. t \in CrawlURL BY <1>1, <2>4
    <3>3. {k \in extractCrawlerLinks(page) : k <= m + 1}
             = {k \in extractCrawlerLinks(page) : k <= m} \cup {m + 1}
      BY <1>1, <2>3, <2>4
    <3>4. upTo(m + 1) = upTo(m) \cup {t} BY <3>3
    <3> DEFINE before == f[m]
               seen == upTo(m)
    <3>5. FollowedTo(c, before, d, seen) BY <2>1
    <3> HIDE DEF t, before, seen
    <3>6. FollowedTo(c, followLink(before, final, d, t), d, seen \cup {t})
      BY <1>3, <3>2, <3>5, FollowLinkKeeps
    <3> QED BY <3>1, <3>4, <3>6 DEF before, seen
  <2>5. CASE m + 1 \notin extractCrawlerLinks(page)
    <3>1. f[m + 1] = f[m] BY <1>2, <2>2, <2>5 DEF FollowSteps
    <3>2. {k \in extractCrawlerLinks(page) : k <= m + 1}
             = {k \in extractCrawlerLinks(page) : k <= m}
      BY <1>1, <2>3, <2>5
    <3>3. upTo(m + 1) = upTo(m) BY <3>2
    <3> HIDE DEF upTo
    <3> QED BY <2>1, <3>1, <3>3
  <2> QED BY <2>4, <2>5
<1>7. Nat \subseteq T
  <2> HIDE DEF T
  <2> QED BY <1>5, <1>6, Numbers
<1>8. FollowedTo(c, f[n], d, upTo(n))
  <2> HIDE DEF n
  <2>1. n \in T
    <3> HIDE DEF T
    <3> QED BY <1>1, <1>7
  <2>2. n <= n BY <1>1
  <2> HIDE DEF upTo
  <2> QED BY <2>1, <2>2
<1>9. {k \in extractCrawlerLinks(page) : k <= n} = extractCrawlerLinks(page) BY <1>1
<1>10. upTo(n) = Targets(page) BY <1>9 DEF Targets
<1> QED BY <1>2, <1>8, <1>10 DEF page

\* What is left of one crawl when it has taken a page of depth d.
PageTaken(b, c, d, page) ==
    LET old == Len(b.queue)
    IN  /\ QueueOK(c) /\ c.phase = b.phase /\ c.seeds = b.seeds /\ c.seed = b.seed
        /\ c.visited = b.visited
        /\ DOMAIN c.outbound = DOMAIN b.outbound \cup OutboundRoots(b.seed, page)
        /\ c.queued = b.queued \cup IF d < CrawlMaxDepth THEN Followed(b.seed, page) ELSE {}
        /\ old <= Len(c.queue) /\ \A i \in 1..old : c.queue[i] = b.queue[i]
        /\ \A i \in (old + 1)..Len(c.queue) :
              c.queue[i][1] \in c.queued \ b.queued /\ c.queue[i][2] = d + 1

\* Links that are followed keep the queue in order.
LEMMA FollowedKeepsQueue ==
    ASSUME NEW b, NEW c, NEW d, NEW targets, QueueOK(b), FollowedTo(b, c, d, targets),
           targets \subseteq CrawlURL
    PROVE  QueueOK(c)
<1> DEFINE old == Len(b.queue)
           n == Len(c.queue)
<1>1. /\ DOMAIN c = CrawlFields /\ c.queue \in Seq(CrawlURL \X Nat)
      /\ c.visited = b.visited /\ b.queued \subseteq c.queued /\ c.queued \subseteq CrawlURL
  BY DEF FollowedTo, QueueOK
<1>2. /\ old \in Nat /\ n \in Nat /\ old <= n
      /\ DOMAIN b.queue = 1..old /\ DOMAIN c.queue = 1..n
      /\ \A i \in 1..n : i \in 1..old \/ i \in (old + 1)..n
      /\ \A i \in 1..old : i \in 1..n /\ i \notin (old + 1)..n
      /\ \A i \in (old + 1)..n : i \in 1..n
  BY <1>1 DEF FollowedTo, QueueOK
<1>3. \A i \in 1..old : c.queue[i] = b.queue[i] /\ b.queue[i][1] \in b.queued \ b.visited
  BY <1>2 DEF FollowedTo, QueueOK
<1>4. \A i \in (old + 1)..n : c.queue[i][1] \in c.queued \ b.queued
  BY DEF FollowedTo
<1>5. c.visited \subseteq c.queued /\ c.visited \subseteq b.queued BY <1>1 DEF QueueOK
<1>6. ASSUME NEW u \in c.queued
      PROVE  u \in c.visited \/ \E i \in 1..n : c.queue[i][1] = u
  <2>1. CASE u \in b.queued
    <3>1. u \in b.visited \/ \E i \in 1..old : b.queue[i][1] = u BY <1>2, <2>1 DEF QueueOK
    <3> QED BY <1>1, <1>2, <1>3, <3>1
  <2>2. CASE u \notin b.queued
    <3>1. \E i \in (old + 1)..n : c.queue[i][1] = u BY <2>2 DEF FollowedTo
    <3> QED BY <1>2, <3>1
  <2> QED BY <2>1, <2>2
<1>7. ASSUME NEW i \in 1..n PROVE c.queue[i][1] \in c.queued \ c.visited
  BY <1>1, <1>2, <1>3, <1>4, <1>5
<1>8. ASSUME NEW i \in 1..n, NEW j \in 1..n, i # j PROVE c.queue[i][1] # c.queue[j][1]
  <2>1. CASE i \in 1..old /\ j \in 1..old
    <3>1. b.queue[i][1] # b.queue[j][1] BY <1>2, <1>8, <2>1 DEF QueueOK
    <3> QED BY <1>3, <2>1, <3>1
  <2>2. CASE i \in (old + 1)..n /\ j \in (old + 1)..n BY <1>8, <2>2 DEF FollowedTo
  <2>3. CASE i \in 1..old /\ j \in (old + 1)..n
    <3>1. c.queue[i][1] \in b.queued BY <1>3, <2>3
    <3> QED BY <1>4, <2>3, <3>1
  <2>4. CASE j \in 1..old /\ i \in (old + 1)..n
    <3>1. c.queue[j][1] \in b.queued BY <1>3, <2>4
    <3> QED BY <1>4, <2>4, <3>1
  <2> QED BY <1>2, <2>1, <2>2, <2>3, <2>4
<1> QED BY <1>1, <1>2, <1>5, <1>6, <1>7, <1>8 DEF QueueOK

\* The page at the head of the queue is taken.
LEMMA PageIsTaken ==
    ASSUME NEW world \in CrawlWorld, NEW p \in CrawlURL, NEW c, NEW item, NEW d \in Nat,
           QueueOK(c), item = <<p, d>>
    PROVE  PageTaken(c, takePage(c, item, world[p]), d, world[p])
<1> DEFINE page == world[p]
           new == takePage(c, item, page)
<1>1. CASE FinalRoot(page) \in ScopeRoots(c.seed)
  <2>1. FollowedTo(c, new, d, Targets(page)) BY <1>1, PageFollowed
  <2>2. Targets(page) \subseteq CrawlURL BY LinksResolve DEF Targets
  <2> HIDE DEF page, new
  <2>3. QueueOK(new) BY <2>1, <2>2, FollowedKeepsQueue
  <2>4. OutboundRoots(c.seed, page) = {CrawlRoot[t] : t \in Targets(page)} \ ScopeRoots(c.seed)
    BY <1>1 DEF OutboundRoots
  <2>5. new.queued = c.queued \cup IF d < CrawlMaxDepth THEN Followed(c.seed, page) ELSE {}
    <3>1. {t \in Targets(page) \cap shouldFollowCrawlerURL :
              CrawlRoot[t] \in ScopeRoots(c.seed) /\ d < CrawlMaxDepth}
             = IF d < CrawlMaxDepth THEN Followed(c.seed, page) ELSE {}
      BY <1>1 DEF Followed
    <3> QED BY <2>1, <3>1 DEF FollowedTo
  <2>6. PageTaken(c, new, d, page) BY <2>1, <2>3, <2>4, <2>5 DEF PageTaken, FollowedTo
  <2> QED BY <2>6 DEF page, new
<1>2. CASE FinalRoot(page) \notin ScopeRoots(c.seed)
  <2> DEFINE counted == [c EXCEPT !.pages = @ + 1]
             outbound == captureCrawlerCandidate(c.outbound, FinalRoot(page), item[1])
  <2>1. DOMAIN c = CrawlFields BY DEF QueueOK
  <2>2. /\ DOMAIN counted = CrawlFields /\ counted.outbound = c.outbound
        /\ counted.phase = c.phase /\ counted.seeds = c.seeds /\ counted.seed = c.seed
        /\ counted.visited = c.visited /\ counted.queue = c.queue /\ counted.queued = c.queued
    BY <2>1 DEF CrawlFields
  <2>3. new = [counted EXCEPT !.outbound = captureCrawlerCandidate(@, FinalRoot(page), item[1])]
    BY Zenon, <1>2 DEF takePage
  <2>4. DOMAIN outbound = DOMAIN c.outbound \cup {FinalRoot(page)} BY CaptureDomain
  <2> HIDE DEF counted, new, outbound, page
  <2>5. new = [counted EXCEPT !.outbound = outbound] BY <2>2, <2>3 DEF outbound, CrawlFields
  <2>6. /\ DOMAIN new = CrawlFields /\ new.outbound = outbound
        /\ new.phase = c.phase /\ new.seeds = c.seeds /\ new.seed = c.seed
        /\ new.visited = c.visited /\ new.queue = c.queue /\ new.queued = c.queued
    BY <2>2, <2>5 DEF CrawlFields
  <2>7. QueueOK(new) BY <2>6 DEF QueueOK
  <2>8. OutboundRoots(c.seed, page) = {FinalRoot(page)} BY <1>2 DEF OutboundRoots
  <2>9. Followed(c.seed, page) = {} BY <1>2 DEF Followed
  <2>10. Len(c.queue) \in Nat BY DEF QueueOK
  <2>11. \A i : i \notin (Len(c.queue) + 1)..Len(c.queue) BY <2>10
  <2>12. PageTaken(c, new, d, page)
    BY <2>4, <2>6, <2>7, <2>8, <2>9, <2>10, <2>11 DEF PageTaken
  <2> QED BY <2>12 DEF page, new
<1> QED BY <1>1, <1>2

-----------------------------------------------------------------------------

\* The first URL of the queue is visited.
Popped(c) == [c EXCEPT !.queue = Tail(@), !.visited = @ \cup {Head(c.queue)[1]}]

LEMMA PoppedFacts ==
    ASSUME NEW c, QueueOK(c), c.queue # <<>>
    PROVE  /\ Len(c.queue) \in Nat \ {0} /\ Head(c.queue) = c.queue[1]
           /\ c.queue[1] \in CrawlURL \X Nat
           /\ c.queue[1][1] \in c.queued \ c.visited
           /\ Popped(c).visited = c.visited \cup {c.queue[1][1]}
           /\ Popped(c).queue = Tail(c.queue) /\ Len(Popped(c).queue) = Len(c.queue) - 1
           /\ \A i \in 1..(Len(c.queue) - 1) : Popped(c).queue[i] = c.queue[i + 1]
           /\ Popped(c).phase = c.phase /\ Popped(c).seeds = c.seeds /\ Popped(c).seed = c.seed
           /\ Popped(c).queued = c.queued /\ Popped(c).outbound = c.outbound
           /\ DOMAIN Popped(c) = CrawlFields
<1>1. DOMAIN c = CrawlFields /\ c.queue \in Seq(CrawlURL \X Nat) BY DEF QueueOK
<1>2. /\ Len(c.queue) \in Nat \ {0} /\ Head(c.queue) = c.queue[1]
      /\ 1 \in DOMAIN c.queue /\ c.queue[1] \in CrawlURL \X Nat
      /\ Len(Tail(c.queue)) = Len(c.queue) - 1
      /\ \A i \in 1..(Len(c.queue) - 1) : Tail(c.queue)[i] = c.queue[i + 1]
  BY <1>1
<1>3. c.queue[1][1] \in c.queued \ c.visited BY <1>2 DEF QueueOK
<1>4. /\ Popped(c).visited = c.visited \cup {c.queue[1][1]}
      /\ Popped(c).queue = Tail(c.queue)
      /\ Popped(c).phase = c.phase /\ Popped(c).seeds = c.seeds /\ Popped(c).seed = c.seed
      /\ Popped(c).queued = c.queued /\ Popped(c).outbound = c.outbound
      /\ DOMAIN Popped(c) = CrawlFields
  BY <1>1, <1>2 DEF Popped, CrawlFields
<1> QED BY <1>2, <1>3, <1>4

LEMMA PoppedKeepsQueue ==
    ASSUME NEW c, QueueOK(c), c.queue # <<>>
    PROVE  QueueOK(Popped(c))
<1> DEFINE b == Popped(c)
           n == Len(c.queue)
<1>1. /\ n \in Nat \ {0} /\ c.queue[1] \in CrawlURL \X Nat
      /\ c.queue[1][1] \in c.queued \ c.visited
      /\ b.visited = c.visited \cup {c.queue[1][1]}
      /\ b.queue = Tail(c.queue) /\ Len(b.queue) = n - 1
      /\ \A i \in 1..(n - 1) : b.queue[i] = c.queue[i + 1]
      /\ b.queued = c.queued /\ DOMAIN b = CrawlFields
  BY PoppedFacts
<1> HIDE DEF b
<1>2. c.queue \in Seq(CrawlURL \X Nat) BY DEF QueueOK
<1>3. b.queue \in Seq(CrawlURL \X Nat) BY <1>1, <1>2
<1>4. /\ DOMAIN c.queue = 1..n /\ DOMAIN b.queue = 1..(n - 1)
      /\ \A i \in 1..(n - 1) : i + 1 \in 1..n /\ i + 1 # 1
      /\ \A i \in 1..n : i = 1 \/ (i - 1 \in 1..(n - 1) /\ (i - 1) + 1 = i)
      /\ 1 \in 1..n
  BY <1>1, <1>2, <1>3
<1>5. b.visited \subseteq b.queued /\ b.queued \subseteq CrawlURL BY <1>1 DEF QueueOK
<1>6. ASSUME NEW u \in b.queued
      PROVE  u \in b.visited \/ \E i \in 1..(n - 1) : b.queue[i][1] = u
  <2>1. u \in c.visited \/ \E i \in 1..n : c.queue[i][1] = u BY <1>1, <1>4 DEF QueueOK
  <2>2. ASSUME NEW i \in 1..n, c.queue[i][1] = u, i # 1
        PROVE  \E j \in 1..(n - 1) : b.queue[j][1] = u
    <3>1. i - 1 \in 1..(n - 1) /\ (i - 1) + 1 = i BY <1>4, <2>2
    <3>2. b.queue[i - 1] = c.queue[i] BY <1>1, <3>1
    <3> QED BY <2>2, <3>1, <3>2
  <2> QED BY <1>1, <2>1, <2>2
<1>7. ASSUME NEW i \in 1..(n - 1), NEW j \in 1..n, i + 1 # j
      PROVE  c.queue[i + 1][1] # c.queue[j][1]
  BY <1>4, <1>7 DEF QueueOK
<1>8. ASSUME NEW i \in 1..(n - 1) PROVE b.queue[i][1] \in b.queued \ b.visited
  <2>1. c.queue[i + 1][1] \in c.queued \ c.visited BY <1>4 DEF QueueOK
  <2>2. c.queue[i + 1][1] # c.queue[1][1] BY <1>4, <1>7
  <2> QED BY <1>1, <2>1, <2>2
<1>9. ASSUME NEW i \in 1..(n - 1), NEW j \in 1..(n - 1), i # j
      PROVE  b.queue[i][1] # b.queue[j][1]
  <2>1. j + 1 \in 1..n /\ i + 1 # j + 1 BY <1>4, <1>9
  <2>2. c.queue[i + 1][1] # c.queue[j + 1][1] BY <1>7, <2>1
  <2> QED BY <1>1, <2>2
<1> QED BY <1>1, <1>3, <1>4, <1>5, <1>6, <1>8, <1>9 DEF QueueOK, b

\* The first URL of the queue is one link further than the last one fetched: the
\* level before it is fetched completely.
LEMMA LevelShifts ==
    ASSUME NEW c, NEW world, NEW h \in 0..CrawlMaxDepth, QueueOK(c), CrawlLevel(c, world, h),
           c.queue # <<>>, c.queue[1][2] # h
    PROVE  h + 1 \in 0..CrawlMaxDepth /\ c.queue[1][2] = h + 1 /\ CrawlLevel(c, world, h + 1)
<1> DEFINE W == Within(c.seed, world)
           n == Len(c.queue)
<1>0. CrawlMaxDepth \in Nat BY CrawlAssumption
<1>1. /\ c.queue \in Seq(CrawlURL \X Nat) /\ n \in Nat \ {0} /\ DOMAIN c.queue = 1..n
      /\ 1 \in 1..n /\ \A i \in 1..n : c.queue[i][2] \in Nat
      /\ \A i \in 1..n : i = 1 \/ 1 < i
  BY DEF QueueOK
<1>2. LevelOK(c, W, h) /\ VisitedOK(c, world, h) BY DEF CrawlLevel
<1>3. W[h + 1] = W[h] \cup UNION {Followed(c.seed, world[p]) : p \in W[h]} \/ h = CrawlMaxDepth
  <2>1. h \in 0..(CrawlMaxDepth - 1) \/ h = CrawlMaxDepth BY <1>0
  <2> QED BY <2>1, WithinUnfolds
<1> HIDE DEF W
<1>4. c.queue[1][2] = h + 1 /\ h < CrawlMaxDepth BY <1>1, <1>2 DEF LevelOK
<1>5. ASSUME NEW i \in 1..n
      PROVE  c.queue[i][2] = h + 1 /\ c.queue[i][1] \in W[h + 1] \ W[h]
  <2>1. c.queue[i][2] = h \/ c.queue[i][2] = h + 1 BY <1>1, <1>2 DEF LevelOK
  <2>2. c.queue[1][2] <= c.queue[i][2]
    <3>1. CASE i = 1 BY <1>0, <1>4, <3>1
    <3>2. CASE i # 1 BY <1>1, <1>2, <3>2 DEF LevelOK
    <3> QED BY <3>1, <3>2
  <2>3. c.queue[i][2] = h + 1 BY <1>0, <1>4, <2>1, <2>2
  <2>4. c.queue[i][2] # h BY <1>0, <2>3
  <2> QED BY <1>1, <1>2, <2>3, <2>4 DEF LevelOK
<1>6. W[h] \subseteq c.visited
  <2>1. SUFFICES ASSUME NEW u \in W[h] PROVE u \in c.visited
    OBVIOUS
  <2>2. u \in c.queued BY <1>2, <2>1 DEF LevelOK
  <2>3. u \in c.visited \/ \E i \in 1..n : c.queue[i][1] = u BY <1>1, <2>2 DEF QueueOK
  <2> QED BY <1>5, <2>1, <2>3
<1>7. W[h + 1] \subseteq c.queued
  <2>1. \A p \in c.visited : Followed(c.seed, world[p]) \subseteq c.queued
    BY <1>2, <1>4 DEF VisitedOK
  <2>2. W[h + 1] = W[h] \cup UNION {Followed(c.seed, world[p]) : p \in W[h]}
    BY <1>0, <1>3, <1>4
  <2>3. \A p \in W[h] : Followed(c.seed, world[p]) \subseteq c.queued BY <1>6, <2>1
  <2> QED BY <1>2, <2>2, <2>3 DEF LevelOK
<1>8. c.visited \subseteq W[h + 1]
  BY <1>0, <1>2, <1>3, <1>4 DEF LevelOK
<1>9. LevelOK(c, W, h + 1)
  <2>1. \A i \in 1..n : c.queue[i][2] = h + 1 /\ c.queue[i][1] \in W[h + 1] BY <1>5
  <2>2. h + 1 <= h + 1 BY <1>0
  <2> QED BY <1>1, <1>7, <1>8, <2>1, <2>2 DEF LevelOK
<1>10. VisitedOK(c, world, h + 1) BY <1>2, <1>4 DEF VisitedOK
<1>11. h + 1 \in 0..CrawlMaxDepth BY <1>0, <1>4
<1> QED BY <1>4, <1>9, <1>10, <1>11 DEF CrawlLevel, W

\* A page of the level at hand is taken.
LEMMA LevelKept ==
    ASSUME NEW c, NEW new, NEW world, NEW h \in 0..CrawlMaxDepth, QueueOK(c),
           CrawlLevel(c, world, h), c.queue # <<>>, c.queue[1][2] = h,
           PageTaken(Popped(c), new, h, world[c.queue[1][1]])
    PROVE  CrawlLevel(new, world, h)
<1> DEFINE W == Within(c.seed, world)
           n == Len(c.queue)
           p == c.queue[1][1]
           b == Popped(c)
           m == Len(new.queue)
<1>0. CrawlMaxDepth \in Nat BY CrawlAssumption
<1>1. /\ c.queue \in Seq(CrawlURL \X Nat) /\ n \in Nat \ {0} /\ DOMAIN c.queue = 1..n
      /\ 1 \in 1..n /\ \A i \in 1..n : c.queue[i][2] \in Nat
  BY DEF QueueOK
<1>2. /\ b.visited = c.visited \cup {p} /\ Len(b.queue) = n - 1
      /\ \A i \in 1..(n - 1) : b.queue[i] = c.queue[i + 1]
      /\ b.queued = c.queued /\ b.seed = c.seed /\ b.outbound = c.outbound
  BY PoppedFacts
<1>3. LevelOK(c, W, h) /\ VisitedOK(c, world, h) BY DEF CrawlLevel
<1>4. h < CrawlMaxDepth =>
         /\ W[h + 1] = W[h] \cup UNION {Followed(c.seed, world[q]) : q \in W[h]}
  <2>1. h < CrawlMaxDepth => h \in 0..(CrawlMaxDepth - 1) BY <1>0
  <2> QED BY <2>1, WithinUnfolds
<1> HIDE DEF W, b
<1>5. QueueOK(new) /\ new.seed = c.seed /\ new.visited = c.visited \cup {p}
  BY <1>2 DEF PageTaken, p, b
<1>6. /\ DOMAIN new.outbound = DOMAIN c.outbound \cup OutboundRoots(c.seed, world[p])
      /\ new.queued = c.queued \cup IF h < CrawlMaxDepth THEN Followed(c.seed, world[p]) ELSE {}
  BY <1>2 DEF PageTaken, p, b
<1>7. /\ n - 1 <= m /\ \A i \in 1..(n - 1) : new.queue[i] = b.queue[i]
      /\ \A i \in ((n - 1) + 1)..m :
            new.queue[i][1] \in new.queued \ c.queued /\ new.queue[i][2] = h + 1
  BY <1>2 DEF PageTaken, b
<1>8. m \in Nat /\ DOMAIN new.queue = 1..m BY <1>5 DEF QueueOK
<1> HIDE DEF p
<1>9. p \in W[h] BY <1>1, <1>3 DEF LevelOK, p
<1>10. /\ \A i \in 1..(n - 1) : new.queue[i] = c.queue[i + 1] /\ i + 1 \in 1..n
       /\ \A i \in 1..m : i \in 1..(n - 1) \/ (n <= i /\ i \in ((n - 1) + 1)..m)
       /\ \A i, j \in 1..(n - 1) : i < j => i + 1 < j + 1
  BY <1>1, <1>2, <1>7, <1>8
<1>11. ASSUME NEW i \in 1..m, i \notin 1..(n - 1)
       PROVE  /\ n <= i /\ new.queue[i][2] = h + 1 /\ h < CrawlMaxDepth
              /\ new.queue[i][1] \in W[h + 1] \ W[h]
  <2>1. new.queue[i][1] \in new.queued \ c.queued /\ new.queue[i][2] = h + 1 /\ n <= i
    BY <1>7, <1>10, <1>11
  <2>2. h < CrawlMaxDepth /\ new.queue[i][1] \in Followed(c.seed, world[p])
    BY <1>6, <2>1
  <2>3. new.queue[i][1] \in W[h + 1] BY <1>4, <1>9, <2>2
  <2>4. W[h] \subseteq c.queued BY <1>3 DEF LevelOK
  <2> QED BY <2>1, <2>2, <2>3, <2>4
<1>12. ASSUME NEW i \in 1..m
       PROVE  /\ new.queue[i][2] = h => new.queue[i][1] \in W[h]
              /\ new.queue[i][2] # h =>
                    /\ new.queue[i][2] = h + 1 /\ h < CrawlMaxDepth
                    /\ new.queue[i][1] \in W[h + 1] \ W[h]
  <2>1. CASE i \in 1..(n - 1)
    <3>1. new.queue[i] = c.queue[i + 1] /\ i + 1 \in DOMAIN c.queue BY <1>1, <1>10, <2>1
    <3>2. /\ c.queue[i + 1][2] = h => c.queue[i + 1][1] \in W[h]
          /\ c.queue[i + 1][2] # h =>
                /\ c.queue[i + 1][2] = h + 1 /\ h < CrawlMaxDepth
                /\ c.queue[i + 1][1] \in W[h + 1] \ W[h]
      BY <1>3, <3>1 DEF LevelOK
    <3> QED BY <3>1, <3>2
  <2>2. CASE i \notin 1..(n - 1) BY <1>0, <1>11, <2>2
  <2> QED BY <2>1, <2>2
<1>13. ASSUME NEW i \in 1..m, NEW j \in 1..m, i < j
       PROVE  new.queue[i][2] <= new.queue[j][2]
  <2>1. CASE j \in 1..(n - 1)
    <3>1. i \in 1..(n - 1) BY <1>1, <1>13, <2>1
    <3>2. /\ new.queue[i] = c.queue[i + 1] /\ new.queue[j] = c.queue[j + 1]
          /\ i + 1 \in 1..n /\ j + 1 \in 1..n /\ i + 1 < j + 1
      BY <1>10, <1>13, <2>1, <3>1
    <3> QED BY <1>1, <1>3, <3>2 DEF LevelOK
  <2>2. CASE j \notin 1..(n - 1)
    <3>1. new.queue[j][2] = h + 1 BY <1>11, <2>2
    <3>2. new.queue[i][2] = h \/ new.queue[i][2] = h + 1 BY <1>12
    <3> QED BY <1>0, <3>1, <3>2
  <2> QED BY <2>1, <2>2
<1>14. W[h] \subseteq new.queued /\ new.visited \subseteq W[h]
  BY <1>3, <1>5, <1>6, <1>9 DEF LevelOK
<1>15. LevelOK(new, W, h) BY <1>8, <1>12, <1>13, <1>14 DEF LevelOK
<1>16. h < CrawlMaxDepth =>
          \A q \in new.visited : Followed(c.seed, world[q]) \subseteq new.queued
  <2> SUFFICES ASSUME h < CrawlMaxDepth, NEW q \in new.visited
               PROVE  Followed(c.seed, world[q]) \subseteq new.queued
    OBVIOUS
  <2>1. CASE q = p BY <1>6, <2>1
  <2>2. CASE q \in c.visited
    <3>1. Followed(c.seed, world[q]) \subseteq c.queued BY <1>3, <2>2 DEF VisitedOK
    <3> QED BY <1>6, <3>1
  <2> QED BY <1>5, <2>1, <2>2
<1>17. DOMAIN new.outbound = UNION {OutboundRoots(c.seed, world[q]) : q \in new.visited}
  <2>1. DOMAIN c.outbound = UNION {OutboundRoots(c.seed, world[q]) : q \in c.visited}
    BY <1>3 DEF VisitedOK
  <2> QED BY <1>5, <1>6, <2>1
<1>18. VisitedOK(new, world, h) BY <1>5, <1>16, <1>17 DEF VisitedOK
<1> QED BY <1>5, <1>15, <1>18 DEF CrawlLevel, W

\* The queue is empty: everything within the depth limit is visited, once.
LEMMA LevelEnds ==
    ASSUME NEW c, NEW world, NEW h \in 0..CrawlMaxDepth, QueueOK(c), CrawlLevel(c, world, h),
           c.queue = <<>>
    PROVE  c.visited = Within(c.seed, world)[CrawlMaxDepth]
<1> DEFINE W == Within(c.seed, world)
           T == {n \in Nat : n \in h..CrawlMaxDepth => W[n] = c.visited}
<1>0. CrawlMaxDepth \in Nat /\ h \in Nat BY CrawlAssumption
<1>1. LevelOK(c, W, h) /\ VisitedOK(c, world, h) BY DEF CrawlLevel
<1>2. c.queued = c.visited
  <2>1. DOMAIN c.queue = {} OBVIOUS
  <2> QED BY <2>1 DEF QueueOK
<1>3. W[h] = c.visited BY <1>1, <1>2 DEF LevelOK
<1>4. \A n \in 0..(CrawlMaxDepth - 1) :
         W[n + 1] = W[n] \cup UNION {Followed(c.seed, world[p]) : p \in W[n]}
  BY WithinUnfolds
<1> HIDE DEF W
<1>5. 0 \in T
  <2>1. 0 \in h..CrawlMaxDepth => h = 0 BY <1>0
  <2> QED BY <1>3, <2>1
<1>6. ASSUME NEW n \in Nat, n \in T PROVE n + 1 \in T
  <2> SUFFICES ASSUME n + 1 \in h..CrawlMaxDepth PROVE W[n + 1] = c.visited
    OBVIOUS
  <2>1. CASE n + 1 = h BY <1>3, <2>1
  <2>2. CASE n + 1 # h
    <3>1. n \in h..CrawlMaxDepth /\ n \in 0..(CrawlMaxDepth - 1) /\ h < CrawlMaxDepth
      BY <1>0, <2>2
    <3>2. W[n] = c.visited BY <1>6, <3>1
    <3>3. \A p \in W[n] : Followed(c.seed, world[p]) \subseteq W[n]
      BY <1>1, <1>2, <3>1, <3>2 DEF VisitedOK
    <3>4. W[n + 1] = W[n] \cup UNION {Followed(c.seed, world[p]) : p \in W[n]}
      BY <1>4, <3>1
    <3> QED BY <3>2, <3>3, <3>4
  <2> QED BY <2>1, <2>2
<1>7. Nat \subseteq T
  <2> HIDE DEF T
  <2> QED BY <1>5, <1>6, Numbers
<1>8. CrawlMaxDepth \in T /\ CrawlMaxDepth \in h..CrawlMaxDepth BY <1>0, <1>7
<1> QED BY <1>8 DEF W

-----------------------------------------------------------------------------

\* The first URL of the queue is fetched, in vain or not.
LEMMA FetchKeeps ==
    ASSUME CrawlInv, NEW failed \in BOOLEAN, CrawlFetch(failed)
    PROVE  CrawlInv'
<1> DEFINE item == Head(crawl.queue)
           p == crawl.queue[1][1]
           d == crawl.queue[1][2]
           b == Popped(crawl)
           page == crawlWorld[p]
<1>1. /\ crawl.phase = "crawl" /\ crawl.queue # <<>> /\ QueueOK(crawl)
      /\ DOMAIN crawlHist = {"faults", "fetched", "asked"}
      /\ crawlHist.fetched \in [CrawlURL -> Nat] /\ crawlHist.faults \in Nat
      /\ crawl.seeds \subseteq CrawlSeeds /\ crawlWorld \in CrawlWorld
      /\ crawlHist.asked = {} /\ crawlWorld' = crawlWorld
      /\ \A u \in CrawlURL : crawlHist.fetched[u] = IF u \in crawl.visited THEN 1 ELSE 0
  BY DEF CrawlFetch, CanCrawl, CrawlInv, CrawlShape
<1>2. /\ crawl' = IF failed THEN b ELSE takePage(b, item, crawlWorld[item[1]])
      /\ crawlHist' = [crawlHist EXCEPT !.fetched[item[1]] = @ + 1,
                                        !.faults = IF failed THEN @ + 1 ELSE @]
  BY DEF CrawlFetch, Popped
<1>3. /\ item = crawl.queue[1] /\ crawl.queue[1] \in CrawlURL \X Nat
      /\ p \in crawl.queued \ crawl.visited /\ b.visited = crawl.visited \cup {p}
      /\ b.phase = crawl.phase /\ b.seeds = crawl.seeds /\ b.seed = crawl.seed
      /\ DOMAIN b = CrawlFields
  BY <1>1, PoppedFacts
<1>4. QueueOK(b) BY <1>1, PoppedKeepsQueue
<1>5. p \in CrawlURL /\ d \in Nat /\ item = <<p, d>> /\ item[1] = p BY <1>3
<1>6. PageTaken(b, takePage(b, item, page), d, page)
  <2> HIDE DEF b, item, p, d
  <2> QED BY <1>1, <1>4, <1>5, PageIsTaken
<1> HIDE DEF b, item, p, d, page
<1>7. crawl' = IF failed THEN b ELSE takePage(b, item, page) BY <1>2, <1>5 DEF page
<1>8. /\ QueueOK(crawl)' /\ crawl'.phase = "crawl" /\ crawl'.seeds = crawl.seeds
      /\ crawl'.visited = crawl.visited \cup {p}
  <2>1. CASE failed BY <1>1, <1>3, <1>4, <1>7, <2>1 DEF QueueOK
  <2>2. CASE ~failed
    <3>1. PageTaken(b, crawl', d, page) BY <1>6, <1>7, <2>2
    <3>2. QueueOK(crawl') BY <3>1 DEF PageTaken
    <3>3. crawl'.phase = b.phase /\ crawl'.seeds = b.seeds /\ crawl'.visited = b.visited
      BY <3>1 DEF PageTaken
    <3> QED BY <1>1, <1>3, <3>2, <3>3 DEF QueueOK
  <2> QED BY <2>1, <2>2
<1>9. /\ DOMAIN crawlHist' = {"faults", "fetched", "asked"} /\ crawlHist'.asked = {}
      /\ crawlHist'.faults = IF failed THEN crawlHist.faults + 1 ELSE crawlHist.faults
      /\ crawlHist'.fetched = [crawlHist.fetched EXCEPT ![p] = @ + 1]
  BY <1>1, <1>2, <1>5
<1>10. /\ crawlHist'.fetched \in [CrawlURL -> Nat] /\ crawlHist'.faults \in Nat
       /\ \A u \in CrawlURL : crawlHist'.fetched[u] = IF u \in crawl'.visited THEN 1 ELSE 0
  <2>1. crawlHist'.fetched \in [CrawlURL -> Nat] BY <1>1, <1>5, <1>9
  <2>2. crawlHist'.faults \in Nat BY <1>1, <1>9
  <2>3. \A u \in CrawlURL :
           crawlHist'.fetched[u] = IF u = p THEN crawlHist.fetched[u] + 1
                                   ELSE crawlHist.fetched[u]
    BY <1>1, <1>5, <1>9
  <2>4. p \notin crawl.visited BY <1>3 DEF p
  <2> QED BY <1>1, <1>8, <2>1, <2>2, <2>3, <2>4
<1>11. ASSUME crawlHist'.faults = 0
       PROVE  \E h \in 0..CrawlMaxDepth : CrawlLevel(crawl', crawlWorld, h)
  <2>1. ~failed /\ crawlHist.faults = 0 BY <1>1, <1>9, <1>11
  <2>2. PICK h \in 0..CrawlMaxDepth : CrawlLevel(crawl, crawlWorld, h)
    BY <1>1, <2>1 DEF CrawlInv
  <2>3. PageTaken(Popped(crawl), crawl', d, crawlWorld[crawl.queue[1][1]])
    BY <1>6, <1>7, <2>1 DEF b, page, p
  <2>4. CASE d = h
    <3>1. CrawlLevel(crawl', crawlWorld, h)
      BY <1>1, <2>2, <2>3, <2>4, LevelKept DEF d
    <3> QED BY <3>1
  <2>5. CASE d # h
    <3>1. h + 1 \in 0..CrawlMaxDepth /\ d = h + 1 /\ CrawlLevel(crawl, crawlWorld, h + 1)
      BY <1>1, <2>2, <2>5, LevelShifts DEF d
    <3>2. CrawlLevel(crawl', crawlWorld, h + 1)
      BY <1>1, <2>3, <3>1, LevelKept DEF d
    <3> QED BY <3>1, <3>2
  <2> QED BY <2>4, <2>5
<1>12. (\E h \in 0..CrawlMaxDepth : CrawlLevel(crawl', crawlWorld, h))
          => (\E h \in 0..CrawlMaxDepth : CrawlLevel(crawl, crawlWorld, h))'
  BY <1>1 DEF CrawlLevel, LevelOK, VisitedOK
<1>13. DOMAIN crawl' = CrawlFields BY <1>8 DEF QueueOK
<1>14. CrawlShape' BY <1>1, <1>8, <1>9, <1>10, <1>13 DEF CrawlShape
<1> QED BY <1>8, <1>9, <1>10, <1>11, <1>12, <1>14 DEF CrawlInv

\* A seed is started: its start URLs are the level 0.
LEMMA StartKeeps ==
    ASSUME CrawlInv, NEW s \in crawl.seeds, CrawlStartSeed(s)
    PROVE  CrawlInv'
<1> DEFINE left == [crawl EXCEPT !.seeds = @ \ {s}]
           queue == [i \in 1..Len(s) |-> <<s[i], 0>>]
<1>0. CrawlMaxDepth \in Nat BY CrawlAssumption
<1>1. /\ crawl.phase = "seeds" /\ DOMAIN crawl = CrawlFields /\ crawl.seeds \subseteq CrawlSeeds
      /\ crawlWorld \in CrawlWorld /\ crawlWorld' = crawlWorld
      /\ crawl' = IF s = <<>> THEN left ELSE NewCrawl(left, s)
      /\ crawlHist' = [faults |-> 0, fetched |-> [p \in CrawlURL |-> 0], asked |-> {}]
  BY DEF CrawlInv, CrawlShape, CrawlStartSeed
<1>2. /\ DOMAIN left = CrawlFields /\ left.seeds = crawl.seeds \ {s} /\ left.phase = "seeds"
  BY <1>1 DEF CrawlFields
<1>3. /\ DOMAIN crawlHist' = {"faults", "fetched", "asked"} /\ crawlHist'.asked = {}
      /\ crawlHist'.faults = 0 /\ crawlHist'.fetched = [p \in CrawlURL |-> 0]
  BY <1>1
<1> HIDE DEF left
<1>4. CASE s = <<>>
  <2>1. crawl' = left BY <1>1, <1>4
  <2>2. CrawlShape' BY <1>1, <1>2, <1>3, <2>1 DEF CrawlShape
  <2> QED BY <1>2, <2>1, <2>2 DEF CrawlInv
<1>5. CASE s # <<>>
  <2>1. crawl' = NewCrawl(left, s) BY <1>1, <1>5
  <2>2. /\ DOMAIN crawl' = CrawlFields /\ crawl'.phase = "crawl" /\ crawl'.seed = s
        /\ crawl'.queue = queue /\ crawl'.queued = Range(s) /\ crawl'.visited = {}
        /\ crawl'.outbound = <<>> /\ crawl'.seeds \subseteq CrawlSeeds
    BY <1>1, <1>2, <2>1 DEF NewCrawl, CrawlFields
  <2>3. s \in Seq(CrawlURL) /\ \A i, j \in DOMAIN s : i # j => s[i] # s[j]
    BY <1>1, CrawlAssumption
  <2>4. /\ Len(s) \in Nat /\ DOMAIN s = 1..Len(s) /\ \A i \in 1..Len(s) : s[i] \in CrawlURL
    BY <2>3
  <2>5. /\ queue \in Seq(CrawlURL \X Nat) /\ DOMAIN queue = 1..Len(s)
        /\ \A i \in 1..Len(s) : queue[i] = <<s[i], 0>>
    BY <2>4
  <2>6. Range(s) = {s[i] : i \in 1..Len(s)} /\ Range(s) \subseteq CrawlURL
    BY <2>4 DEF Range
  <2> HIDE DEF queue
  <2>7. /\ \A i \in 1..Len(s) : queue[i][1] = s[i] /\ queue[i][2] = 0
    BY <2>5
  <2>8. QueueOK(crawl)'
    BY <2>2, <2>3, <2>4, <2>5, <2>6, <2>7 DEF QueueOK
  <2>9. LevelOK(crawl', Within(s, crawlWorld), 0)
    <3>1. Within(s, crawlWorld)[0] = Range(s) BY WithinUnfolds
    <3>2. \A i \in 1..Len(s) : s[i] \in Range(s) BY <2>6
    <3> DEFINE W == Within(s, crawlWorld)
    <3> HIDE DEF W
    <3>3. 0 <= 0 OBVIOUS
    <3> QED BY <2>2, <2>5, <2>7, <3>1, <3>2, <3>3 DEF LevelOK, W
  <2>10. VisitedOK(crawl', crawlWorld, 0) BY <2>2 DEF VisitedOK
  <2>11. (\E h \in 0..CrawlMaxDepth : CrawlLevel(crawl, crawlWorld, h))'
    <3>1. CrawlLevel(crawl', crawlWorld', 0) BY <1>1, <2>2, <2>9, <2>10 DEF CrawlLevel
    <3>2. 0 \in 0..CrawlMaxDepth BY <1>0
    <3> QED BY <3>1, <3>2 DEF CrawlLevel, LevelOK, VisitedOK
  <2>12. CrawlShape' BY <1>1, <1>3, <2>2 DEF CrawlShape
  <2> QED BY <1>3, <2>2, <2>8, <2>11, <2>12 DEF CrawlInv
<1> QED BY <1>4, <1>5

\* What a step leaves alone of the crawl.
LEMMA CrawlRestKeeps ==
    ASSUME CrawlInv, crawlWorld' = crawlWorld,
           crawl.phase \in {"crawl", "judge"}, DOMAIN crawl' = CrawlFields,
           crawl'.phase \in {"judge", "seeds"}, crawl'.seeds = crawl.seeds,
           crawl'.seed = crawl.seed, crawl'.queue = crawl.queue,
           crawl'.queued = crawl.queued, crawl'.visited = crawl.visited,
           crawl'.outbound = crawl.outbound,
           DOMAIN crawlHist' = DOMAIN crawlHist,
           crawlHist'.faults = crawlHist.faults, crawlHist'.fetched = crawlHist.fetched,
           crawlHist'.asked \cup crawl'.rest = DOMAIN crawl.outbound
    PROVE  CrawlInv'
<1>1. QueueOK(crawl)' BY DEF CrawlInv, QueueOK
<1>2. (\E h \in 0..CrawlMaxDepth : CrawlLevel(crawl, crawlWorld, h))
         => (\E h \in 0..CrawlMaxDepth : CrawlLevel(crawl, crawlWorld, h))'
  BY DEF CrawlLevel, LevelOK, VisitedOK
<1>3. CrawlShape' BY DEF CrawlInv, CrawlShape
<1>4. crawlHist.faults = 0 => \E h \in 0..CrawlMaxDepth : CrawlLevel(crawl, crawlWorld, h)
  BY DEF CrawlInv
<1>5. \A p \in CrawlURL : crawlHist.fetched[p] = IF p \in crawl.visited THEN 1 ELSE 0
  BY DEF CrawlInv
<1> QED BY <1>1, <1>2, <1>3, <1>4, <1>5 DEF CrawlInv

LEMMA EndKeeps ==
    ASSUME CrawlInv, CrawlEnd
    PROVE  CrawlInv'
<1>1. DOMAIN crawl = CrawlFields /\ crawl.phase = "crawl" /\ crawlHist.asked = {}
  BY DEF CrawlInv, CrawlShape, CrawlEnd
<1>2. /\ DOMAIN crawl' = CrawlFields
      /\ crawl'.phase \in {"judge", "seeds"} /\ crawl'.seeds = crawl.seeds
      /\ crawl'.seed = crawl.seed /\ crawl'.queue = crawl.queue
      /\ crawl'.queued = crawl.queued /\ crawl'.visited = crawl.visited
      /\ crawl'.outbound = crawl.outbound /\ crawl'.rest = DOMAIN crawl.outbound
  BY <1>1 DEF CrawlEnd, CrawlFields
<1>3. crawlHist' = crawlHist /\ crawlWorld' = crawlWorld BY DEF CrawlEnd
<1> QED BY <1>1, <1>2, <1>3, CrawlRestKeeps

\* A batch is put to the judge, which answers it or does not.
LEMMA JudgeBatchKeeps ==
    ASSUME CrawlInv, CrawlJudgeBatch,
           \/ crawl' = [crawl EXCEPT !.rest = @ \ CrawlBatch]
           \/ \E accepted : crawl' = [crawl EXCEPT !.rest = @ \ CrawlBatch,
                                                   !.assets = @ \cup accepted]
    PROVE  CrawlInv'
<1>1. /\ DOMAIN crawl = CrawlFields /\ DOMAIN crawlHist = {"faults", "fetched", "asked"}
      /\ crawl.phase = "judge" /\ crawlHist.asked \cup crawl.rest = DOMAIN crawl.outbound
  BY DEF CrawlInv, CrawlShape, CrawlJudgeBatch
<1>2. CrawlBatch \subseteq crawl.rest BY DEF CrawlBatch, buildCrawlerJudgeCandidates
<1>3. /\ DOMAIN crawl' = CrawlFields
      /\ crawl'.phase = "judge" /\ crawl'.seeds = crawl.seeds
      /\ crawl'.seed = crawl.seed /\ crawl'.queue = crawl.queue
      /\ crawl'.queued = crawl.queued /\ crawl'.visited = crawl.visited
      /\ crawl'.outbound = crawl.outbound /\ crawl'.rest = crawl.rest \ CrawlBatch
  BY <1>1 DEF CrawlFields
<1>4. /\ DOMAIN crawlHist' = DOMAIN crawlHist /\ crawlWorld' = crawlWorld
      /\ crawlHist'.faults = crawlHist.faults /\ crawlHist'.fetched = crawlHist.fetched
      /\ crawlHist'.asked = crawlHist.asked \cup CrawlBatch
  BY <1>1 DEF CrawlJudgeBatch
<1>5. crawlHist'.asked \cup crawl'.rest = DOMAIN crawl.outbound BY <1>1, <1>2, <1>3, <1>4
<1> QED BY <1>1, <1>3, <1>4, <1>5, CrawlRestKeeps

LEMMA SeedDoneKeeps ==
    ASSUME CrawlInv, CrawlSeedDone
    PROVE  CrawlInv'
<1>1. /\ DOMAIN crawl = CrawlFields /\ DOMAIN crawl' = CrawlFields
      /\ crawl'.seeds = crawl.seeds /\ crawl'.phase = "seeds"
  BY DEF CrawlInv, CrawlShape, CrawlSeedDone, CrawlFields
<1>2. crawlWorld' = crawlWorld /\ crawlHist' = crawlHist /\ crawl.phase = "judge"
  BY DEF CrawlSeedDone
<1>3. CrawlShape' BY <1>1, <1>2 DEF CrawlInv, CrawlShape
<1> QED BY <1>1, <1>3 DEF CrawlInv

LEMMA CrawlNextKeeps ==
    ASSUME CrawlInv, CrawlNext
    PROVE  CrawlInv'
<1>1. CASE CrawlProcess
  <2>1. DOMAIN crawl = CrawlFields BY DEF CrawlInv, CrawlShape
  <2>2. DOMAIN crawl' = CrawlFields /\ crawl'.phase = "seeds" /\ crawl'.seeds = CrawlSeeds
    BY <1>1, <2>1 DEF CrawlProcess, CrawlFields
  <2>3. crawlWorld' \in CrawlWorld /\ crawlHist' = crawlHist BY <1>1 DEF CrawlProcess
  <2>4. CrawlShape' BY <2>2, <2>3 DEF CrawlInv, CrawlShape
  <2> QED BY <2>2, <2>4 DEF CrawlInv
<1>2. CASE CrawlReturn
  <2>1. DOMAIN crawl = CrawlFields BY DEF CrawlInv, CrawlShape
  <2>2. /\ DOMAIN crawl' = CrawlFields /\ crawl'.phase = "returned"
        /\ crawl'.seeds = crawl.seeds /\ crawl.phase = "seeds"
    BY <1>2, <2>1 DEF CrawlReturn, CrawlFields
  <2>3. crawlWorld' = crawlWorld /\ crawlHist' = crawlHist BY <1>2 DEF CrawlReturn
  <2>4. CrawlShape' BY <2>2, <2>3 DEF CrawlInv, CrawlShape
  <2> QED BY <2>2, <2>4 DEF CrawlInv
<1>3. CASE CrawlJudgeFails BY <1>3, JudgeBatchKeeps DEF CrawlJudgeFails
<1>4. CASE \E reply \in Replies(CrawlBatch), accepted \in SUBSET CrawlBatch :
              CrawlJudged(reply, accepted)
  BY <1>4, JudgeBatchKeeps DEF CrawlJudged
<1> QED BY <1>1, <1>2, <1>3, <1>4, StartKeeps, FetchKeeps, EndKeeps, SeedDoneKeeps DEF CrawlNext

\* The crawl is over: its queue is empty.
LEMMA CrawlCompletes ==
    ASSUME CrawlInv
    PROVE  CrawlIsComplete
<1> DEFINE reached == Within(crawl.seed, crawlWorld)[CrawlMaxDepth]
<1> SUFFICES ASSUME crawl.phase = "judge", crawlHist.faults = 0, crawl.queue = <<>>
             PROVE  /\ \A p \in CrawlURL :
                          crawlHist.fetched[p] = IF p \in reached THEN 1 ELSE 0
                    /\ crawlHist.asked \cup crawl.rest
                          = UNION {OutboundRoots(crawl.seed, crawlWorld[p]) : p \in reached}
  BY DEF CrawlIsComplete
<1>1. QueueOK(crawl) BY DEF CrawlInv
<1>2. PICK h \in 0..CrawlMaxDepth : CrawlLevel(crawl, crawlWorld, h) BY DEF CrawlInv
<1>3. crawl.visited = reached BY <1>1, <1>2, LevelEnds
<1> HIDE DEF reached
<1>4. DOMAIN crawl.outbound
         = UNION {OutboundRoots(crawl.seed, crawlWorld[p]) : p \in crawl.visited}
  BY <1>2 DEF CrawlLevel, VisitedOK
<1>5. /\ \A p \in CrawlURL : crawlHist.fetched[p] = IF p \in crawl.visited THEN 1 ELSE 0
      /\ crawlHist.asked \cup crawl.rest = DOMAIN crawl.outbound
  BY DEF CrawlInv
<1> QED BY <1>3, <1>4, <1>5

\* A crawl without failures that did not run into the page limit has fetched each URL
\* within the depth limit once and no other one, and puts all the outbound roots of
\* their pages to the judge (crawlSeed, Process).
THEOREM CrawlsAreComplete == StagesSpec => []CrawlIsComplete
<1>1. StagesInit => CrawlInv
  <2> SUFFICES ASSUME StagesInit PROVE CrawlInv
    OBVIOUS
  <2>1. /\ DOMAIN crawl = CrawlFields /\ crawl.phase = "idle" /\ crawl.seeds = {}
        /\ DOMAIN crawlHist = {"faults", "fetched", "asked"}
        /\ crawlHist.fetched = [p \in CrawlURL |-> 0] /\ crawlHist.faults = 0
    BY DEF StagesInit, CrawlInit, CrawlFields
  <2>2. CrawlShape BY <2>1 DEF CrawlShape
  <2> QED BY <2>1, <2>2 DEF CrawlInv
<1>2. CrawlInv /\ [StagesNext]_stageVars => CrawlInv'
  <2> SUFFICES ASSUME CrawlInv, [StagesNext]_stageVars PROVE CrawlInv'
    OBVIOUS
  <2>1. CASE CrawlNext BY <2>1, CrawlNextKeeps
  <2>2. CASE UNCHANGED crawlVars
    <3>1. crawl' = crawl /\ crawlHist' = crawlHist /\ crawlWorld' = crawlWorld
      BY <2>2 DEF crawlVars
    <3>2. CrawlShape' BY <3>1 DEF CrawlInv, CrawlShape
    <3> QED BY <3>1, <3>2 DEF CrawlInv, QueueOK, CrawlLevel, LevelOK, VisitedOK
  <2> QED BY <2>1, <2>2 DEF StagesNext, stageVars
<1>3. CrawlInv => CrawlIsComplete BY CrawlCompletes
<1> QED BY <1>1, <1>2, <1>3, PTL DEF StagesSpec

=============================================================================
