------------------------- MODULE RegistrationLookup -------------------------
(***************************************************************************)
(* registration.LookupDomain and the two collectors built on it,           *)
(* RDAPCollector and ReverseRegistrationCollector.  A lookup asks RDAP; on *)
(* 404 it asks WHOIS, and when that gives nothing the system's whois       *)
(* program, each with retries of its own.  Its result is data, an error,   *)
(* or ErrUnsupportedRegistrationData ("unsupported"), which every caller   *)
(* drops without a trace.                                                  *)
(***************************************************************************)
EXTENDS StageContext, FetchRetry

CONSTANTS
    RegWorld,           \* facts (registrant, email root, name-server roots) per
                        \* root; found: roots the certificate search knows by term
    RegSeeds,           \* seeds: [roots, company], company: what a search for the
                        \* company name is known by, or NoTerm
    NoTerm, WhoisMaxAttempts, MaxReverseCandidates

RegKind == {"rdap", "reverse"}

VARIABLES
    regWorld,
    lookup,     \* LookupDomain: state, root, attempt, whoisErr (what the first
                \* WHOIS lookup ended with), result
    reg,        \* Process: kind, phase, seeds, seed, roots still to look up,
                \* baseline facts, selected candidates, newErrors, newAssets
    regHist     \* of the lookup at hand: the WHOIS sources whose answer did not
                \* parse, and those that gave none

regVars == <<regWorld, lookup, reg, regHist, fetchVars>>

-----------------------------------------------------------------------------
(* LookupDomain.                                                           *)

NoLookup == [state |-> "idle", root |-> NoTerm, attempt |-> 0,
             whoisErr |-> "none", result |-> "none"]

\* A caller starts a lookup.
StartLookup(r) ==
    /\ lookup.state = "idle"
    /\ lookup' = [NoLookup EXCEPT !.state = "rdap", !.root = r]
    /\ req' = NewRequest
    /\ UNCHANGED ctxDone

Ends(result) == [lookup EXCEPT !.state = "done", !.result = result]

\* RDAP answers: 404 goes to WHOIS, 200 is read and parsed.
RDAPAnswer(good) ==
    /\ lookup.state = "rdap" /\ req.state = "done"
    /\ lookup' = CASE req.err \/ req.status \notin {"ok", "not_found"} -> Ends("error")
                   [] req.status = "not_found" ->
                        [lookup EXCEPT !.state = "whois", !.attempt = 1]
                   [] OTHER -> Ends(IF good THEN "data" ELSE "error")
    /\ req' = NoRequest
    /\ regHist' = [regHist EXCEPT !.unparsed = {}, !.unreached = {}]
    /\ UNCHANGED <<regWorld, reg, ctxDone, pctx>>

\* lookupDomainWHOISWith is over: data, or the system's whois is asked.
AfterWHOIS(outcome) ==
    IF outcome = "data" THEN Ends("data")
    ELSE [lookup EXCEPT !.state = "system", !.attempt = 1, !.whoisErr = outcome]

LookupError_DropsSecond(first, second) == IF first = "unsupported" THEN first ELSE second

\* lookupDomainWHOIS: of two failures the one that is a real error is returned.
LookupError(first, second) ==
    CASE first = "unsupported" -> second
      [] second = "unsupported" -> first
      [] OTHER -> second

AfterSystem(outcome) ==
    IF outcome = "data" THEN Ends("data")
    ELSE Ends(LookupError(lookup.whoisErr, outcome))

Whois == {"whois", "system"}
Settle(source, outcome) == IF source = "whois" THEN AfterWHOIS(outcome) ELSE AfterSystem(outcome)

\* One attempt of retryWHOISLookup or retrySystemWHOISLookup: an answer parses
\* or not; a failure is tried again unless it was the last or the context is
\* done.  An attempt that would start after the context is done is not made.
\* The program may fail and still print something, which ends the attempts
\* ("partial": it does not parse either).
WHOISAttempt(source, outcome) ==
    /\ lookup.state = source
    /\ ctxDone => outcome = "error"
    /\ outcome = "partial" => source = "system"
    /\ lookup' = IF /\ outcome = "error" /\ ~ctxDone
                    /\ lookup.attempt < WhoisMaxAttempts
                 THEN [lookup EXCEPT !.attempt = @ + 1]
                 ELSE Settle(source, IF outcome = "partial" THEN "error" ELSE outcome)
    /\ regHist' = [regHist EXCEPT
          !.unparsed = IF outcome = "unsupported" THEN @ \cup {source} ELSE @,
          !.unreached = IF lookup'.state # source /\ outcome \in {"error", "partial"}
                        THEN @ \cup {source} ELSE @]
    /\ UNCHANGED <<regWorld, reg, fetchVars, pctx>>

\* The context may end between attempts.
WHOISCancel ==
    /\ lookup.state \in Whois /\ ~ctxDone
    /\ ctxDone' = TRUE
    /\ UNCHANGED <<regWorld, lookup, reg, regHist, req, pctx>>

-----------------------------------------------------------------------------
(* The collectors.                                                         *)

RegInit ==
    /\ FetchInit
    /\ regWorld = CHOOSE w \in RegWorld : TRUE
    /\ lookup = NoLookup
    /\ reg = [kind |-> "rdap", phase |-> "idle", seeds |-> {},
              seed |-> [roots |-> {}, company |-> NoTerm], todo |-> {}, baseline |-> {},
              selected |-> {}, errors |-> {}, assets |-> {}]
    /\ regHist = [unparsed |-> {}, unreached |-> {}]

RegProcess(kind) ==
    /\ reg.phase = "idle"
    /\ regWorld' \in RegWorld
    /\ reg' = [reg EXCEPT !.kind = kind, !.phase = "seeds", !.seeds = RegSeeds]
    /\ UNCHANGED <<lookup, regHist, fetchVars, pctx>>

\* The baseline of a reverse lookup starts with the company's name.
RegStartSeed(s) ==
    /\ reg.phase = "seeds" /\ s \in reg.seeds
    /\ reg' = [reg EXCEPT !.phase = "base", !.seeds = @ \ {s}, !.seed = s, !.todo = s.roots,
                          !.baseline = {<<"org", s.company>>} \ {<<"org", NoTerm>>},
                          !.selected = {}]
    /\ UNCHANGED <<regWorld, lookup, regHist, fetchVars, pctx>>

RegLookup(r) ==
    /\ reg.phase \in {"base", "cands"} /\ r \in reg.todo
    /\ StartLookup(r)
    /\ UNCHANGED <<regWorld, reg, regHist, pctx>>

\* The result of a lookup.  RDAPCollector makes an asset of data; the reverse
\* collector adds the data to the baseline, or keeps a candidate that shares a
\* fact with it.  Only a real error is recorded.
RegResult ==
    /\ lookup.state = "done"
    /\ LET r == lookup.root
           facts == IF lookup.result = "data" THEN regWorld.facts[r] ELSE {}
           looked == [reg EXCEPT !.todo = @ \ {r},
                        !.errors = IF lookup.result = "error" THEN @ \cup {r} ELSE @]
       IN  reg' =
             CASE reg.kind = "rdap" ->
                    [looked EXCEPT !.assets = IF lookup.result = "data" THEN @ \cup {r} ELSE @]
               [] reg.phase = "base" -> [looked EXCEPT !.baseline = @ \cup facts]
               [] OTHER -> [looked EXCEPT !.selected =
                              IF facts \cap reg.baseline # {} THEN @ \cup {r} ELSE @]
    /\ lookup' = NoLookup
    /\ UNCHANGED <<regWorld, regHist, fetchVars, pctx>>

AtEnd(phase) == reg.phase = phase /\ reg.todo = {} /\ lookup.state = "idle"

\* The certificate search for the seed's term: roots that are not the seed's, at
\* most MaxReverseCandidates of them.
RegSearch(found) ==
    /\ AtEnd("base") /\ reg.kind = "reverse"
    /\ LET new == regWorld.found[reg.seed.company] \ reg.seed.roots
       IN  /\ found \subseteq new
           /\ \/ found = new /\ Cardinality(new) <= MaxReverseCandidates
              \/ found # new /\ Cardinality(found) = MaxReverseCandidates
    /\ reg' = [reg EXCEPT !.phase = "cands", !.todo = found]
    /\ UNCHANGED <<regWorld, lookup, regHist, fetchVars, pctx>>

RegSearchFails ==
    /\ AtEnd("base") /\ reg.kind = "reverse" /\ reg.seed.company # NoTerm
    /\ reg' = [reg EXCEPT !.phase = "cands", !.errors = @ \cup {reg.seed.company}]
    /\ UNCHANGED <<regWorld, lookup, regHist, fetchVars, pctx>>

RegSeedDone ==
    /\ \/ AtEnd("base") /\ reg.kind = "rdap"
       \/ AtEnd("cands") /\ (~pctx.judge \/ reg.selected = {})
    /\ reg' = [reg EXCEPT !.phase = "seeds"]
    /\ UNCHANGED <<regWorld, lookup, regHist, fetchVars, pctx>>

RegJudgeFails ==
    /\ AtEnd("cands") /\ pctx.judge /\ reg.selected # {}
    /\ reg' = [reg EXCEPT !.phase = "seeds", !.errors = @ \cup {"judge"}]
    /\ UNCHANGED <<regWorld, lookup, regHist, fetchVars, pctx>>

RegJudged(reply, accepted) ==
    /\ AtEnd("cands") /\ pctx.judge /\ reg.selected # {}
    /\ JudgeReplies("reverse_registration_collector", reg.selected, reply, accepted)
    /\ reg' = [reg EXCEPT !.phase = "seeds", !.assets = @ \cup accepted]
    /\ UNCHANGED <<regWorld, lookup, regHist, fetchVars>>

RegReturn ==
    /\ reg.phase = "seeds" /\ reg.seeds = {}
    /\ reg' = [reg EXCEPT !.phase = "returned"]
    /\ pctx' = [pctx EXCEPT !.assets = @ \cup reg.assets]
    /\ UNCHANGED <<regWorld, lookup, regHist, fetchVars>>

RegNext ==
    \/ \E kind \in RegKind : RegProcess(kind)
    \/ \E s \in reg.seeds : RegStartSeed(s)
    \/ \E r \in reg.todo : RegLookup(r)
    \/ FetchNext /\ UNCHANGED <<regWorld, lookup, reg, regHist, pctx>>
    \/ \E good \in BOOLEAN : RDAPAnswer(good)
    \/ \E source \in Whois, outcome \in {"data", "unsupported", "error", "partial"} :
          WHOISAttempt(source, outcome)
    \/ WHOISCancel \/ RegResult
    \/ \E found \in SUBSET UNION {regWorld.found[s.company] : s \in RegSeeds} : RegSearch(found)
    \/ RegSearchFails \/ RegSeedDone \/ RegJudgeFails
    \/ \E reply \in Replies(reg.selected), accepted \in SUBSET reg.selected :
          RegJudged(reply, accepted)
    \/ RegReturn

-----------------------------------------------------------------------------
(* Properties.                                                             *)

\* A lookup is given up in silence only when both WHOIS sources answered and
\* neither answer could be read; a source that was never reached is an error the
\* caller records (lookupDomainWHOIS).
SilentOnlyIfUnreadable ==
    lookup.result = "unsupported" =>
        regHist.unparsed = Whois /\ regHist.unreached = {}

=============================================================================
