---------------------------- MODULE DNSCollector ----------------------------
(***************************************************************************)
(* collect.DNSCollector.Process over the waves of a run: the seed's own    *)
(* records, the roots they refer to, the sweep of the seed's label over    *)
(* other public suffixes, and the judge.                                   *)
(*                                                                         *)
(* A root is a label and a public suffix.  A DNS answer is a set of facts  *)
(* <<kind, value, below>>: an address, or a host of root value (below: the *)
(* host is not the root itself).  The goroutines of one pool only add to   *)
(* results that are merged by index after all have ended, so a pool is a   *)
(* set of roots that shrinks in any order; its semaphore is released by    *)
(* every goroutine and decides nothing.                                    *)
(***************************************************************************)
EXTENDS StageContext

CONSTANTS
    Label,          \* registrable labels
    SuffixTable,       \* ICANNPublicSuffixes, in the order of the table
    Family,         \* LastLabel of every suffix
    Generic,        \* defaultGenericVariantSuffixes, in their order
    DNSWorld,       \* what the name servers and registries answer
    DNSFirstSeeds,  \* the seeds of the first frontier: sets of roots
    BatchSize, PrioritizedCap, MaxDNSWaves, MaxLookupFaults

Root == Label \X Range(SuffixTable)
LookupKind == {"ip", "mx", "ns", "txt", "cname"}

\* maxInt(1, ...) keeps the batches positive, a cap below one sweeps nothing, and
\* a seed's roots are registrable.
ASSUME DNSAssumption == /\ BatchSize \in Nat \ {0} /\ PrioritizedCap \in Nat
                        /\ DNSFirstSeeds \subseteq SUBSET Root
NoObservation == [dns |-> {}, rdap |-> {}, seen |-> FALSE]

VARIABLES
    dnsWorld,   \* the answers of name servers and registries, and the sweep mode
    dns,        \* Process: phase, seeds to come, seed at hand, roots whose goroutine
                \* has not ended (todo), results of the others (seen), baseline,
                \* candidateByRoot, labels to sweep, label at hand, probe roots of
                \* the batches to come, newAssets and newRelations
    dnsHist     \* waves and failed lookups so far; how often a sweep probed a root;
                \* what each seed put to the judge; which seed swept a label

dnsVars == <<dnsWorld, dns, dnsHist>>

-----------------------------------------------------------------------------
(* Observations.                                                           *)

\* observeDomain: the five lookups run concurrently and fail independently.
observeDomain(r, failed) == {f \in dnsWorld.dns[r] : f[1] \notin failed}

live(facts) == \E f \in facts : f[1] \in {"ip", "mx", "ns"}

\* LookupNS reports IsNotFound for a name that does not exist, and for one that
\* exists without name servers of its own (NODATA).
NSNotFound(r) == ~\E f \in dnsWorld.dns[r] : f[1] = "ns"

\* Registrable roots behind MX, NS and TXT, and addresses: what is compared.
Comparable(facts) == {<<f[1], f[2]>> : f \in {g \in facts : g[1] # "cname"}}

\* dnsSeedBaseline.addObservation: the registry's name servers count as NS roots.
addObservation(baseline, o) == baseline \cup Comparable(o.dns) \cup o.rdap

corroborated_ByReference(c, baseline) ==
    c.kinds # {} \/ (Comparable(c.obs.dns) \cup c.obs.rdap) \cap baseline # {}

\* buildDNSCandidateEvidence: a candidate is corroborated by an overlap with the
\* baseline; a variant or a reference alone is evidence but no corroboration.
corroborated(c, baseline) ==
    (Comparable(c.obs.dns) \cup {f \in c.obs.rdap : f[1] # "ns"}) \cap baseline # {}

\* domainCandidates: the hosts an observation refers to.
domainCandidates(facts) == {f \in facts : f[1] # "ip"}

ensureDNSPivotCandidate(cands, r) ==
    IF r \in DOMAIN cands THEN cands[r]
    ELSE [kinds |-> {}, variant |-> FALSE, obs |-> NoObservation]

\* The candidates with one more source kind for every root of refs.
addSources(cands, refs) ==
    [r \in DOMAIN cands \cup {f[2] : f \in refs} |->
        LET c == ensureDNSPivotCandidate(cands, r)
        IN  [c EXCEPT !.kinds = @ \cup {f[1] : f \in {g \in refs : g[2] = r}}]]

-----------------------------------------------------------------------------
(* The variant sweep.                                                      *)

Place(list, suffix) == CHOOSE i \in DOMAIN list : list[i] = suffix

\* prioritizedVariantSuffixes: the seed's own suffixes come first, then those of
\* the same family, the generic ones in their order, and the rest of the table.
prioritizedVariantSuffixes(seedRoots, suffix, other) ==
    LET current == {r[2] : r \in seedRoots}
        hints == {Family[s] : s \in current}
        class(s) == CASE s \in current -> 0
                      [] s \notin current /\ Family[s] \in hints -> 1
                      [] s \notin current /\ Family[s] \notin hints ->
                            IF s \in Range(Generic) THEN 2 ELSE 3
        place(s) == IF class(s) = 2 THEN Place(Generic, s) ELSE Place(SuffixTable, s)
    IN  \/ class(suffix) < class(other)
        \/ class(suffix) = class(other) /\ place(suffix) < place(other)

\* The roots of one label that are not the seed's.
Alternatives(l, seedRoots) == ({l} \X Range(SuffixTable)) \ seedRoots

\* The first n of these in the order of the sweep.
FirstOf(n, roots, seedRoots) ==
    {r \in roots :
        Cardinality({q \in roots : prioritizedVariantSuffixes(seedRoots, q[2], r[2])}) < n}

\* buildVariantProbeRoots: alternatives that are no candidates yet, cut off at
\* the cap in prioritized mode.
buildVariantProbeRoots(l, seedRoots, cands) ==
    LET new == Alternatives(l, seedRoots) \ DOMAIN cands
    IN  IF dnsWorld.mode = "prioritized" THEN FirstOf(PrioritizedCap, new, seedRoots) ELSE new

\* Its side effect: candidates met before the cap was reached become variants.
markVariants(l, seedRoots, cands) ==
    LET probes == buildVariantProbeRoots(l, seedRoots, cands)
        full == dnsWorld.mode = "prioritized" /\ Cardinality(probes) = PrioritizedCap
        met == {r \in Alternatives(l, seedRoots) :
                   full => \E p \in probes : prioritizedVariantSuffixes(seedRoots, r[2], p[2])}
    IN  [r \in DOMAIN cands |->
            IF r \in met
            THEN [cands[r] EXCEPT !.variant = TRUE, !.kinds = @ \cup {"variant"}]
            ELSE cands[r]]

AfterBatch_SkipsOne(rest) == rest \ FirstOf(BatchSize + 1, rest, dns.seed)

\* observeVariantCandidateRoots hands out the probe roots in batches.
NextBatch(rest) == FirstOf(BatchSize, rest, dns.seed)
AfterBatch(rest) == rest \ NextBatch(rest)

-----------------------------------------------------------------------------
(* Process.                                                                *)

NothingSeen == [r \in Root |-> NoObservation]

DNSInit ==
    /\ dnsWorld = CHOOSE w \in DNSWorld : TRUE
    /\ dns = [phase |-> "idle", seeds |-> {}, seed |-> {}, todo |-> {},
              seen |-> NothingSeen, baseline |-> {}, cands |-> <<>>,
              labels |-> {}, label |-> {}, rest |-> {}, assets |-> {}, relations |-> {}]
    /\ dnsHist = [wave |-> 0, faults |-> 0, probes |-> [r \in Root |-> 0],
                  judged |-> {}, sweeper |-> [l \in Label |-> {}]]

\* Process is called with the first frontier, and with the frontiers made of
\* promoted roots, one seed each (BuildDiscoveredSeed).
DNSProcess ==
    /\ \/ /\ dns.phase = "idle"
          /\ dnsWorld' \in DNSWorld
          /\ dns' = [dns EXCEPT !.phase = "seeds", !.seeds = DNSFirstSeeds]
          /\ UNCHANGED pctx
       \/ /\ dns.phase = "returned"
          /\ pctx.promoted # {} /\ dnsHist.wave < MaxDNSWaves
          /\ dns' = [dns EXCEPT !.phase = "seeds", !.seeds = {{r} : r \in pctx.promoted}]
          /\ pctx' = [pctx EXCEPT !.promoted = {}]
          /\ UNCHANGED dnsWorld
    /\ dnsHist' = [dnsHist EXCEPT !.wave = @ + 1]

DNSStartSeed(s) ==
    /\ dns.phase = "seeds" /\ s \in dns.seeds
    /\ dns' = [dns EXCEPT !.phase = "base", !.seeds = @ \ {s}, !.seed = s, !.todo = s,
                          !.seen = NothingSeen, !.baseline = {}, !.cands = <<>>]
    /\ UNCHANGED <<dnsWorld, pctx, dnsHist>>

\* A goroutine of a pool ends.  The registry is asked beside a base domain, but
\* of other roots only if they are live.  A probe without name servers of its own
\* gets this far only if the lookup that would have said so has failed.
DNSObserved(r, failed) ==
    /\ dns.phase \in {"base", "exact", "probe"} /\ r \in dns.todo
    /\ dns.phase = "probe" /\ NSNotFound(r) => "ns" \in failed
    /\ dnsHist.faults + Cardinality(failed) <= MaxLookupFaults
    /\ LET answer == observeDomain(r, failed)
           kept == dns.phase = "base" \/ live(answer)
           rdap == IF kept /\ "rdap" \notin failed THEN dnsWorld.rdap[r] ELSE {}
       IN  dns' = [dns EXCEPT !.todo = @ \ {r},
                     !.seen[r] = [dns |-> answer, rdap |-> rdap, seen |-> kept]]
    /\ dnsHist' = [dnsHist EXCEPT !.faults = @ + Cardinality(failed)]
    /\ UNCHANGED <<dnsWorld, pctx>>

\* observeVariantRoot: IsNotFound for the NS records settles a probe, whatever
\* other records the root has.
DNSPreflight(r) ==
    /\ dns.phase = "probe" /\ r \in dns.todo
    /\ NSNotFound(r)
    /\ dns' = [dns EXCEPT !.todo = @ \ {r}]
    /\ UNCHANGED <<dnsWorld, pctx, dnsHist>>

\* What a base domain refers to inside the seed: its addresses and other hosts.
InScope(r) ==
    {f \in dns.seen[r].dns :
        f[1] = "ip" \/ (f[2] \in dns.seed /\ (f[3] \/ f[2] # r))}

DNSMergeBase ==
    /\ dns.phase = "base" /\ dns.todo = {}
    /\ LET refs == {f \in UNION {domainCandidates(dns.seen[r].dns) : r \in dns.seed} :
                        f[2] \notin dns.seed}
           resolved == {r \in dns.seed : dns.seen[r].dns # {}}
       IN  dns' = [dns EXCEPT
              !.phase = "exact",
              !.baseline = UNION {addObservation({}, dns.seen[r]) : r \in dns.seed},
              !.assets = @ \cup {<<r, FALSE>> : r \in resolved}
                           \cup {<<f[2], f[3]>> : f \in UNION {InScope(r) : r \in resolved}},
              !.relations = @ \cup UNION {{<<<<r, FALSE>>, <<f[2], f[3]>>>> : f \in InScope(r)} :
                                          r \in resolved},
              !.cands = addSources(@, refs),
              !.todo = {f[2] : f \in refs},
              !.seen = NothingSeen]
    /\ UNCHANGED <<dnsWorld, pctx, dnsHist>>

\* Candidates with the observations of the goroutines that found them live.
Observed(cands, variant) ==
    LET found == {r \in Root : dns.seen[r].seen}
    IN  [r \in DOMAIN cands \cup found |->
            LET c == ensureDNSPivotCandidate(cands, r)
            IN  IF r \notin found THEN c
                ELSE [kinds |-> c.kinds \cup IF variant THEN {"variant"} ELSE {},
                      variant |-> c.variant \/ variant, obs |-> dns.seen[r]]]

DNSMergeExact ==
    /\ dns.phase = "exact" /\ dns.todo = {}
    /\ dns' = [dns EXCEPT !.phase = "labels", !.cands = Observed(@, FALSE),
                          !.seen = NothingSeen, !.labels = {r[1] : r \in dns.seed}]
    /\ UNCHANGED <<dnsWorld, pctx, dnsHist>>

\* A label that was swept before is passed over, and so is one that leaves
\* nothing to probe (without being marked).
DNSSkipLabel(l) ==
    /\ dns.phase = "labels" /\ l \in dns.labels
    /\ \/ l \in pctx.sweptLabels /\ dns' = [dns EXCEPT !.labels = @ \ {l}]
       \/ /\ l \notin pctx.sweptLabels /\ buildVariantProbeRoots(l, dns.seed, dns.cands) = {}
          /\ dns' = [dns EXCEPT !.labels = @ \ {l},
                                !.cands = markVariants(l, dns.seed, @)]
    /\ UNCHANGED <<dnsWorld, pctx, dnsHist>>

DNSStartSweep(l) ==
    /\ dns.phase = "labels" /\ l \in dns.labels \ pctx.sweptLabels
    /\ LET probes == buildVariantProbeRoots(l, dns.seed, dns.cands)
       IN  /\ probes # {}
           /\ dns' = [dns EXCEPT !.phase = "probe", !.labels = @ \ {l}, !.label = {l},
                                 !.cands = markVariants(l, dns.seed, @),
                                 !.todo = NextBatch(probes),
                                 !.rest = AfterBatch(probes)]
           /\ dnsHist' = [dnsHist EXCEPT
                 !.sweeper[l] = dns.seed,
                 !.probes = [r \in Root |-> IF r \in probes THEN @[r] + 1 ELSE @[r]]]
    /\ UNCHANGED <<dnsWorld, pctx>>

DNSNextBatch ==
    /\ dns.phase = "probe" /\ dns.todo = {} /\ dns.rest # {}
    /\ dns' = [dns EXCEPT !.todo = NextBatch(dns.rest), !.rest = AfterBatch(@)]
    /\ UNCHANGED <<dnsWorld, pctx, dnsHist>>

MarkDNSVariantSweepLabel_Forgets(labels) == pctx.sweptLabels

MarkDNSVariantSweepLabel(labels) == pctx.sweptLabels \cup labels

\* The sweep is over: its label is marked before any judge has seen the result.
DNSEndSweep ==
    /\ dns.phase = "probe" /\ dns.todo = {} /\ dns.rest = {}
    /\ dns' = [dns EXCEPT !.phase = "labels", !.cands = Observed(@, TRUE),
                          !.seen = NothingSeen]
    /\ pctx' = [pctx EXCEPT !.sweptLabels = MarkDNSVariantSweepLabel(dns.label)]
    /\ UNCHANGED <<dnsWorld, dnsHist>>

\* The live, corroborated candidates go to the judge in one request.
JudgeCandidates ==
    {r \in DOMAIN dns.cands :
        LET c == dns.cands[r]
        IN  c.obs.seen /\ live(c.obs.dns) /\ corroborated(c, dns.baseline)}

AtJudge == dns.phase = "labels" /\ dns.labels = {}

DNSNotJudged ==
    /\ AtJudge
    /\ ~pctx.judge \/ JudgeCandidates = {}
    /\ dns' = [dns EXCEPT !.phase = "seeds"]
    /\ UNCHANGED <<dnsWorld, pctx, dnsHist>>

\* The judge's error is recorded; the candidates are dropped with it.
DNSJudgeFails ==
    /\ AtJudge /\ pctx.judge /\ JudgeCandidates # {}
    /\ dns' = [dns EXCEPT !.phase = "seeds"]
    /\ dnsHist' = [dnsHist EXCEPT !.judged =
                      @ \cup {[seed |-> dns.seed, roots |-> JudgeCandidates]}]
    /\ UNCHANGED <<dnsWorld, pctx>>

DNSJudged(reply, accepted) ==
    /\ AtJudge /\ pctx.judge /\ JudgeCandidates # {}
    /\ JudgeReplies("dns_collector", JudgeCandidates, reply, accepted)
    /\ dns' = [dns EXCEPT !.phase = "seeds",
                          !.assets = @ \cup {<<r, FALSE>> : r \in accepted}]
    /\ dnsHist' = [dnsHist EXCEPT !.judged =
                      @ \cup {[seed |-> dns.seed, roots |-> JudgeCandidates]}]
    /\ UNCHANGED dnsWorld

\* Assets before relations: a relation's ends are looked up when it is added.
DNSReturn ==
    /\ dns.phase = "seeds" /\ dns.seeds = {}
    /\ dns' = [dns EXCEPT !.phase = "returned", !.assets = {}, !.relations = {}]
    /\ pctx' = [pctx EXCEPT !.assets = @ \cup dns.assets,
                                !.relations = @ \cup dns.relations]
    /\ UNCHANGED <<dnsWorld, dnsHist>>

DNSNext ==
    \/ DNSProcess
    \/ \E s \in dns.seeds : DNSStartSeed(s)
    \/ \E r \in dns.todo, failed \in SUBSET (LookupKind \cup {"rdap"}) : DNSObserved(r, failed)
    \/ \E r \in dns.todo : DNSPreflight(r)
    \/ DNSMergeBase \/ DNSMergeExact
    \/ \E l \in dns.labels : DNSSkipLabel(l) \/ DNSStartSweep(l)
    \/ DNSNextBatch \/ DNSEndSweep
    \/ DNSNotJudged \/ DNSJudgeFails
    \/ \E reply \in Replies(JudgeCandidates), accepted \in SUBSET JudgeCandidates :
          DNSJudged(reply, accepted)
    \/ DNSReturn

-----------------------------------------------------------------------------
(* Properties.                                                             *)

\* No root is probed twice by variant sweeps of one run, although several seeds
\* of a frontier and later frontiers share labels (HasDNSVariantSweepLabel).
VariantProbedOnce == \A r \in Root : dnsHist.probes[r] <= 1

\* Of a swept label nothing is lost but what the preflight drops: when no lookup
\* has failed, every root under another suffix that is live and shares a fact with
\* the sweeping seed was in that seed's request to the judge, in whatever batch it
\* was probed (exhaustive mode).  A root without name servers of its own is lost
\* unless the seed's own records refer to it: observeVariantRoot never asks for
\* its other records, observeDomain does.
SweepLosesNothing ==
    \A l \in pctx.sweptLabels :
        LET s == dnsHist.sweeper[l]
            base == UNION {Comparable(dnsWorld.dns[q]) \cup dnsWorld.rdap[q] : q \in s}
            referred == {f[2] : f \in UNION {domainCandidates(dnsWorld.dns[q]) : q \in s}}
            related == {r \in Root \ s : /\ r[1] = l /\ live(dnsWorld.dns[r])
                                         /\ ~NSNotFound(r) \/ r \in referred
                                         /\ Comparable(dnsWorld.dns[r]) \cap base # {}}
        IN  /\ dnsHist.faults = 0 /\ pctx.judge /\ dnsWorld.mode = "exhaustive"
            /\ dns.phase \in {"seeds", "returned"}
            => \/ related = {}
               \/ \E j \in dnsHist.judged : j.seed = s /\ related \subseteq j.roots

\* A root the collector promotes has answered for itself: it is none of its
\* seed's own, it is live, and it shares a fact with that seed.
PromotedIsCorroborated ==
    dns.phase # "idle" => \A r \in pctx.promoted :
        \E j \in dnsHist.judged :
            /\ r \in j.roots \ j.seed
            /\ live(dnsWorld.dns[r])
            /\ (Comparable(dnsWorld.dns[r]) \cup dnsWorld.rdap[r])
                 \cap UNION {Comparable(dnsWorld.dns[q]) \cup dnsWorld.rdap[q] : q \in j.seed}
               # {}

=============================================================================
