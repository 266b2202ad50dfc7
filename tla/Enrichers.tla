----------------------------- MODULE Enrichers -----------------------------
(***************************************************************************)
(* enrich.DomainEnricher and enrich.IPEnricher over the waves of a run.    *)
(* In each wave the domain enricher looks up the domains it has no         *)
(* complete answer for, with a pool of workers, merges the answers into    *)
(* the assets and emits their addresses; then the IP enricher looks up     *)
(* every address it still knows too little of, classifies it, and puts the *)
(* roots of the reverse names to the judge, one request per seed.          *)
(*                                                                         *)
(* A lookup that ends in "no such host" is one that finds nothing; one     *)
(* that fails otherwise, after its retries, is retryable.                  *)
(***************************************************************************)
EXTENDS StageContext

CONSTANTS
    EnrichWorld,      \* records: domain -> lookup kind -> values; rdap: domains with
                      \* registration data; ptr: ip -> root or NoPTR; asn, cidr: ip ->
                      \* seeds whose networks it is in
    DomainRank,       \* their order
    Registrable,      \* the identifiers that are registrable domains
    NoPTR,
    EnrichInput,      \* per wave, the <<identifier, enumeration>> the collectors found
    EnrichIPInput,    \* per wave, the <<ip, enumeration>> they found
    SeedOf,           \* the seed of an enumeration
    EnrichSeedRoots,  \* the registrable roots of a seed's domains
    MaxConcurrency,   \* workers of the domain enricher
    MaxEnrichFaults,  \* domains and addresses with a lookup that fails
    MaxEnrichRestarts

VARIABLES
    enrWorld,
    enr          \* phase, wave, domains and ips (the assets), relations, cache,
                 \* emittedIPKeys, jobs, busy (identifiers workers hold), results,
                 \* todo (addresses to look at), ptrs (<<seed, root>>), groups
                 \* (seeds to judge), followUps, faults, restarts; and what the
                 \* properties ask for: led, the <<enumeration, ip>> there ever were,
                 \* and the domains called unsupported since the last restart

enrVars == <<enrWorld, enr>>

LookupKinds == {"A", "AAAA", "MX"}
NoEntry == [records |-> {}, rdap |-> FALSE, dnsDone |-> FALSE, rdapDone |-> FALSE]
NoDomainAsset == [founder |-> "", enums |-> {}, records |-> {}, rdap |-> FALSE,
                  state |-> "missing"]
NewIPAsset == [founder |-> "", enums |-> {}, ptr |-> NoPTR, asn |-> {}, state |-> "missing",
               ownership |-> "associated_infrastructure"]

EnrichInit ==
    /\ enrWorld = CHOOSE w \in EnrichWorld : TRUE
    /\ enr = [phase |-> "idle", wave |-> 1, domains |-> <<>>, ips |-> <<>>,
              relations |-> {}, cache |-> <<>>, emitted |-> {}, jobs |-> {}, busy |-> {},
              results |-> <<>>, todo |-> {}, ptrs |-> {}, groups |-> {},
              followUps |-> {}, faults |-> 0, restarts |-> 0, led |-> {}, unsupported |-> {}]

\* Who may have found each new asset first.
Firsts(assets, found) ==
    LET new == {f[1] : f \in found} \ DOMAIN assets
    IN  {first \in [new -> {f[2] : f \in found}] : \A a \in new : <<a, first[a]>> \in found}

\* An asset that is found again gains a contributor (mergeAssetIntoCanonical); a
\* new one is of the enumeration that found it first (Asset.EnumerationID).
Contribute(assets, found, new, first) ==
    [a \in DOMAIN assets \cup {f[1] : f \in found} |->
        LET known == IF a \in DOMAIN assets THEN assets[a]
                     ELSE [new EXCEPT !.founder = first[a]]
        IN  [known EXCEPT !.enums = @ \cup {f[2] : f \in {g \in found : g[1] = a}}]]

Links(ips) == UNION {ips[i].enums \X {i} : i \in DOMAIN ips}

Entry(d) == IF d \in DOMAIN enr.cache THEN enr.cache[d] ELSE NoEntry
NeedsRDAP(d) == d \in Registrable /\ ~enr.domains[d].rdap
Done(entry, wantRDAP) == entry.dnsDone /\ (wantRDAP => entry.rdapDone)

\* The collectors of the wave are through and DomainEnricher.Process starts:
\* addresses that are assets already count as emitted, identifiers whose answer
\* is complete are not looked up again.
EnrichStart ==
    /\ enr.phase = "idle"
    /\ enrWorld' \in (IF enr.wave = 1 THEN EnrichWorld ELSE {enrWorld})
    /\ \E first \in Firsts(enr.domains, EnrichInput[enr.wave]),
          firstIP \in Firsts(enr.ips, EnrichIPInput[enr.wave]) :
          LET domains == Contribute(enr.domains, EnrichInput[enr.wave], NoDomainAsset, first)
              ips == Contribute(enr.ips, EnrichIPInput[enr.wave], NewIPAsset, firstIP)
              open == {d \in DOMAIN domains :
                          ~Done(Entry(d), d \in Registrable /\ ~domains[d].rdap)}
          IN  enr' = [enr EXCEPT !.phase = "lookup", !.domains = domains, !.ips = ips,
                         !.emitted = @ \cup Links(ips), !.led = @ \cup Links(ips),
                         !.jobs = open, !.results = <<>>]
    /\ UNCHANGED pctx

Workers == IF Cardinality(enr.jobs \cup enr.busy \cup DOMAIN enr.results) < MaxConcurrency
           THEN Cardinality(enr.jobs \cup enr.busy \cup DOMAIN enr.results)
           ELSE MaxConcurrency

ResultsBuffer_PerWorker(lookups, workers) == workers

\* results has room for every lookup: nobody reads it before all workers ended.
ResultsBuffer(lookups, workers) == lookups

\* An idle worker takes the next identifier from the unbuffered jobs channel.
EnrichTakeJob(d) ==
    /\ enr.phase = "lookup" /\ d \in enr.jobs
    /\ \A e \in enr.jobs : DomainRank[d] <= DomainRank[e]
    /\ Cardinality(enr.busy) < Workers
    /\ enr' = [enr EXCEPT !.jobs = @ \ {d}, !.busy = @ \cup {d}]
    /\ UNCHANGED <<enrWorld, pctx>>

DNSDone_Always(failed) == TRUE

\* Lookups whose failure is final leave the entry done; any other is tried again
\* in the next wave.
DNSDone(failed) == failed = {}

\* What LookupDomain may come to: registration data if there is any, the verdict
\* that there is none to be had (ErrUnsupportedRegistrationData, also for answers
\* it cannot read), or an error.  It is asked only for data that is missing.
RDAPAnswers(d) ==
    IF NeedsRDAP(d) /\ ~Entry(d).rdapDone
    THEN {"unsupported", "fails"} \cup (IF d \in enrWorld.rdap THEN {"data"} ELSE {})
    ELSE {"not asked"}

\* enrichDomain: the lookups still missing, of which the failed ones find nothing.
\* A domain called unsupported is done, without data, until the next restart.
enrichDomain(d, failed, answer) ==
    LET old == Entry(d)
        dns == IF old.dnsDone THEN old
               ELSE [old EXCEPT
                  !.records = @ \cup UNION {{k} \X enrWorld.records[d][k] : k \in LookupKinds \ failed},
                  !.dnsDone = DNSDone(failed)]
        full == [dns EXCEPT !.rdap = @ \/ answer = "data",
                            !.rdapDone = @ \/ answer \in {"data", "unsupported"}]
    IN  [entry |-> full, cached |-> FALSE,
         retryable |-> (~old.dnsDone /\ failed # {}) \/ answer = "fails"]

\* A worker finishes its lookups and sends the result, if results has room.
EnrichLookup(d, failed, answer) ==
    LET fails == failed # {} \/ answer = "fails"
    IN  /\ enr.phase = "lookup" /\ d \in enr.busy
        /\ fails => enr.faults < MaxEnrichFaults
        /\ Cardinality(DOMAIN enr.results)
              < ResultsBuffer(Cardinality(enr.jobs \cup enr.busy \cup DOMAIN enr.results), Workers)
        /\ enr' = [enr EXCEPT !.busy = @ \ {d}, !.faults = IF fails THEN @ + 1 ELSE @,
                      !.unsupported = IF answer = "unsupported" THEN @ \cup {d} ELSE @,
                      !.results = [e \in DOMAIN @ \cup {d} |->
                          IF e = d THEN enrichDomain(d, failed, answer) ELSE @[e]]]
        /\ UNCHANGED <<enrWorld, pctx>>

Result(d) ==
    IF d \in DOMAIN enr.results THEN enr.results[d]
    ELSE [entry |-> enr.cache[d], cached |-> TRUE, retryable |-> FALSE]

IPsOf(records) == {r[2] : r \in {x \in records : x[1] \in {"A", "AAAA"}}}

MergeResult(asset, d) ==
    LET result == Result(d)
    IN  [asset EXCEPT
            !.records = @ \cup result.entry.records,
            !.rdap = @ \/ (d \in Registrable /\ result.entry.rdap),
            !.state = IF result.cached THEN "cached"
                      ELSE IF result.retryable THEN "retryable" ELSE "completed"]

\* claimEmittedIP: an address is emitted once per enumeration; the relation to it
\* comes from the first domain, in order, of that enumeration.
ClaimedIPs(e, i) ==
    {d \in DOMAIN enr.domains :
        e \in enr.domains[d].enums /\ i \in IPsOf(Result(d).entry.records)}

Claimant(f) == CHOOSE d \in ClaimedIPs(f[1], f[2]) :
                  \A x \in ClaimedIPs(f[1], f[2]) : DomainRank[d] <= DomainRank[x]

\* The <<enumeration, ip>> of the answers that are not emitted yet.
FreshLinks ==
    (UNION {enr.domains[d].enums \X IPsOf(Result(d).entry.records) : d \in DOMAIN enr.domains})
      \ enr.emitted

\* All workers have ended: results are cached and merged into the assets; new
\* addresses are appended in the order of the domains that claim them.
EnrichMerge ==
    /\ enr.phase = "lookup" /\ enr.jobs = {} /\ enr.busy = {}
    /\ LET found == {<<f[2], f[1]>> : f \in FreshLinks}
       IN  \E first \in Firsts(enr.ips, found) :
              LET ips == Contribute(enr.ips, found, NewIPAsset, first)
              IN  /\ \A i \in DOMAIN first : \A f \in {g \in FreshLinks : g[2] = i} :
                        DomainRank[Claimant(<<first[i], i>>)] <= DomainRank[Claimant(f)]
                  /\ enr' = [enr EXCEPT !.phase = "ip",
                        !.cache = [d \in DOMAIN @ \cup DOMAIN enr.results |-> Result(d).entry],
                        !.domains = [d \in DOMAIN @ |-> MergeResult(@[d], d)],
                        !.emitted = @ \cup FreshLinks, !.led = @ \cup Links(ips),
                        !.relations = @ \cup {<<Claimant(f), f[2]>> : f \in FreshLinks},
                        !.ips = ips, !.todo = DOMAIN ips, !.ptrs = {}]
    /\ UNCHANGED <<enrWorld, pctx>>

-----------------------------------------------------------------------------
(* The IP enricher.                                                        *)

Contributors_First(asset) == {SeedOf[CHOOSE e \in asset.enums : TRUE]}

contributorSeedsForAsset(asset) == {SeedOf[e] : e \in asset.enums}

ipOwnershipMatchesSeed(i, asset, seeds) ==
    \E s \in seeds : \/ asset.ptr # NoPTR /\ asset.ptr \in EnrichSeedRoots[s]
                     \/ s \in asset.asn \cup enrWorld.cidr[i]

classifyCanonicalIPAsset(i, asset) ==
    LET seeds == contributorSeedsForAsset(asset)
    IN  [asset EXCEPT !.ownership =
            IF ipOwnershipMatchesSeed(i, asset, seeds) THEN "owned"
            ELSE IF asset.ptr # NoPTR THEN "uncertain" ELSE @]

\* needsIPEnrichment
StillOpen(asset) == asset.state \in {"missing", "retryable"}

\* The goroutine of one address: its lookups, unless they are complete, its
\* classification, and the root of its reverse name, for every contributor.
EnrichIP(i, ptrFails, asnFails) ==
    /\ enr.phase = "ip" /\ i \in enr.todo
    /\ ptrFails \/ asnFails => StillOpen(enr.ips[i]) /\ enr.faults < MaxEnrichFaults
    /\ LET asset == enr.ips[i]
           looked == IF ~StillOpen(asset) THEN asset
                     ELSE [asset EXCEPT
                        !.ptr = IF ptrFails THEN @ ELSE enrWorld.ptr[i],
                        !.asn = IF asnFails THEN @ ELSE enrWorld.asn[i],
                        !.state = IF ptrFails \/ asnFails THEN "retryable" ELSE "completed"]
       IN  enr' = [enr EXCEPT !.todo = @ \ {i},
                      !.faults = IF ptrFails \/ asnFails THEN @ + 1 ELSE @,
                      !.ips[i] = classifyCanonicalIPAsset(i, looked),
                      !.ptrs = IF looked.ptr = NoPTR THEN @
                               ELSE @ \cup contributorSeedsForAsset(asset) \X {looked.ptr}]
    /\ UNCHANGED <<enrWorld, pctx>>

PTRRoots(s) == {p[2] : p \in {q \in enr.ptrs : q[1] = s}}

\* All goroutines have ended: reverse names in a seed's scope are enqueued as
\* seeds, and the roots go to the judge.
EnrichIPsDone ==
    /\ enr.phase = "ip" /\ enr.todo = {}
    /\ enr' = [enr EXCEPT !.phase = "judge",
                  !.followUps = @ \cup {p \in enr.ptrs : p[2] \in EnrichSeedRoots[p[1]]},
                  !.groups = IF pctx.judge THEN {p[1] : p \in enr.ptrs} ELSE {}]
    /\ UNCHANGED <<enrWorld, pctx>>

EnrichJudgeFails(s) ==
    /\ enr.phase = "judge" /\ s \in enr.groups
    /\ enr' = [enr EXCEPT !.groups = @ \ {s}]
    /\ UNCHANGED <<enrWorld, pctx>>

EnrichJudged(s, reply, accepted) ==
    /\ enr.phase = "judge" /\ s \in enr.groups
    /\ JudgeReplies("ip_enricher", PTRRoots(s), reply, accepted)
    /\ enr' = [enr EXCEPT !.groups = @ \ {s}]
    /\ UNCHANGED enrWorld

EnrichWaveDone ==
    /\ enr.phase = "judge" /\ enr.groups = {}
    /\ enr' = IF enr.wave = Len(EnrichInput) THEN [enr EXCEPT !.phase = "returned"]
              ELSE [enr EXCEPT !.phase = "idle", !.wave = @ + 1]
    /\ pctx' = [pctx EXCEPT !.assets = @ \cup DOMAIN enr.ips]
    /\ UNCHANGED enrWorld

\* A resumed context takes every asset in again (ensureAssetStateLocked): it has
\* what it had but for its contributors, of which the first is left.
Reingested(assets) == [a \in DOMAIN assets |-> [assets[a] EXCEPT !.enums = {assets[a].founder}]]

\* The run goes on with another context: what the enricher remembered is gone
\* (ensureRunState), the assets are taken in again, the relations are dropped.
EnrichRestart ==
    /\ enr.phase = "idle" /\ enr.wave > 1 /\ enr.restarts < MaxEnrichRestarts
    /\ enr' = [enr EXCEPT !.cache = <<>>, !.emitted = {}, !.unsupported = {},
                          !.domains = Reingested(@), !.ips = Reingested(@),
                          !.relations = {}, !.restarts = @ + 1]
    /\ UNCHANGED <<enrWorld, pctx>>

EnrichNext ==
    \/ EnrichStart
    \/ \E d \in enr.jobs : EnrichTakeJob(d)
    \/ \E d \in enr.busy, failed \in SUBSET LookupKinds : \E answer \in RDAPAnswers(d) :
          EnrichLookup(d, failed, answer)
    \/ EnrichMerge
    \/ \E i \in enr.todo, ptrFails, asnFails \in BOOLEAN : EnrichIP(i, ptrFails, asnFails)
    \/ EnrichIPsDone
    \/ \E s \in enr.groups : EnrichJudgeFails(s)
    \/ \E s \in enr.groups : \E reply \in Replies(PTRRoots(s)), accepted \in SUBSET PTRRoots(s) :
          EnrichJudged(s, reply, accepted)
    \/ EnrichWaveDone \/ EnrichRestart

-----------------------------------------------------------------------------
(* Properties.                                                             *)

\* "completed" and "cached" mean what they say: whatever lookups failed in earlier
\* waves, whoever found the domain in the meantime and wherever the run was
\* resumed, such a domain has every record, has its registration data unless the
\* lookup since the last resume called it unsupported, and each of its addresses
\* is an asset that every enumeration of the domain contributes to (Process,
\* enrichDomain, claimEmittedIP).
CompletedIsComplete ==
    enr.phase \in {"ip", "judge"} =>
        \A d \in DOMAIN enr.domains :
            LET asset == enr.domains[d]
            IN  asset.state \in {"completed", "cached"} =>
                /\ \A k \in LookupKinds : \A v \in enrWorld.records[d][k] : <<k, v>> \in asset.records
                /\ d \in Registrable \cap enrWorld.rdap => asset.rdap \/ d \in enr.unsupported
                /\ \A i \in IPsOf(asset.records) :
                      i \in DOMAIN enr.ips /\ asset.enums \subseteq enr.ips[i].enums

\* After the IP enricher an address counts as uncertain exactly when its reverse
\* name is known and none of its contributors has evidence for it, in whatever
\* wave each contributor and each answer came.  It counts as owned when one has;
\* and when it does, some enumeration that ever led to it has, though a resumed
\* run may have forgotten which (classifyCanonicalIPAsset, ensureAssetStateLocked).
OwnershipMatchesEvidence ==
    enr.phase = "judge" =>
        \A i \in DOMAIN enr.ips :
            LET asset == enr.ips[i]
                owner(s) == \/ asset.ptr # NoPTR /\ asset.ptr \in EnrichSeedRoots[s]
                            \/ s \in asset.asn \cup enrWorld.cidr[i]
                owned == \E e \in asset.enums : owner(SeedOf[e])
            IN  /\ owned => asset.ownership = "owned"
                /\ asset.ownership = "owned" => \E l \in enr.led : l[2] = i /\ owner(SeedOf[l[1]])
                /\ asset.ownership = "uncertain" <=> ~owned /\ asset.ptr # NoPTR

=============================================================================
