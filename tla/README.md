# Verification of asset-discovery

asset-discovery starts from a few seeds (a company, its domains), collects assets around them in
waves, lets judges decide which further root domains belong to the owner, feeds the approved roots
back as new seeds, and exports what it found. It runs from the command line (`cmd/discover`) or as
a service (`cmd/server`, `cmd/worker`) in which a run is checkpointed, may pause for a human review
and is resumed by another process. These TLA+ modules model the scheduling core, the run service, the
asset graph and the discovery stages; TLC checks them on small instances and TLAPS proves the
central facts for all.

## 1. The system

| Component | Keeps | Operations | Hard parts |
|---|---|---|---|
| Seed scheduler (`models/seed_frontier.go`, `seed_helpers.go`, `pipeline_context_hooks.go`) | seeds, active and pending frontier, known keys, candidates with their evidence, depth, the reserved extra wave | InitializeSeedFrontier, EnqueueSeed, PromoteSeedCandidate, ReserveExtraCollectionWave, AdvanceSeedFrontier, Snapshot/RestoreSchedulerState | calls in any order from concurrent stages; three copies of one seed; depth boundary; restore |
| Pipeline engine (`dag/engine.go`) | RunProgress (wave, phase) | Resume, runWave, processNode | collectors run concurrently; phases repeat; errors of sequential stages end the run; every wave may find more |
| Run processor (`runservice/service_process_run.go`, `service_create_run.go`) | the snapshot of the run | CreateRun, process: load, mark running, checkpoint, complete, three failure paths | pausing, resuming, failing between a save and a projection |
| Pivots (`runservice/service_pivots.go`) | the broker's pivots, the snapshot's pivots | HandleCandidatePromotion, hydratePivotsFromJudges, DecidePivot | a reviewer acts on a checkpoint while processors come and go |
| Worker and lease (`runservice/worker.go`) | lease ID and expiry in the run document | claim, heartbeat, release | expiry, takeover, late answers |
| Projection stores (`projection_firestore.go`, `projection_memory.go`) | the read model, the lease | UpsertRun, lease transactions, other upserts | Firestore's UpsertRun reads and writes in two steps |
| Checkpoint stores (`checkpoints.go`, `checkpoints_gcs.go`) | one snapshot per run | Save, Load | last write wins, no fencing, non-atomic file write |
| Dispatchers (`dispatcher.go`, `job_dispatcher.go`) | a channel of run IDs, or a job execution | Enqueue, loop | restart forgets the channel; a refused job is not repeated |
| Mutation listener (`listener.go`) | a stale copy of the run record, the first error | callbacks on every mutation | its error drops the result of a finished run |
| Asset graph (`models/asset_*.go`, `assets.go`) | canonical assets, observations, relations and indexes | AppendAssets, AppendAssetObservations, AppendAssetRelations, reconcile | order of ingestion; rebuild after a resume |
| DNS collector (`collect/dns_collector.go`) | observations, baseline, candidates; the swept labels in the context | Process | pools of lookups, batches of variants, a cache over waves |
| Crawler, sitemaps, web hints (`collect/crawler_…`, `sitemap_…`, `web_hint_…`, `webhint`) | queues, visited sets, events | Process | redirects, cycles, budgets, partial failures |
| Passive collectors and registrations (`collect/*`, `registration/rdap.go`) | host budget, reverse-search candidates | Process, LookupDomain | a chain of sources that fail one by one |
| HTTP requests (`fetchutil/http.go`) | attempts | DoRequest | retries, the body of the last answer, cancellation |
| Enrichers (`enrich`) | cache and emitted addresses over the waves | Process | worker pool on two channels, half-finished lookups |
| AI search (`expand`, `search`) and reconsiderer (`reconsider`) | executed roots, the judge log | Process | batching by size, what was asked before |
| Judges (`ownership`, `webhint/judge.go`) | – | EvaluateCandidates | partial and overlong answers |
| Filters, exporters, lineage, telemetry (`filter`, `export`, `tracing`) | – | Process | pure, derived |
| Commands, assembly, HTTP API (`cmd`, `app`, `runservice/http.go` …) | – | wiring | – |

Stages call the scheduler of the `PipelineContext` they share (one mutex). The scheduler calls the
promotion handler (the pivot broker) with that mutex held. The engine calls the processor back at
every checkpoint; the processor saves the snapshot, then projects it. The API's DecidePivot changes
the snapshot in the checkpoint store and dispatches the run, which a worker claims by the lease in
the projection's run document.

What makes the parts correct: every key is a seed at most once and collected in one wave; the
number of waves is bounded; a scheduled seed is collected before the filters run; a resumed run
continues where the checkpoint was; a reviewer's decision is final; one process works on a run at a
time; a run is finished, waiting for a reviewer, or going to be processed; the graph has one asset
per name whatever arrives in whatever order; a stage neither loses a candidate nor does work twice,
reports what it could not do, and returns. `PROJECT.json` lists the hazards line by line.

## 2. Modules

| Module | Models | Extends |
|---|---|---|
| `FrontierOps` | the scheduler's methods as functions on its state | – |
| `FrontierOpsProofs` | lemmas: what each method does to the slices and keys | `FrontierOps` |
| `SeedFrontier` | the scheduler under any sequence of calls | `FrontierOps` |
| `SeedFrontierProofs` | theorems about it | `SeedFrontier`, `FrontierOpsProofs` |
| `PipelineEngine` | `Engine.Resume` and `runWave`; `Spec` is the command line's run | `FrontierOps` |
| `PipelineEngineProofs` | theorems about it | `PipelineEngine`, `FrontierOpsProofs` |
| `PivotOps` | broker, hydration, review status as functions | – |
| `RunLifecycle` | what the checkpoint of a run promises: its status, open reviews and decisions | – |
| `LiveRun` | run processor, failures, review, over all deliveries of one run; implements `RunLifecycle` | `PipelineEngine`, `PivotOps` |
| `LiveRunProofs` | theorems about it, the refinement among them | `LiveRun`, `PipelineEngineProofs` |
| `ExecutionLease` | worker, heartbeat, lease and the run document's writers | – |
| `ExecutionLeaseProofs` | theorems about it | `ExecutionLease` |
| `RunService` | DecidePivot, dispatch and workers, store call by store call | `PivotOps` |
| `RunServiceProofs` | theorems about it | `RunService` |
| `AssetCatalog` | what the asset graph promises: one entry per key | – |
| `AssetGraph` | `AppendAssets`, observations, relations, reconciliation, resume; implements `AssetCatalog` | – |
| `AssetGraphProofs` | theorems about it, the refinement among them | `AssetGraph` |
| `StageContext` | the part of the context the stages write, the judges, the thresholds | – |
| `DNSCollector`, `CrawlerCollector`, `SitemapCollector`, `Enrichers`, `Expanders` | the stages of these names; `Expanders` has the AI search and the reconsiderer | `StageContext` |
| `FetchRetry` | `DoRequest` | – |
| `PassiveCollectors`, `RegistrationLookup`, `WebHintCollector` | the collectors whose requests go through `DoRequest` | `StageContext`, `FetchRetry` |
| `Stages` | one stage at a time on one context | all stages |
| `StagesProofs` | theorems about nine of the stages | `Stages` |
| `MC*` | the small instances | |

Definitions with a suffix (`EnqueueSeed_KeepsCandidate`) are plausible mistakes: each stands before
the definition it distorts, is used by no specification, and was used to see that a property fails
with it.

### FrontierOps, SeedFrontier

A seed is its deduplication key plus the set of evidence signals it carries; a slice of seeds is a
function from keys to how many entries have the key and which evidence they carry (the order of
entries decides nothing). The candidate of a key keeps the distinct signals, whether one reaches
0.9 and whether one is reasoned: what `shouldPromoteSeedCandidate` asks. A call runs under the
context's mutex and is one step. `EnqueueSeed`, `PromoteSeedCandidate`, `AdvanceSeedFrontier`,
`ReserveExtraCollectionWave`, `RestoreSchedulerState` have the names and the branches of the code.
The handler's answer is an argument of `PromoteSeedCandidate`. `SeedFrontier` adds two history
variables: the keys that were ever in a frontier, and the waves opened.

### PipelineEngine

`activity` says where `Resume` is; `progress` is `RunProgress`. Collectors are a set that shrinks in
any order; the sequential nodes of a phase are counted. While a stage that judges runs, it may
promote any root (`DiscoverRoot`) or, in an enricher, follow a PTR hostname (`FollowHost`). Every
caller of PromoteSeedCandidate in the code presents reasoned evidence, so `ReasonedOffer` is the
only offer here; the other cases are SeedFrontier's. Collector errors are recorded by the code and
have no effect; an error of a sequential node ends `Resume`.

### LiveRun, RunLifecycle

The processor's three places for pivots are three variables: `broker`, `snapPivots` (the snapshot in
memory) and `saved.pivots` (the checkpoint store). That is where the failure paths differ:
a checkpoint and a completion save broker plus hydration, persistPipelineFailure and
persistArtifactFailure save the broker alone, handlePanic saves the last checkpoint's pivots.
`Crash` is the end of the process, and also every path on which `process` returns without a save.
`CheckpointError("project")` is a projection that fails after the save. `RefuseClaim` is a worker job
that is denied the lease and ends; it counts as a fault, and the lease itself is left to ExecutionLease
and RunService. `DecidePivot` is one step;
its separate calls are RunService's subject. `Reexecute` is an operator who executes the job of a
run that a fault or a refused claim has stopped (the deployment sets no retries).

`RunLifecycle` leaves the pipeline away and keeps what the saved snapshot says of the run: its status,
the roots whose review is open, the reviewer's decisions, and whether a processor is at work. The
refinement maps a wave, a phase and a promotion to a stutter and each save to `Checkpoint`,
`Complete` or `Fail`. The status a processor announces when it loads a run (`loadSnapshot`) is
projected and saved with the next checkpoint only, so the checkpoint says "queued" until then.

### ExecutionLease

The clock ticks; a heartbeat that is due happens before the next tick, which is what NewWorker's
check that the interval is shorter than the lease is for. A worker whose heartbeat fails or meets
another lease is `cancelled`, may still write for a while, and releases only its own lease. The
worker, the mutation listener and the API all write the run document with Firestore's UpsertRun,
which reads the lease fields in one step and writes them back in another. The history variable
`clobbered` becomes true, for good, when such a write puts back a lease that is no longer the one in
the document. (The memory store, which only tests use, does both under one mutex and never does
that.)

### RunService

Each store call is a step of its own, so that two calls of DecidePivot, and a call and a worker,
interleave where the code lets them. The deployment is chosen in the initial state: `jobs` says
whether executions are worker jobs with a lease or the in-process loop without one. `Concurrent` lets
reviews overlap. The reviewer may act as soon as the pivot is shown, so also before the job that
asked for the review has ended; a job whose claim is refused ends with `pc` = "refused". A call may
fail between two of its store calls (`MaxFaults`). A lease does not expire here (module
ExecutionLease has the clock): expiry would come to the rescue of nobody, as no dispatch is left by
then.

### AssetGraph, AssetCatalog

A sighting is a raw asset: its ID, the spelling it was seen under, the reason it gives and the
ownership it claims, if any. The index
of the code is not a variable: it is rebuilt from the assets, and `Resolve` looks through them. Every
operation begins with `ensureAssetStateLocked`, which is `EnsuredAssets`, `EnsuredObservations` and
`EnsuredRelations`. A resume loads the exported fields, so `initialized` is FALSE again and the next
operation, whichever it is, takes the assets for raw ones. Identifiers stay what NewID made them; of
the merged fields the name, the ownership, the inclusion reason and the provenance are kept.

The first explicit reason stays, unless another one comes with a stronger claim of ownership
(`incomingWins`). Today's collectors make no claim above the default of their kind of asset
(`dns_collector.go:369`, `:409`, `domain_enricher.go:275`), so this case is met by
`models/assets_test.go:5` and by whatever a later collector reports; the module allows any claim.
`Classify` is the IP enricher, which writes ownership and reason of an address in place.
An enrichment of an asset that is not there founds it, and a relation whose name is not there keeps
the ID its caller gave (`Handed`).

`AssetCatalog` is what readers of the graph may rely on: one entry per key, the ID of its founder for
good, the strongest ownership claimed, the first explicit reason or that of a stronger claim, what was
found out about an address, and its founder with the sightings since the last load. The refinement maps an
entry to the asset of its key; spellings, observations and relations disappear.

### The stages

`StageContext` has the context as the stages see it and `JudgeReplies`, the tail all judging stages
share: decisions for exactly the roots of the request, a record of them, and the promotion of roots
at or above the threshold (0.50 in autonomous, 0.20 in manual runs). Each module has its world as a
constant (what name servers, sites, registries and searches answer), one action per step of
`Process` between two things it waits for, and the failures its services may have. The goroutines
of one pool that are joined before anything reads their results are a set that shrinks in any order.

* `DNSCollector`: a name is a label and a public suffix, a DNS answer a set of facts. A seed's own
  records, the base roots they name, the exact candidates, then one sweep per label, in batches,
  each root after a preflight that drops what has no name servers of its own (`NSNotFound`);
  `prioritizedVariantSuffixes` or all suffixes by mode.
* `CrawlerCollector`: `crawlSeed` page by page with a queue, `seen`, depth, pages and links;
  `Within` is the reference it is compared with. A page is what remains of an answer.
* `SitemapCollector`: robots files and sitemaps, indexes that list each other, redirects, the
  document and URL limits, the judge's cap.
* `FetchRetry`: `DoRequest` as a machine that its callers start and read. The last retryable answer
  comes back without an error and with a closed body: `ReadsOpenBody` says no caller reads it.
* `PassiveCollectors`: the four archives and the ASN sweep with its two host limits.
* `RegistrationLookup`: RDAP, on 404 WHOIS, then the system's whois; RDAPCollector and
  ReverseRegistrationCollector on top.
* `WebHintCollector`: targets of a domain, redirects, parsing, the judge, and the events of a seed.
* `Enrichers`: the domain enricher's workers with the jobs and the results channel, cache, completion
  and emitted addresses over the waves; a registration lookup ends in data, in an error (asked again)
  or as unsupported (done without data). A restart loses the cache, which is not in a checkpoint, and
  leaves each asset its founding enumeration alone. Then the IP enricher.
* `Expanders`: AI search per focus root and wave, its filter, the batches by prompt size, the
  judge; after the last wave the reconsiderer's groups and the extra wave.

`Stages` puts them side by side: a behaviour is that of one stage. Their interplay over the
scheduler is the subject of `PipelineEngine`, over the assets that of `AssetGraph`.

## 3. Runs

| Run | Checks | Result |
|---|---|---|
| `SeedFrontier` | types, one wave per key, the copies of a seed agree, number of waves, last wave | holds |
| `PipelineEngine` | no scheduled seed is lost before the filters, Resume returns | holds |
| `LiveRun` | wave counter = depth, one wave per key, no seed lost, over pauses, resumes and one fault; decisions survive; a rejected root stays out; nothing enters a manual run unapproved; no dispatch of a working run; a run is completed unless a fault or refused claim stays unanswered; the run implements its lifecycle, in which review comes before completion | holds |
| `ExecutionLease` | types, mutual exclusion, heartbeats are not undone | holds |
| `RunService` | not stranded, acknowledged decisions kept, one processor, the read model catches up; both deployments | holds |
| `AssetGraph` | the merge filter's validation never fails; no sighting of an unresumed run is lost; the graph implements the catalog | holds |
| `Stages` | thirteen properties of the stages (below); every Process returns | holds |
| `AcceptedPivot` | an accepted pivot is a seed | violated |
| `LeaseFirestore` | the lease prevents duplicate work | violated |
| `LostWakeup` | a cleared review always leads to processing | violated |
| `LostDecision` | acknowledged decisions of overlapping calls are kept | violated |
| `ResumedGraph` | observations preserve repeated sightings | violated |

What `Stages` checks: no variant is probed twice over the seeds and waves of a run
(VariantProbedOnce), a sweep loses no related root between its batches (SweepLosesNothing), a root
the DNS collector promotes is live and shares a fact with its seed (PromotedIsCorroborated); a crawl
fetches exactly what is within its limits, once, and has every outbound root judged
(CrawlIsComplete); a sitemap is parsed once under whatever URL (DocumentParsedOnce); a closed body is
not read (ReadsOpenBody); a registration is given up in silence only when both sources answered
unreadably (SilentOnlyIfUnreadable); every hinted root is accounted for (HintsExplained); a domain
that counts as enriched has everything there is (CompletedIsComplete); the ownership of an address is
what all its contributors imply (OwnershipMatchesEvidence); batches lose nothing and keep their limit
(BatchesCoverCandidates); the AI search does not ask a judge again for what is decided
(NotAskedAgain); every stage returns (StageReturns). What SweepLosesNothing,
CompletedIsComplete and OwnershipMatchesEvidence except is listed below.

What `LiveRun` checks of the lifecycle (ImplementsLifecycle): a checkpoint leaves the run waiting
exactly if a review is open, and the processor then stops unless it fails; a decision ends the wait only
if it was the last one open; it takes a fault to fail, or to be completed with a review open; and, unless
a decision was made while a processor worked, no save takes a decision back and a processor starts only
where no review is open, without faults only from the queue.
That a run without faults is completed only when every pivot is decided (ReviewedBeforeCompletion)
follows from it; the theorem `CompletedIsReviewed` says it on its own.

The violated runs are disagreements between the code and what its comments, tests or documents say;
`PROJECT.json` quotes the lines.

* AcceptedPivot: a low-confidence discard found in the last frontier of a manual run becomes a
  pending pivot; when it is accepted the depth is used up, EnqueueSeed refuses and its answer is
  ignored.
* LeaseFirestore: an upsert that read the document before a claim writes the old (empty) lease back.
* LostWakeup: the pivot is visible before the lease is released; the resumed job is refused and
  ends without an error.
* LostDecision: load, change, save without a precondition.
* ResumedGraph: `assetStateInitialized` is not part of a checkpoint, so the first access after a
  resume drops all observations and relations and makes one observation per asset.

### What the passing properties except

Some properties hold only outside situations that the code really meets. Each exception is a
condition in the property and is named here, so that nobody reads more into a run than it shows.

* `overlap` (LiveRun): when a projection fails after the checkpoint was saved, the checkpoint
  already invites a review while the processor is still on its way to saving the failure
  (`service_process_run.go:155-186`). A decision made in between is overwritten by that save.
  DecisionsSurvive, SeedsCollected and DispatchedOnlyWhenIdle speak of runs in which no decision was
  made while a processor worked; in `RunLifecycle` it is `contended`, and a decision may be lost then.
* A second fault (LiveRun): SeedsCollected speaks of runs with at most one fault. When the
  checkpoints after a discovery wave and after the reconsideration both fail, the failure saves the
  broker without hydration each time, and the run is completed with a discarded root still pending; a
  root accepted from there is scheduled behind the last advance and never collected.
* `clobbered` (ExecutionLease): see LeaseFirestore. MutualExclusion and HeartbeatNotUndone speak
  of behaviours in which no outdated lease was written back.
* Refused and failed calls (RunService): NotStranded excepts a run whose dispatched job was refused
  (LostWakeup) and one whose DecidePivot failed between the save and the dispatch. The caller cannot
  repeat that decision: the pivot is no longer pending (`service_pivots.go:38-40`).
  ProjectionMatches speaks of behaviours without a failed call.
* Refused claims (LiveRun): a worker job whose claim is refused ends without an error
  (`worker.go:90-92`), and its run stays queued without any other fault, as LostWakeup shows.
  RunCompletes therefore says: completed, unless a fault or a refused claim is followed by no
  execution an operator starts.
* Roots without name servers of their own (DNSCollector): the preflight of the variant sweep skips a
  root when LookupNS reports `IsNotFound` (`dns_collector.go:1160`, `1559-1562`), which Go does for a
  name without NS records as well as for one that does not exist, although log and metric say
  NXDOMAIN. A live variant with addresses or mail servers only is dropped for good. SweepLosesNothing
  excepts these roots unless the seed's own records refer to them (those are observed without a
  preflight).
* Unsupported registrations and resumes (Enrichers): a domain whose lookup ended in
  `ErrUnsupportedRegistrationData` (RDAP does not know it, WHOIS cannot be read) counts as completed
  without registration data until the cache is gone; CompletedIsComplete excepts it. After a resume
  an asset knows the enumeration that founded it only, so an address may stay owned without a
  contributor that says why; OwnershipMatchesEvidence asks then that a seed which led to it once does.
* Resumes (AssetGraph): SightingsKept speaks of runs that were not resumed; see ResumedGraph.
* Failures (Stages): CrawlIsComplete and SweepLosesNothing speak of crawls and sweeps in which no
  fetch or lookup failed (a failed one is recorded by the code and not repeated), the first also of
  crawls that did not meet the page limit, the second of the exhaustive mode and a configured judge.
  The other properties of the stages hold with every failure.

Three more things that no property states. In the ASN sweep a seed's remaining host budget limits a
prefix only while it is positive; once it is used up, further prefixes are swept up to the limit per
prefix again (`HostLimit`). `NewReverseRegistrationCollector` sets its default judge after it has
applied the options, so a judge given as an option is replaced. An address that is found uncertain and later
owned keeps the reason "… but PTR points to …" (`ip_enricher.go:517-521` replaces an empty reason only).

One more observation is stated by no property: hydration writes `auto_rejected` pivots for discarded
roots into the snapshot, and a resumed processor loads them into its broker. From then on the broker
of an autonomous run rejects such a root when the reconsiderer approves it, while the same run
without the restart accepts it.

### Bounds

* `SeedFrontier`: 4 keys (one submitted and one for each wave that may follow), 2 signals (the rule
  that asks for two distinct signals), depth 2 (a frontier below the bound, at it, and the extra
  wave). Submissions have one or two entries and may contain a key twice.
* `PipelineEngine`: 4 keys, depth 2, 2 collectors: enough for every phase, an empty first wave, and a
  seed found in the extra wave.
* `LiveRun`, `AcceptedPivot`: 1 submitted root, 2 to find, 1 PTR hostname, depth 1, one fault of any
  kind, a refused claim included, and one execution after it: a review in the last normal wave, in
  the reconsideration and in the extra wave all occur.
* `ExecutionLease`: 3 workers, 1 API call, lease 3, heartbeat 2, clock to 6: expiry, takeover, a
  second renewal. The run stops at clobbered states (constraint `Unclobbered`): `clobbered` never
  becomes false again (lemma `ClobberedStays`) and the properties say nothing of the states behind
  it, so nothing they speak of is cut off. `LeaseFirestore` has no constraint.
* `RunService`: 2 pivots, 3 executions, 3 calls, 1 failed call: a review that leaves one pending, one
  that clears, a refused one.
* `AssetGraph`: 4 sightings under 3 spellings of 2 keys: a domain in two spellings with and without
  an explicit reason, an address with two explicit reasons, the second with the stronger claim; 1
  enrichment, 2 relations, 2 resumes: merging, every order, a relation before and after its ends
  exist, a resume before and after each.
* `Stages`: per stage 2 to 8 names and one failure (two attempts per request), with every limit
  (pages, links, depth, documents, URLs, candidates, batches, prompt, hosts per prefix and per AS)
  small enough to be reached: a second batch, a redirect out of scope, indexes that name each other
  or redirect to each other, an address two domains share over two waves with a failure and a
  restart between, registration data that one lookup gets and another calls unsupported, one worker
  for two domains, a search result above the cap. MaxPromptChars is positive (0 switches the code's
  limit off), and the confidence is one of three bands around the thresholds.
* Symmetry is used only in runs of invariants and step properties over interchangeable workers,
  calls and pivots.
* Deadlock is not checked: a finished run, a run that waits for nobody and a clock at its bound stop.

### Fairness

`PipelineEngine.Spec`: weak fairness of the control steps together. The stages bound their own
network calls by timeouts and the Go scheduler runs a goroutine that can run; discoveries get no
fairness, so "Resume returns" is not bought by assuming that stages stop finding things at some
time, only by the frontier's bounds. `LiveSpec` adds weak fairness of the processor (a dispatched
run is picked up, unless `RefuseClaim` consumes the dispatch first) and of the reviewer, who decides
in the end. Faults, refused claims and operators get none. `StagesSpec`: weak fairness of the whole
next-state relation, that is, something happens as long as something can: goroutines run, and a
request or lookup ends in an answer or its timeout: every HTTP client and resolver of NewPipeline has
one. The `whois` program has none of its own (`rdap.go:484-491`): the domain enricher and the DNS
collector bound it from outside, but under RDAPCollector and ReverseRegistrationCollector StageReturns
rests on the assumption that the program ends. No
particular answer is assumed, so StageReturns has to come from the limits and from the size of the
results channel.

## 4. Proofs

`SeedFrontierProofs`, for every set of keys and signals, every depth, every submission and offer:

* `TypeCorrect`; `FrontierInvariant`: the inductive invariant `IInv`.
* `SeedsCollectedOnce`, `CopiesConsistent`, `WaveBound`, `LastWave` follow from it.

Deduplication is not inductive alone: it needs that known keys are exactly the keys of Seeds, that
whatever was in a frontier is known (`HistoryInv`), that a key without an entry carries no evidence,
and that a known key has no candidate (otherwise a candidate could promote it again). The wave bound
needs `BoundInv`: a seed is pending only while an advance may still take it, and the reservation and
the running extra wave exclude each other. One lemma per operation of `FrontierOps` says what it does
to each part (`FrontierOpsProofs`); the step lemma takes one case per action.

`PipelineEngineProofs`, for every set of keys and collectors, every submission, depth and number of
nodes per phase: `EngineInvariant`, and from it `NoSeedIsLost`, `RunWavesMatch`, `RunOneWave`. The
invariant is stated for any context, progress and history, because a checkpoint has to satisfy it
too: `FrontierSound` (what is scheduled is in no frontier yet, and some advance is still to come for
it), `Position` (the phase tells the depth and whether the extra wave is reserved or running),
`Covered` and `History` (the waves a key was collected in are the one its slice says, even if that
wave is interrupted and repeated) and `NothingLeft` (nothing is scheduled behind the last advance).
That the extra wave is reserved before its advance is what makes the last one inductive.

`LiveRunProofs`, for every number of faults and deliveries: `LiveInvariant`, and from it `LiveTypes`,
`LiveWavesMatch`, `LiveOneWave`, `LiveSeedsCollected`, `DecisionsAreKept`, `RejectionIsKept`,
`OnlyApprovedRoots`, `CompletedIsReviewed` and `DispatchedOnce`. The processor's context and the
checkpoint each satisfy the engine's invariant; `Linked` says that the first is at most one advance
ahead of the second, so a processor that takes over repeats the same waves and no others.
`PivotInv`, `ApprovedInv` and `DecisionInv` tie broker, snapshot and checkpoint to the decisions.
`DebtInv` and `ReviewInv` account for the discarded roots the failure paths leave out of a
checkpoint: it takes one fault to leave such a root unreviewed in the checkpoint and another to
complete the run with it, which is where the condition of SeedsCollected comes from. The assumption
`ReconsidererAssumption` (every run of the service has a reconsiderer, `app/pipeline.go`) is needed
for the roots accepted after the last normal wave.

`LiveImplementsLifecycle` is the refinement of `RunLifecycle`: the initial states map to its initial
state and each step to one of its actions or to a stutter (`LifecycleStep`), for every number of faults
and deliveries. That a save keeps the decisions in the store (`WriteMaps`) is what needs an invariant
beyond `LiveInv`: a processor saves its own copy of the pivots, so broker, snapshot and store have to
agree about acceptances and about rejections (`RejectedInv`), also in the failure paths, which save
different copies. That a run without faults starts from the queue needs `StatusInv`. TLC checked both,
and the refinement, with one and with two faults before they were proved.

`ExecutionLeaseProofs`, for every set of workers and callers and every heartbeat interval shorter
than the lease: `LeaseTypeCorrect`, `LeaseInvariant`, `LeaseExclusive` and `LeaseNotShortened`, the
last three unless an UpsertRun has written back an outdated lease. The invariant says that a working
worker holds the lease and that it does not expire before the heartbeat that is due, so a claim by
another is impossible while it works; that a released lease is not the document's; and that no lease
outlives the clock by more than the TTL. The condition on `clobbered` is carried by `ClobberedStays`.
Without it the invariant fails at once: the run `LeaseFirestore` shows how.

`RunServiceProofs`, for every set of pivots, executions and calls, both deployments and any number of
failed calls: `ServiceTypeCorrect` for all behaviours, and, under the hypothesis that calls of
DecidePivot do not overlap (`Concurrent = FALSE`), `ServiceInvariant`, `OneProcessor`,
`DecisionKept`, `ReadModelCatchesUp`, `RunNotStranded`. The hypothesis is the one `LostDecision` shows
to be necessary. The argument is that the run is in one hand at a time (`OneHand`): a dispatch on its
way, an execution that has not projected its last checkpoint, or a call; so whoever is about to save
holds the current snapshot (`Current`), and with jobs the execution has the lease (`LeaseHeld`),
although UpsertRun writes a lease back that it has read earlier. Executions and calls are assumed to
be different clients.

`AssetGraphProofs`, for every set of sightings, spellings, keys and links and any number of resumes:

* `GraphInvariant`: `GraphInv`; `GraphTypeCorrect` and `GraphStaysValid` follow: validateCanonicalGraph
  never fails. Validity is inductive only with the fact that an initialised graph has an observation
  for each asset (otherwise reconciliation would ingest an asset a second time) and that asset IDs are
  those of sightings seen (otherwise a new sighting could meet its own ID).
* `ReasonsStay`: an explicit reason gives way only to another explicit one, with a stronger claim of
  ownership or because an address points away, and only the latter weakens the ownership; neither a
  generic sighting nor an enrichment nor a resume does either.
* `SightingsStay`: with `KeptInv`, in an unresumed run each sighting is observed and in the
  provenance of the asset of its name.
* `GraphImplementsCatalog`: the initial state maps to the catalog's, each operation to a `Record`, a
  `FindOut`, an `Access` or a `Load` or to a stutter. The step lemmas say what `EnsuredAssets`
  leaves of each entry; that keys are distinct makes `AssetWith` well defined.

`StagesProofs`, for every world the stages may meet, any failures and limits:

* `SilenceIsJustified`: the invariant keeps what each WHOIS source has answered next to the state of
  the lookup; the system's whois is reached with an unreadable answer of the server or a clean record.
* `BodiesAreOpen`: a request that is done with "ok" and a closed body has a retryable status, which is
  why the status checks of the collectors suffice.
* `LogExplains`: the events of a seed are balanced against its candidates, and the counts of a seed
  against the request that is open.
* `OwnershipIsRight`: what a wave adds to an address (contributors, PTR name, network) reopens its
  classification; what is claimed of it in between is always backed by the evidence of a seed that once
  led to it (`led`), which a resume cannot take away although the contributors shrink to the founder.
* `CompletedMeansComplete`: cache entries, results in flight and assets hold nothing but answers of
  the world and all of them when they say so, or a verdict "unsupported" of this context; a domain
  is in exactly one place between the jobs, the workers and the results; an emitted address is an
  asset its enumeration contributes to.

* `VariantsProbedOnce`, `SweepIsComplete` (with the preflight's exception),
  `PromotionsAreCorroborated`: one invariant (`DNSInv`) says that every observation kept holds
  answers of the world, and all of them without a failure (`Genuine`); that what a pool is done with
  is answered (`PoolInv`); that the roots a sweep probes are neither the seed's nor candidates, and
  that those of its label are candidates, to come, or answered (`SweepInv`); and that the related
  roots of a swept label were in a request or will be in the one of the seed at hand (`Accounted`),
  since candidates only gain until the judge is asked.
* `DocumentsParsedOnce`: what was parsed for a seed is in seenDocs, which only grows by a document
  that is not in it yet and while the limit allows it.
* `BatchesAreComplete`: `buildJudgeRequests` goes through the places of what was found; after each of
  them the roots dealt with are in one closed request, in the request at hand, or skipped (`PlanOK`).
  The induction over the places takes the least place at which this fails (`Numbers`, from WFMin).
* `NobodyAskedAgain`: while a search waits for its judge, its requests to come share no root with
  each other or with a decision on record for its seed (`RequestsInv`). What the filter lets through
  is that when the plan is made, and only the requests of that plan are answered before it is done.
* `CrawlsAreComplete`: a crawl fetches the URLs at h links from the start before those at h + 1. Its
  invariant (`CrawlInv`) says that every queued URL is visited or in the queue once (`QueueOK`), that
  the queue holds URLs at h links and behind them some at h + 1, everything within h links having been
  queued (`LevelOK`), and that the links and outbound roots of the visited pages are accounted for
  (`VisitedOK`). When the head of the queue is at h + 1, level h is fetched completely (`LevelShifts`);
  an empty queue is a fixed point, whatever depth it was reached at (`LevelEnds`). What taking a page
  does is an induction over its anchors (`PageFollowed`), again with `Numbers`. A breadth-first queue
  is needed: with the last URL first, one met at its greater depth is not followed, as the mutant shows.

The assumptions are the named ASSUMEs of the modules; TLC evaluates them in the runs. The inductive
invariants of LiveRun were also checked by TLC, with up to three faults, before they were proved.

Only model-checked:

* liveness (`ResumeReturns`, `RunCompletes`, `StageReturns`): out of TLAPS's reach here.

## 5. Not modelled

* Parsers and formats of external services (HTML, XML, JSON, RDAP, WHOIS), the prompts of the LLM and
  the search provider: a world constant says what they yield, a reply what they answer.
* The suffix table (generated) and the string helpers around it: a name comes with its root.
* HTTP decoding, authentication, wiring, flags; wording of events and traces.
* The asset projection, lineage, row classification, exporters: pure functions of a finished context.
* Torn checkpoint files, writers without a lease, a full in-process queue: the code does nothing
  about them that could be checked (see the hazards).
* Lengths of backoffs and rate limits.
* In the reconsiderer, `acceptedRoots` is always among the known roots and is left out.

## 6. Plan

1. `CheckpointFencing`: lease and checkpoint store together.
2. Row classification and lineage as operators against reference definitions.
