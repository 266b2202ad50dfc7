-------------------------- MODULE CrawlerCollector --------------------------
(***************************************************************************)
(* collect.CrawlerCollector.Process: a breadth-first crawl of each seed's  *)
(* sites, bounded in depth, pages and links, whose outbound roots go to    *)
(* the ownership judge in batches.                                         *)
(*                                                                         *)
(* A page is what defaultFetchPage makes of an answer: the URL it came     *)
(* from after redirects and its anchors <<href, text>> in document order;  *)
(* an answer of status 400 or more, or one that is not HTML, is a page     *)
(* without anchors.                                                        *)
(***************************************************************************)
EXTENDS StageContext

CONSTANTS
    CrawlURL,              \* normalised URLs
    NoURL,
    normalizeCrawlerURL,   \* href -> CrawlURL or NoURL: scheme, host, port, query
                           \* and fragment are normalised, other schemes dropped
    CrawlRoot,             \* registrable root of a URL's host
    CrawlSubhost,          \* URLs whose host is not the root itself
    shouldFollowCrawlerURL,\* URLs whose path ends in no skipped extension
    CrawlWorld,            \* [CrawlURL -> page]
    CrawlSeeds,            \* seeds: sequences of start URLs
    RootRank,              \* the order of root names
    CrawlMaxDepth, MaxPages, MaxLinks, JudgeBatch, MaxCrawlFaults

CrawlHref == DOMAIN normalizeCrawlerURL

\* buildRequest names every start URL once; the URL an answer came from is one of
\* HTTP; a text is as good as a number.
ASSUME CrawlAssumption ==
    /\ NoURL \notin CrawlURL
    /\ normalizeCrawlerURL \in [CrawlHref -> CrawlURL \cup {NoURL}]
    /\ CrawlMaxDepth \in Nat
    /\ \A s \in CrawlSeeds : /\ s \in Seq(CrawlURL)
                             /\ \A i, j \in DOMAIN s : i # j => s[i] # s[j]
    /\ CrawlWorld \subseteq
          [CrawlURL -> [final : CrawlHref, anchors : Seq(CrawlHref \X Nat)]]
    /\ \A w \in CrawlWorld, p \in CrawlURL : normalizeCrawlerURL[w[p].final] # NoURL

VARIABLES
    crawlWorld, \* what every URL answers
    crawl,      \* Process: phase, seeds to come, seed at hand, queue of
                \* <<URL, depth>>, queued, visited, pagesFetched, internalHosts,
                \* outboundByRoot, rest (roots still to be judged), newAssets
    crawlHist   \* failed fetches of the seed, fetches per URL, roots put to the judge

crawlVars == <<crawlWorld, crawl, crawlHist>>

-----------------------------------------------------------------------------

LinkTarget(page, i) == normalizeCrawlerURL[page.anchors[i][1]]

\* extractCrawlerLinks: anchors that resolve, each target and text once, cut off
\* at the limit.  They are known by their places on the page.
extractCrawlerLinks(page) ==
    LET link(i) == <<LinkTarget(page, i), page.anchors[i][2]>>
        places == {i \in DOMAIN page.anchors :
                      /\ LinkTarget(page, i) # NoURL
                      /\ \A j \in DOMAIN page.anchors : j < i => link(j) # link(i)}
    IN  IF MaxLinks > 0 THEN FirstPlaces(MaxLinks, places) ELSE places

Targets(page) == {LinkTarget(page, i) : i \in extractCrawlerLinks(page)}

ScopeRoots(seed) == {CrawlRoot[p] : p \in Range(seed)}

FinalRoot(page) == CrawlRoot[normalizeCrawlerURL[page.final]]

\* captureCrawlerCandidate: one more observation from page source.
captureCrawlerCandidate(outbound, root, source) ==
    LET seen == IF root \in DOMAIN outbound THEN outbound[root]
                ELSE [count |-> 0, referrers |-> {}]
        new == [count |-> seen.count + 1, referrers |-> seen.referrers \cup {source}]
    IN  [r \in DOMAIN outbound \cup {root} |-> IF r = root THEN new ELSE outbound[r]]

EnqueuePage_First(queue, item) == <<item>> \o queue

EnqueuePage(queue, item) == Append(queue, item)

\* One link of a page of depth d, seen from URL source.
followLink(c, source, d, target) ==
    IF CrawlRoot[target] \notin ScopeRoots(c.seed)
    THEN [c EXCEPT !.outbound = captureCrawlerCandidate(@, CrawlRoot[target], source)]
    ELSE LET h == [c EXCEPT !.hosts = @ \cup ({target} \cap CrawlSubhost)]
         IN  IF /\ d < CrawlMaxDepth /\ target \in shouldFollowCrawlerURL
                /\ target \notin c.visited \cup c.queued
             THEN [h EXCEPT !.queue = EnqueuePage(@, <<target, d + 1>>),
                            !.queued = @ \cup {target}]
             ELSE h

\* A fetched page: a redirect out of scope is itself an outbound reference and
\* its links are not looked at.
takePage(c, item, page) ==
    LET final == normalizeCrawlerURL[page.final]
        counted == [c EXCEPT !.pages = @ + 1]
        followed[i \in 0..Len(page.anchors)] ==
            IF i = 0 THEN [counted EXCEPT !.hosts = @ \cup ({final} \cap CrawlSubhost)]
            ELSE IF i \in extractCrawlerLinks(page)
                 THEN followLink(followed[i - 1], final, item[2], LinkTarget(page, i))
            ELSE followed[i - 1]
    IN  IF FinalRoot(page) \notin ScopeRoots(c.seed)
        THEN [counted EXCEPT !.outbound = captureCrawlerCandidate(@, FinalRoot(page), item[1])]
        ELSE followed[Len(page.anchors)]

\* buildCrawlerJudgeCandidates: most observed first, then most referrers, then by
\* name.  The first n of these roots.
buildCrawlerJudgeCandidates(outbound, roots, n) ==
    LET count(r) == outbound[r].count
        referrers(r) == Cardinality(outbound[r].referrers)
        before(q, r) == \/ count(q) > count(r)
                        \/ count(q) = count(r) /\ referrers(q) > referrers(r)
                        \/ /\ count(q) = count(r) /\ referrers(q) = referrers(r)
                           /\ RootRank[q] < RootRank[r]
    IN  {r \in roots : Cardinality({q \in roots : before(q, r)}) < n}

-----------------------------------------------------------------------------

NewCrawl(c, seed) ==
    [c EXCEPT !.phase = "crawl", !.seed = seed,
              !.queue = [i \in 1..Len(seed) |-> <<seed[i], 0>>], !.queued = Range(seed),
              !.visited = {}, !.pages = 0, !.hosts = {}, !.outbound = <<>>]

CrawlInit ==
    /\ crawlWorld = CHOOSE w \in CrawlWorld : TRUE
    /\ crawl = [phase |-> "idle", seeds |-> {}, seed |-> <<>>, queue |-> <<>>, queued |-> {},
                visited |-> {}, pages |-> 0, hosts |-> {}, outbound |-> <<>>, rest |-> {},
                assets |-> {}]
    /\ crawlHist = [faults |-> 0, fetched |-> [p \in CrawlURL |-> 0], asked |-> {}]

CrawlProcess ==
    /\ crawl.phase = "idle"
    /\ crawlWorld' \in CrawlWorld
    /\ crawl' = [crawl EXCEPT !.phase = "seeds", !.seeds = CrawlSeeds]
    /\ UNCHANGED <<crawlHist, pctx>>

\* A seed without start URLs is passed over.
CrawlStartSeed(s) ==
    /\ crawl.phase = "seeds" /\ s \in crawl.seeds
    /\ LET left == [crawl EXCEPT !.seeds = @ \ {s}]
       IN  crawl' = IF s = <<>> THEN left ELSE NewCrawl(left, s)
    /\ crawlHist' = [faults |-> 0, fetched |-> [p \in CrawlURL |-> 0], asked |-> {}]
    /\ UNCHANGED <<crawlWorld, pctx>>

CanCrawl == crawl.phase = "crawl" /\ crawl.queue # <<>> /\ crawl.pages < MaxPages

\* The head of the queue is fetched; a fetch that fails costs no page.
CrawlFetch(failed) ==
    /\ CanCrawl
    /\ LET item == Head(crawl.queue)
           popped == [crawl EXCEPT !.queue = Tail(@), !.visited = @ \cup {item[1]}]
       IN  /\ item[1] \notin crawl.visited
           /\ crawl' = IF failed THEN popped ELSE takePage(popped, item, crawlWorld[item[1]])
           /\ crawlHist' = [crawlHist EXCEPT !.fetched[item[1]] = @ + 1,
                                             !.faults = IF failed THEN @ + 1 ELSE @]
    /\ failed => crawlHist.faults < MaxCrawlFaults
    /\ UNCHANGED <<crawlWorld, pctx>>

\* The crawl of the seed is over; without a judge its outbound roots are dropped.
CrawlEnd ==
    /\ crawl.phase = "crawl" /\ ~CanCrawl
    /\ crawl' = [crawl EXCEPT
          !.phase = IF pctx.judge THEN "judge" ELSE "seeds",
          !.assets = @ \cup crawl.hosts,
          !.rest = DOMAIN crawl.outbound]
    /\ UNCHANGED <<crawlWorld, crawlHist, pctx>>

CrawlBatch == buildCrawlerJudgeCandidates(crawl.outbound, crawl.rest, JudgeBatch)

CrawlJudgeBatch ==
    /\ crawl.phase = "judge" /\ crawl.rest # {}
    /\ crawlHist' = [crawlHist EXCEPT !.asked = @ \cup CrawlBatch]
    /\ UNCHANGED crawlWorld

\* A batch the judge fails on is dropped, the next one is still asked.
CrawlJudgeFails ==
    /\ CrawlJudgeBatch
    /\ crawl' = [crawl EXCEPT !.rest = @ \ CrawlBatch]
    /\ UNCHANGED pctx

CrawlJudged(reply, accepted) ==
    /\ CrawlJudgeBatch
    /\ JudgeReplies("crawler_collector", CrawlBatch, reply, accepted)
    /\ crawl' = [crawl EXCEPT !.rest = @ \ CrawlBatch, !.assets = @ \cup accepted]

CrawlSeedDone ==
    /\ crawl.phase = "judge" /\ crawl.rest = {}
    /\ crawl' = [crawl EXCEPT !.phase = "seeds"]
    /\ UNCHANGED <<crawlWorld, crawlHist, pctx>>

CrawlReturn ==
    /\ crawl.phase = "seeds" /\ crawl.seeds = {}
    /\ crawl' = [crawl EXCEPT !.phase = "returned"]
    /\ pctx' = [pctx EXCEPT !.assets = @ \cup crawl.assets]
    /\ UNCHANGED <<crawlWorld, crawlHist>>

CrawlNext ==
    \/ CrawlProcess
    \/ \E s \in crawl.seeds : CrawlStartSeed(s)
    \/ \E failed \in BOOLEAN : CrawlFetch(failed)
    \/ CrawlEnd \/ CrawlJudgeFails
    \/ \E reply \in Replies(CrawlBatch), accepted \in SUBSET CrawlBatch : CrawlJudged(reply, accepted)
    \/ CrawlSeedDone \/ CrawlReturn

-----------------------------------------------------------------------------
(* Properties.                                                             *)

\* The reference: URLs of the seed's scope at most n links from a start URL.
Within(seed, world) ==
    LET scope == ScopeRoots(seed)
        within[n \in 0..CrawlMaxDepth] ==
            IF n = 0 THEN Range(seed)
            ELSE within[n - 1] \cup
                 {t \in shouldFollowCrawlerURL :
                    /\ CrawlRoot[t] \in scope
                    /\ \E p \in within[n - 1] :
                          FinalRoot(world[p]) \in scope /\ t \in Targets(world[p])}
    IN  within

\* The roots outside the scope that a page links or redirects to.
OutboundRoots(seed, page) ==
    LET scope == ScopeRoots(seed)
    IN  IF FinalRoot(page) \notin scope THEN {FinalRoot(page)}
        ELSE {CrawlRoot[t] : t \in Targets(page)} \ scope

\* A crawl that met no failure and did not run into the page limit has fetched
\* exactly the URLs within the depth limit, each once, whatever path it met them
\* on first, and every outbound root of theirs is put to the judge, whatever the
\* batches (crawlSeed, and the batch loop of Process).
CrawlIsComplete ==
    crawl.phase = "judge" /\ crawlHist.faults = 0 /\ crawl.queue = <<>> =>
        LET reached == Within(crawl.seed, crawlWorld)[CrawlMaxDepth]
        IN  /\ \A p \in CrawlURL : crawlHist.fetched[p] = IF p \in reached THEN 1 ELSE 0
            /\ crawlHist.asked \cup crawl.rest
                  = UNION {OutboundRoots(crawl.seed, crawlWorld[p]) : p \in reached}

=============================================================================
