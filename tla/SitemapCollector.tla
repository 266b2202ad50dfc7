-------------------------- MODULE SitemapCollector --------------------------
(***************************************************************************)
(* collect.SitemapCollector.Process: the robots files and sitemaps of each *)
(* seed, sitemap indexes followed breadth first under three limits, and    *)
(* the roots outside the seed's scope that the sitemaps name put to the    *)
(* ownership judge.  A fetched document is where it came from after        *)
(* redirects, its kind and the URLs it lists; an answer outside 2xx is a   *)
(* failed fetch.                                                           *)
(***************************************************************************)
EXTENDS StageContext

CONSTANTS
    SiteDoc,        \* URLs of robots files and sitemaps
    SitePage,       \* page URLs
    SiteHost,       \* host of a page URL
    SiteRoot,       \* registrable root of a host
    SiteWorld,      \* [SiteDoc -> [final, kind, locs]]
    SiteSeeds,      \* seeds: [scope, targets], targets <<kind, URL>> in order
    MaxSitemapDocs, MaxURLs, MaxJudgeCandidates, MaxSiteFaults

\* NewSitemapCollector sets the limit to defaultMaxSitemapDocsPerSeed.
ASSUME SiteAssumption == MaxSitemapDocs \in Nat

VARIABLES
    siteWorld,  \* what every document URL answers
    site,       \* Process: phase, seeds, seed, targets to come, queuedDocs,
                \* seenDocs, found (seenPageURLs, sameRootHosts, candidateByRoot),
                \* newAssets
    siteHist    \* how often each document was parsed for the seed; failed fetches

siteVars == <<siteWorld, site, siteHist>>

-----------------------------------------------------------------------------

\* enqueueSitemapDoc: the limit counts documents seen and queued.
enqueueSitemapDoc(queued, seen, doc) ==
    IF doc \in seen \cup Range(queued) \/ Cardinality(seen) + Len(queued) >= MaxSitemapDocs
    THEN queued ELSE Append(queued, doc)

enqueueAll(queued, seen, docs) ==
    FoldLeft(LAMBDA q, doc : enqueueSitemapDoc(q, seen, doc), queued, docs)

\* addObservedURL: a host of the seed, or a candidate root while there is room
\* and a judge to ask.
addObservedURL(found, page) ==
    LET host == SiteHost[page]
        root == SiteRoot[host]
        seen == [found EXCEPT !.pages = @ \cup {page}]
    IN  CASE page \in found.pages \/ Cardinality(found.pages) >= MaxURLs -> found
          [] root \in site.seed.scope -> [seen EXCEPT !.hosts = @ \cup {host}]
          [] OTHER ->
                IF /\ pctx.judge
                   /\ root \in found.cands \/ Cardinality(found.cands) < MaxJudgeCandidates
                THEN [seen EXCEPT !.cands = @ \cup {root}] ELSE seen

addObservedURLs(found, pages) == FoldLeft(addObservedURL, found, pages)

normalizedDoc_Requested(doc) == doc

\* A document is known by the URL it finally came from.
normalizedDoc(doc) == siteWorld[doc].final

\* A parsed document: an index queues its documents, a urlset gives its URLs, a
\* document that does not parse gives nothing but has been seen.
takeDocument(st, doc) ==
    LET seen == st.seenDocs \cup {normalizedDoc(doc)}
        answer == siteWorld[doc]
        listed(kind) == IF answer.kind = kind THEN answer.locs ELSE <<>>
    IN  [st EXCEPT !.seenDocs = seen,
                   !.queued = enqueueAll(@, seen, listed("sitemapindex")),
                   !.found = addObservedURLs(@, listed("urlset"))]

-----------------------------------------------------------------------------

NothingFound == [pages |-> {}, hosts |-> {}, cands |-> {}]

SiteInit ==
    /\ siteWorld = CHOOSE w \in SiteWorld : TRUE
    /\ site = [phase |-> "idle", seeds |-> {}, seed |-> [scope |-> {}, targets |-> <<>>],
               targets |-> <<>>, queued |-> <<>>, seenDocs |-> {},
               found |-> NothingFound, assets |-> {}]
    /\ siteHist = [parsed |-> [d \in SiteDoc |-> 0], faults |-> 0]

SiteProcess ==
    /\ site.phase = "idle"
    /\ siteWorld' \in SiteWorld
    /\ site' = [site EXCEPT !.phase = "seeds", !.seeds = SiteSeeds]
    /\ UNCHANGED <<siteHist, pctx>>

\* What is kept per seed begins empty.
NewSite(st, seed) ==
    [st EXCEPT !.phase = "targets", !.seed = seed, !.targets = seed.targets,
               !.queued = <<>>, !.seenDocs = {}, !.found = NothingFound]

\* A seed without registrable domains is passed over.
SiteStartSeed(s) ==
    /\ site.phase = "seeds" /\ s \in site.seeds
    /\ LET left == [site EXCEPT !.seeds = @ \ {s}]
       IN  site' = IF s.scope = {} THEN left ELSE NewSite(left, s)
    /\ siteHist' = [siteHist EXCEPT !.parsed = [d \in SiteDoc |-> 0]]
    /\ UNCHANGED <<siteWorld, pctx>>

\* Of the fetches of a run at most MaxSiteFaults fail.
SiteFault(failed) == failed => siteHist.faults < MaxSiteFaults

\* A robots file is fetched at once, a sitemap is queued.
SiteTarget(failed) ==
    /\ site.phase = "targets" /\ site.targets # <<>>
    /\ SiteFault(failed)
    /\ LET target == Head(site.targets)
           docs == CASE failed -> <<>>
                     [] ~failed /\ target[1] = "robots" -> siteWorld[target[2]].locs
                     [] OTHER -> <<target[2]>>
       IN  /\ failed => target[1] = "robots"
           /\ site' = [site EXCEPT !.targets = Tail(@),
                                   !.queued = enqueueAll(@, site.seenDocs, docs)]
    /\ siteHist' = [siteHist EXCEPT !.faults = IF failed THEN @ + 1 ELSE @]
    /\ UNCHANGED <<siteWorld, pctx>>

CanFetchDoc ==
    /\ site.phase = "targets" /\ site.targets = <<>>
    /\ site.queued # <<>> /\ Cardinality(site.seenDocs) < MaxSitemapDocs

\* The head of the queue is fetched.  A document that was seen under another
\* URL is not parsed again; one whose fetch failed may be queued again.
SiteFetchDoc(failed) ==
    /\ CanFetchDoc
    /\ SiteFault(failed)
    /\ LET doc == Head(site.queued)
           popped == [site EXCEPT !.queued = Tail(@)]
           skip == failed \/ normalizedDoc(doc) \in site.seenDocs
       IN  /\ site' = IF skip THEN popped ELSE takeDocument(popped, doc)
           /\ siteHist' = [siteHist EXCEPT
                 !.parsed[siteWorld[doc].final] = IF skip THEN @ ELSE @ + 1,
                 !.faults = IF failed THEN @ + 1 ELSE @]
    /\ UNCHANGED <<siteWorld, pctx>>

\* The hosts become assets; the roots go to the judge in one request.
SiteEndDocs ==
    /\ site.phase = "targets" /\ site.targets = <<>> /\ ~CanFetchDoc
    /\ site' = [site EXCEPT !.assets = @ \cup site.found.hosts,
                            !.phase = IF site.found.cands = {} THEN "seeds" ELSE "judge"]
    /\ UNCHANGED <<siteWorld, siteHist, pctx>>

SiteJudgeFails ==
    /\ site.phase = "judge"
    /\ site' = [site EXCEPT !.phase = "seeds"]
    /\ UNCHANGED <<siteWorld, siteHist, pctx>>

SiteJudged(reply, accepted) ==
    /\ site.phase = "judge"
    /\ JudgeReplies("sitemap_collector", site.found.cands, reply, accepted)
    /\ site' = [site EXCEPT !.phase = "seeds", !.assets = @ \cup accepted]
    /\ UNCHANGED <<siteWorld, siteHist>>

SiteReturn ==
    /\ site.phase = "seeds" /\ site.seeds = {}
    /\ site' = [site EXCEPT !.phase = "returned"]
    /\ pctx' = [pctx EXCEPT !.assets = @ \cup site.assets]
    /\ UNCHANGED <<siteWorld, siteHist>>

SiteNext ==
    \/ SiteProcess
    \/ \E s \in site.seeds : SiteStartSeed(s)
    \/ \E failed \in BOOLEAN : SiteTarget(failed) \/ SiteFetchDoc(failed)
    \/ SiteEndDocs \/ SiteJudgeFails
    \/ \E reply \in Replies(site.found.cands), accepted \in SUBSET site.found.cands :
          SiteJudged(reply, accepted)
    \/ SiteReturn

-----------------------------------------------------------------------------
(* Properties.                                                             *)

\* However sitemap indexes list each other, and whichever URLs lead to it, a
\* document is parsed at most once for a seed, and no more than the limit are
\* (seenDocs and queuedDocSet of Process).
DocumentParsedOnce ==
    /\ \A d \in SiteDoc : siteHist.parsed[d] <= 1
    /\ Cardinality({d \in SiteDoc : siteHist.parsed[d] > 0}) <= MaxSitemapDocs

=============================================================================
