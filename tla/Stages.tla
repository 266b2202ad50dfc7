------------------------------- MODULE Stages -------------------------------
(***************************************************************************)
(* The discovery stages the engine calls, each between its Process and its *)
(* return.  A behaviour is that of one stage (the DNS collector and the    *)
(* enrichers over several waves) on one pipeline context; module           *)
(* PipelineEngine has the order in which the engine calls them.            *)
(***************************************************************************)
EXTENDS DNSCollector, CrawlerCollector, SitemapCollector, PassiveCollectors,
        RegistrationLookup, WebHintCollector, Enrichers, Expanders

CONSTANTS
    Stage,          \* the stages to look at
    StageRoots      \* for each, the roots of the run's seeds

VARIABLE stage

stageVars == <<stage, pctx, dnsVars, crawlVars, siteVars, pasVars, regVars,
               hintVars, enrVars, expVars>>

StagesInit ==
    /\ stage \in Stage
    /\ pctx \in NewStageContext(StageRoots[stage])
    /\ DNSInit /\ CrawlInit /\ SiteInit /\ PassiveInit /\ RegInit
    /\ WebHintInit /\ EnrichInit /\ ExpandInit

\* Of the variables of the stages that fetch, req and ctxDone are shared.
StagesNext ==
    /\ UNCHANGED stage
    /\ \/ /\ stage = "dns" /\ DNSNext
          /\ UNCHANGED <<crawlVars, siteVars, pasVars, regVars, hintVars, enrVars, expVars>>
       \/ /\ stage = "crawler" /\ CrawlNext
          /\ UNCHANGED <<dnsVars, siteVars, pasVars, regVars, hintVars, enrVars, expVars>>
       \/ /\ stage = "sitemap" /\ SiteNext
          /\ UNCHANGED <<dnsVars, crawlVars, pasVars, regVars, hintVars, enrVars, expVars>>
       \/ /\ stage = "passive" /\ PassiveNext
          /\ UNCHANGED <<dnsVars, crawlVars, siteVars, regWorld, lookup, reg, regHist,
                         hintWorld, hint, enrVars, expVars>>
       \/ /\ stage = "registration" /\ RegNext
          /\ UNCHANGED <<dnsVars, crawlVars, siteVars, pasWorld, pas, hintWorld, hint,
                         enrVars, expVars>>
       \/ /\ stage = "web_hint" /\ WebHintNext
          /\ UNCHANGED <<dnsVars, crawlVars, siteVars, pasWorld, pas, regWorld, lookup,
                         reg, regHist, enrVars, expVars>>
       \/ /\ stage = "enrich" /\ EnrichNext
          /\ UNCHANGED <<dnsVars, crawlVars, siteVars, pasVars, regVars, hintVars, expVars>>
       \/ /\ stage = "expand" /\ ExpandNext
          /\ UNCHANGED <<dnsVars, crawlVars, siteVars, pasVars, regVars, hintVars, enrVars>>

\* Goroutines run, and requests and lookups end, in an answer or a timeout:
\* whatever happens next, something does.
StagesSpec == StagesInit /\ [][StagesNext]_stageVars /\ WF_stageVars(StagesNext)

-----------------------------------------------------------------------------
(* Properties.                                                             *)

StageReturned ==
    CASE stage = "dns"          -> dns.phase = "returned"
      [] stage = "crawler"      -> crawl.phase = "returned"
      [] stage = "sitemap"      -> site.phase = "returned"
      [] stage = "passive"      -> pas.phase = "returned"
      [] stage = "registration" -> reg.phase = "returned"
      [] stage = "web_hint"     -> hint.phase = "returned"
      [] stage = "enrich"       -> enr.phase = "returned"
      [] stage = "expand"       -> exp.phase = "returned"

\* Every call of a stage's Process returns: no queue of pages, sitemaps, variant
\* labels, batches or retries grows forever, and no pool of goroutines waits for
\* itself (the jobs and results channels of DomainEnricher.Process).
StageReturns == <>[]StageReturned

=============================================================================
