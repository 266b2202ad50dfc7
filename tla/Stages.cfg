\* One small instance per stage: every limit is reached and every kind of fault
\* happens.
CONSTANTS
    a = a
    b = b
    s1 = s1
    s2 = s2
    s3 = s3
    ip1 = ip1
    ip2 = ip2
    org = org
    cu = cu
    cv = cv
    ca = ca
    cb = cb
    cc = cc
    cd = cd
    cx = cx
    cy = cy
    alias = alias
    junk = junk
    croot = croot
    cext1 = cext1
    cext2 = cext2
    robots = robots
    index1 = index1
    index2 = index2
    urlset = urlset
    broken = broken
    page1 = page1
    page2 = page2
    page3 = page3
    page4 = page4
    host1 = host1
    host2 = host2
    host3 = host3
    sroot = sroot
    sext1 = sext1
    sext2 = sext2
    dom1 = dom1
    dom2 = dom2
    as1 = as1
    net1 = net1
    net2 = net2
    name1 = name1
    name2 = name2
    proot1 = proot1
    proot2 = proot2
    addr1 = addr1
    addr2 = addr2
    addr3 = addr3
    reg1 = reg1
    reg2 = reg2
    reg3 = reg3
    reg4 = reg4
    company = company
    mail = mail
    target1 = target1
    target2 = target2
    home1 = home1
    text1 = text1
    home2 = home2
    hint1 = hint1
    hint2 = hint2
    own = own
    label = label
    d1 = d1
    d2 = d2
    v4 = v4
    v6 = v6
    mx = mx
    enum1 = enum1
    enum2 = enum2
    seed1 = seed1
    seed2 = seed2
    own1 = own1
    own2 = own2
    foreign = foreign
    z1 = z1
    z2 = z2
    z3 = z3
    z4 = z4
    z5 = z5
    z6 = z6
    NoURL = NoURL
    NoTerm = NoTerm
    NoPTR = NoPTR
    Stage = {"dns", "crawler", "sitemap", "passive", "registration", "web_hint", "enrich", "expand"}
    StageRoots <- MCStageRoots
    MaxAttempts = 2
    Label = {a, b}
    SuffixTable <- MCSuffixes
    Generic <- MCGeneric
    Family <- MCFamily
    DNSWorld <- MCDNSWorld
    DNSFirstSeeds <- MCDNSSeeds
    BatchSize = 1
    PrioritizedCap = 1
    MaxDNSWaves = 2
    MaxLookupFaults = 1
    CrawlURL = {cu, cv, ca, cb, cc, cd, cx, cy}
    normalizeCrawlerURL <- MCHref
    CrawlRoot <- MCCrawlRoot
    CrawlSubhost = {cc}
    shouldFollowCrawlerURL = {cu, cv, ca, cb, cc, cd}
    CrawlWorld <- MCCrawlWorld
    CrawlSeeds <- MCCrawlSeeds
    RootRank <- MCRootRank
    CrawlMaxDepth = 2
    MaxPages = 5
    MaxLinks = 3
    JudgeBatch = 1
    MaxCrawlFaults = 1
    SiteDoc = {robots, index1, index2, urlset, broken}
    SitePage = {page1, page2, page3, page4}
    SiteHost <- MCSiteHost
    SiteRoot <- MCSiteRoot
    SiteWorld <- MCSiteWorld
    SiteSeeds <- MCSiteSeeds
    MaxSitemapDocs = 3
    MaxURLs = 3
    MaxJudgeCandidates = 1
    MaxSiteFaults = 1
    PassiveWorld <- MCPassiveWorld
    PassiveSeeds <- MCPassiveSeeds
    HostRoot <- MCHostRoot
    MaxHostsPerCIDR = 2
    MaxHostsPerASN = 3
    RegWorld <- MCRegWorld
    RegSeeds <- MCRegSeeds
    WhoisMaxAttempts = 2
    MaxReverseCandidates = 2
    HintTarget <- MCHintTarget
    HomePage = {home1, home2}
    HintWorld <- MCHintWorld
    HintSeeds <- MCHintSeeds
    HintDomainRoot <- MCHintDomainRoot
    RootsOfHint <- MCRootsOfHint
    MaxSamples = 3
    EnrichWorld <- MCEnrichWorld
    DomainRank <- MCDomainRank
    Registrable = {d1}
    EnrichInput <- MCEnrichInput
    EnrichIPInput <- MCEnrichIPInput
    SeedOf <- MCSeedOf
    EnrichSeedRoots <- MCEnrichRoots
    MaxConcurrency = 1
    MaxEnrichFaults = 1
    MaxEnrichRestarts = 1
    SearchWorld <- MCSearchWorld
    SearchSeeds <- MCSearchSeeds
    Denylist = {z6}
    EvidenceSize <- MCEvidenceSize
    BasePrompt = 1
    MaxPromptChars = 3
    MaxReconsiderChars = 3
    MaxCandidates = 4
    MaxJudgedCandidates = 3
    MaxSearchWaves = 2
SPECIFICATION StagesSpec
INVARIANTS
    VariantProbedOnce
    SweepLosesNothing
    PromotedIsCorroborated
    CrawlIsComplete
    DocumentParsedOnce
    ReadsOpenBody
    SilentOnlyIfUnreadable
    HintsExplained
    CompletedIsComplete
    OwnershipMatchesEvidence
    BatchesCoverCandidates
    NotAskedAgain
PROPERTIES
    StageReturns
CHECK_DEADLOCK FALSE
