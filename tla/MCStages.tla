------------------------------ MODULE MCStages ------------------------------
(* Small sites, zones, registries and searches for each stage of Stages.  *)
EXTENDS Stages, TLC

-----------------------------------------------------------------------------
(* DNS: seeds a.s1 and a.s2 of one frontier share the label and an address *)
(* with each other and with a.s3, but only a.s1 and a.s3 have name servers  *)
(* of their own; b.s1 is the mail host of a.s1 and names all roots of its   *)
(* own label, which leaves that label's sweep nothing to probe.            *)

CONSTANTS a, b, s1, s2, s3, ip1, ip2, org

MCSuffixes == <<s1, s2, s3>>
MCGeneric == <<s3>>
MCFamily == [s \in {s1, s2, s3} |-> IF s = s3 THEN s3 ELSE s1]
MCDNSSeeds == {{<<a, s1>>}, {<<a, s2>>}}

Zone(r) ==
    CASE r = <<a, s1>> -> {<<"ip", ip1, FALSE>>, <<"mx", <<b, s1>>, TRUE>>,
                           <<"ns", <<a, s1>>, TRUE>>}
      [] r = <<a, s2>> -> {<<"ip", ip1, FALSE>>, <<"ip", ip2, FALSE>>,
                           <<"txt", <<b, s1>>, FALSE>>, <<"cname", <<a, s3>>, TRUE>>}
      [] r = <<a, s3>> -> {<<"ip", ip1, FALSE>>, <<"ns", <<b, s2>>, TRUE>>}
      [] r = <<b, s1>> -> {<<"mx", <<b, s1>>, TRUE>>, <<"txt", <<b, s2>>, FALSE>>,
                           <<"ns", <<b, s3>>, TRUE>>}
      [] r = <<b, s2>> -> {<<"txt", <<b, s1>>, FALSE>>}
      [] OTHER -> {}

MCDNSWorld ==
    {[dns |-> [r \in Root |-> Zone(r)], mode |-> m,
      rdap |-> [r \in Root |-> IF r \in {<<a, s1>>, <<b, s3>>} THEN {<<"org", org>>} ELSE {}]] :
        m \in {"exhaustive", "prioritized"}}

-----------------------------------------------------------------------------
(* Crawler: two start pages; page b or v redirects in some of the worlds.  *)

CONSTANTS cu, cv, ca, cb, cc, cd, cx, cy, alias, junk, croot, cext1, cext2

Page(from, anchors) == [final |-> from, anchors |-> anchors]

MCHref == [h \in CrawlURL \cup {alias, junk} |->
              IF h = alias THEN ca ELSE IF h = junk THEN NoURL ELSE h]
MCCrawlRoot == [u \in CrawlURL |-> IF u = cx THEN cext1 ELSE IF u = cy THEN cext2 ELSE croot]

Site(bFrom, vFrom) ==
    [u \in CrawlURL |->
        CASE u = cu -> Page(cu, <<<<ca, 1>>, <<alias, 1>>, <<junk, 1>>, <<cx, 1>>>>)
          [] u = ca -> Page(ca, <<<<cb, 1>>, <<cx, 2>>, <<cx, 1>>>>)
          [] u = cv -> Page(vFrom, <<<<cb, 1>>, <<cd, 1>>>>)
          [] u = cb -> Page(bFrom, <<<<cc, 1>>, <<cy, 1>>, <<cu, 1>>>>)
          [] OTHER  -> Page(u, <<>>)]

MCCrawlWorld == {Site(cb, cv), Site(cy, cv), Site(cb, cx)}
MCCrawlSeeds == {<<cu, cv>>, <<>>}
MCRootRank == croot :> 0 @@ cext1 :> 1 @@ cext2 :> 2

-----------------------------------------------------------------------------
(* Sitemaps: two indexes that name each other, or redirect to each other.  *)

CONSTANTS robots, index1, index2, urlset, broken, page1, page2, page3, page4,
          host1, host2, host3, sroot, sext1, sext2

Doc(from, kind, locs) == [final |-> from, kind |-> kind, locs |-> locs]

Docs(from2) ==
    [d \in SiteDoc |->
        CASE d = robots -> Doc(robots, "bad", <<index1, urlset>>)
          [] d = index1 -> Doc(index1, "sitemapindex", <<index1, index2, urlset, broken>>)
          [] d = index2 -> Doc(from2, "sitemapindex", <<index1, urlset, broken>>)
          [] d = urlset -> Doc(urlset, "urlset", <<page1, page2, page3, page1, page4>>)
          [] OTHER      -> Doc(d, "bad", <<>>)]

MCSiteWorld == {Docs(index2), Docs(index1)}
MCSiteHost == page1 :> host1 @@ page2 :> host2 @@ page3 :> host3 @@ page4 :> host3
MCSiteRoot == host1 :> sroot @@ host2 :> sext1 @@ host3 :> sext2
MCSiteSeeds ==
    {[scope |-> {sroot},
      targets |-> <<<<"robots", robots>>, <<"sitemap", index1>>, <<"sitemap", index2>>>>],
     [scope |-> {}, targets |-> <<>>]}

-----------------------------------------------------------------------------
(* Passive sources: two domains, one AS of two networks, one network.      *)

CONSTANTS dom1, dom2, as1, net1, net2, name1, name2, proot1, proot2, addr1, addr2, addr3

MCPassiveWorld ==
    {[hosts |-> dom1 :> {name1} @@ dom2 :> {name1, name2},
      good |-> dom1 :> TRUE @@ dom2 :> g @@ as1 :> TRUE,
      prefixes |-> as1 :> <<net1, net2>>,
      ips |-> net1 :> <<addr1, addr2>> @@ net2 :> <<addr3>>,
      names |-> addr1 :> {name1} @@ addr2 :> {} @@ addr3 :> {name2}] : g \in BOOLEAN}
MCPassiveSeeds == {[domains |-> <<dom1, dom2>>, asn |-> <<as1>>, cidr |-> <<net1>>]}
MCHostRoot == name1 :> proot1 @@ name2 :> proot2

-----------------------------------------------------------------------------
(* Registrations: four roots of which two share a mail address.            *)

CONSTANTS reg1, reg2, reg3, reg4, company, mail

MCRegWorld ==
    {[facts |-> reg1 :> {<<"mail", mail>>} @@ reg2 :> {<<"org", company>>}
                @@ reg3 :> {<<"mail", mail>>} @@ reg4 :> {},
      found |-> company :> {reg1, reg2, reg3, reg4} @@ NoTerm :> {}]}
MCRegSeeds == {[roots |-> {reg1}, company |-> company]}

-----------------------------------------------------------------------------
(* Web hints: a home page with a security.txt beside it, one without.      *)

CONSTANTS target1, target2, home1, text1, home2, hint1, hint2, own, label

MCHintTarget == target1 :> <<home1, text1>> @@ target2 :> <<home2>>
HintPages(from, bad) ==
    [p \in {home1, text1, home2} |->
        [final |-> IF p = home1 THEN from ELSE own, good |-> p # bad,
         hints |-> CASE p = home1 -> <<<<hint1, "">>, <<hint2, "">>>>
                     [] p = text1 -> <<<<hint1, label>>, <<own, "">>>>
                     [] OTHER     -> <<>>]]
MCHintWorld == {HintPages(own, own), HintPages(hint2, home1), HintPages(own, text1)}
MCHintSeeds == {<<target1>>, <<target2>>}
MCHintDomainRoot == target1 :> own @@ target2 :> own
MCRootsOfHint == [h \in {hint1, hint2, own} |-> {h}]

-----------------------------------------------------------------------------
(* Enrichers: two domains on one address, found by two enumerations in two *)
(* waves; the network of the other address is known to the second only.    *)

CONSTANTS d1, d2, v4, v6, mx, enum1, enum2, seed1, seed2, own1, own2, foreign

MCEnrichWorld ==
    {[records |-> d1 :> [k \in LookupKinds |-> CASE k = "A" -> {v4} [] k = "MX" -> {mx} [] OTHER -> {}]
               @@ d2 :> [k \in LookupKinds |-> CASE k = "A" -> {v4} [] k = "AAAA" -> {v6} [] OTHER -> {}],
      rdap |-> {d1}, ptr |-> v4 :> p @@ v6 :> NoPTR,
      asn |-> v4 :> {} @@ v6 :> {seed2}, cidr |-> v4 :> {} @@ v6 :> {}] :
        p \in {own1, own2, foreign}}
MCDomainRank == d1 :> 1 @@ d2 :> 2
MCEnrichInput == <<{<<d1, enum1>>, <<d2, enum1>>, <<d2, enum2>>}, {<<d1, enum2>>}>>
MCEnrichIPInput == <<{<<v6, enum1>>}, {}>>
MCSeedOf == enum1 :> seed1 @@ enum2 :> seed2
MCEnrichRoots == seed1 :> {own1} @@ seed2 :> {own2}

-----------------------------------------------------------------------------
(* Search and reconsideration: a hit with a useless answer, one of a        *)
(* platform (z6), and more hits than are kept.                             *)

CONSTANTS z1, z2, z3, z4, z5, z6

Hit(r) == [root |-> r, good |-> TRUE]
MCFound ==
    z1 :> <<Hit(z2), Hit(z3), [root |-> z5, good |-> FALSE], Hit(z4), Hit(z2), Hit(z5), Hit(z6)>>
    @@ z2 :> <<Hit(z6), Hit(z1), Hit(z3), Hit(z4)>> @@ z3 :> <<Hit(z4)>> @@ z4 :> <<>>
    @@ z5 :> <<Hit(z3)>> @@ z6 :> <<>>
MCDiscard ==
    [by |-> "dns", seed |-> z1,
     outcomes |-> z3 :> [collect |-> FALSE, conf |-> 2, explicit |-> TRUE]]
MCSearchWorld ==
    {[found |-> MCFound, provider |-> TRUE, earlier |-> <<>>]}
    \cup {[found |-> MCFound, provider |-> p, earlier |-> <<MCDiscard>>] : p \in BOOLEAN}
MCSearchSeeds == {[id |-> z1, roots |-> {z1, z2}]}
MCEvidenceSize == z1 :> 1 @@ z2 :> 1 @@ z3 :> 1 @@ z4 :> 3 @@ z5 :> 1 @@ z6 :> 1

-----------------------------------------------------------------------------

MCStageRoots ==
    [st \in Stage |->
        CASE st = "dns"          -> UNION DNSFirstSeeds
          [] st = "crawler"      -> {croot}
          [] st = "sitemap"      -> {sroot}
          [] st = "passive"      -> {proot1}
          [] st = "registration" -> {reg1}
          [] st = "web_hint"     -> {own}
          [] st = "enrich"       -> {own1}
          [] st = "expand"       -> {z1, z2}]

=============================================================================
