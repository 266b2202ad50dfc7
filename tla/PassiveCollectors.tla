------------------------- MODULE PassiveCollectors -------------------------
(***************************************************************************)
(* The Process of the collectors that ask one service per domain (crt.sh,  *)
(* HackerTarget, AlienVault, Wayback) and of ASNCIDRCollector, which asks  *)
(* for the prefixes of the seed's networks and looks up the names of their *)
(* addresses.  Every request goes through DoRequest.                       *)
(***************************************************************************)
EXTENDS StageContext, FetchRetry

CONSTANTS
    PassiveWorld,     \* hosts and good (the answer parses) per domain, prefixes
                      \* per ASN, ips per prefix, names per ip
    PassiveSeeds,     \* seeds: [domains, asn, cidr], sequences
    HostRoot,         \* registrable root of a host
    MaxHostsPerCIDR, MaxHostsPerASN

Kind == {"crtsh", "hackertarget", "alienvault", "wayback", "asn_cidr"}

VARIABLES
    pasWorld,
    pas         \* Process: kind, phase, seeds, seed, queries to come, cidrs,
                \* remainingASNHosts, ptrHosts, newErrors and newAssets (by seed),
                \* bodies (what io.ReadAll was called on)

pasVars == <<pasWorld, pas, fetchVars>>

NoSeed == [domains |-> <<>>, asn |-> <<>>, cidr |-> <<>>]

PassiveInit ==
    /\ FetchInit
    /\ pasWorld = CHOOSE w \in PassiveWorld : TRUE
    /\ pas = [kind |-> "crtsh", phase |-> "idle", seeds |-> {}, seed |-> NoSeed,
              queries |-> <<>>, cidrs |-> <<>>, remaining |-> 0, hosts |-> {},
              errors |-> {}, assets |-> {}, bodies |-> {}]

PassiveProcess(kind) ==
    /\ pas.phase = "idle"
    /\ pasWorld' \in PassiveWorld
    /\ pas' = [pas EXCEPT !.kind = kind, !.phase = "seeds", !.seeds = PassiveSeeds]
    /\ UNCHANGED <<fetchVars, pctx>>

PassiveStartSeed(s) ==
    /\ pas.phase = "seeds" /\ s \in pas.seeds
    /\ pas' = [pas EXCEPT !.phase = "query", !.seeds = @ \ {s}, !.seed = s,
                  !.queries = IF pas.kind = "asn_cidr" THEN s.asn ELSE s.domains,
                  !.cidrs = s.cidr, !.remaining = MaxHostsPerASN, !.hosts = {}]
    /\ UNCHANGED <<pasWorld, fetchVars, pctx>>

PassiveQuery ==
    /\ pas.phase = "query" /\ pas.queries # <<>>
    /\ req.state = "idle" /\ req' = NewRequest
    /\ UNCHANGED <<pasWorld, pas, ctxDone, pctx>>

ReadsBody_OnAnyAnswer(r) == ~r.err

\* Only an answer of status 200 has its body read.
ReadsBody(r) == ~r.err /\ r.status = "ok"

RecordError(q) == {<<pas.seed, q>>}

\* Every other answer, a body that cannot be read and one that does not parse is
\* an error of this query; the next query goes on.  Wayback's text always parses.
PassiveAnswer(unreadable) ==
    /\ pas.phase = "query" /\ req.state = "done"
    /\ LET q == Head(pas.queries)
           read == ReadsBody(req)
           parses == pas.kind = "wayback" \/ pasWorld.good[q]
           failed == ~read \/ unreadable \/ req.body = "closed" \/ ~parses
       IN  pas' = [pas EXCEPT
              !.queries = Tail(@),
              !.bodies = IF read THEN @ \cup {req.body} ELSE @,
              !.errors = IF failed THEN @ \cup RecordError(q) ELSE @,
              !.cidrs = IF pas.kind = "asn_cidr" /\ ~failed THEN @ \o pasWorld.prefixes[q] ELSE @,
              !.assets = IF pas.kind = "asn_cidr" \/ failed THEN @
                         ELSE @ \cup {<<pas.seed, h>> : h \in pasWorld.hosts[q]}]
    /\ req' = NoRequest
    /\ UNCHANGED <<pasWorld, ctxDone, pctx>>

\* The hosts a prefix may cost: the budget of the seed's networks narrows the
\* limit only while something of it is left.
HostLimit ==
    IF pas.remaining > 0 /\ pas.seed.asn # <<>> /\ pas.remaining < MaxHostsPerCIDR
    THEN pas.remaining ELSE MaxHostsPerCIDR

\* The names of the first addresses of the next prefix (each prefix once); a
\* lookup that fails is passed over, and so is a prefix that is not IPv4 (one
\* without addresses here).
SweepPrefix(silent) ==
    /\ pas.kind = "asn_cidr" /\ pas.phase = "query"
    /\ pas.queries = <<>> /\ pas.cidrs # <<>>
    /\ LET ips == pasWorld.ips[Head(pas.cidrs)]
           limit == HostLimit
           probed == {ips[i] : i \in {j \in DOMAIN ips : j <= limit}}
       IN  /\ silent \subseteq probed
           /\ pas' = [pas EXCEPT
                 !.cidrs = SelectSeq(Tail(@), LAMBDA p : p # Head(pas.cidrs)),
                 !.remaining = IF pas.seed.asn # <<>> /\ ips # <<>> THEN @ - limit ELSE @,
                 !.hosts = @ \cup UNION {pasWorld.names[ip] : ip \in probed \ silent}]
    /\ UNCHANGED <<pasWorld, fetchVars, pctx>>

PtrRoots == {HostRoot[h] : h \in pas.hosts}

\* Without names or without a judge the seed is done.
PassiveSeedDone ==
    /\ pas.phase = "query" /\ pas.queries = <<>>
    /\ pas.kind = "asn_cidr" => pas.cidrs = <<>>
    /\ pas' = [pas EXCEPT
          !.phase = IF pctx.judge /\ pas.hosts # {} THEN "judge" ELSE "seeds",
          !.assets = @ \cup {<<pas.seed, h>> : h \in pas.hosts}]
    /\ UNCHANGED <<pasWorld, fetchVars, pctx>>

PassiveJudgeFails ==
    /\ pas.phase = "judge"
    /\ pas' = [pas EXCEPT !.phase = "seeds", !.errors = @ \cup RecordError("judge")]
    /\ UNCHANGED <<pasWorld, fetchVars, pctx>>

PassiveJudged(reply, accepted) ==
    /\ pas.phase = "judge"
    /\ JudgeReplies("asn_cidr_collector", PtrRoots, reply, accepted)
    /\ pas' = [pas EXCEPT !.phase = "seeds",
                          !.assets = @ \cup {<<pas.seed, r>> : r \in accepted}]
    /\ UNCHANGED <<pasWorld, fetchVars>>

PassiveReturn ==
    /\ pas.phase = "seeds" /\ pas.seeds = {}
    /\ pas' = [pas EXCEPT !.phase = "returned"]
    /\ pctx' = [pctx EXCEPT !.assets = @ \cup {a[2] : a \in pas.assets}]
    /\ UNCHANGED <<pasWorld, fetchVars>>

PassiveNext ==
    \/ \E kind \in Kind : PassiveProcess(kind)
    \/ \E s \in pas.seeds : PassiveStartSeed(s)
    \/ PassiveQuery
    \/ FetchNext /\ UNCHANGED <<pasWorld, pas, pctx>>
    \/ \E unreadable \in BOOLEAN : PassiveAnswer(unreadable)
    \/ \E silent \in SUBSET DOMAIN pasWorld.names : SweepPrefix(silent)
    \/ PassiveSeedDone \/ PassiveJudgeFails
    \/ \E reply \in Replies(PtrRoots), accepted \in SUBSET PtrRoots :
          PassiveJudged(reply, accepted)
    \/ PassiveReturn

-----------------------------------------------------------------------------
(* Properties.                                                             *)

\* DoRequest returns the last retryable answer without an error but with its
\* body closed: no collector reads that body.
ReadsOpenBody == "closed" \notin pas.bodies

=============================================================================
