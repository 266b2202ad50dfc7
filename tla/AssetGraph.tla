----------------------------- MODULE AssetGraph -----------------------------
(***************************************************************************)
(* The canonical asset graph of models.PipelineContext: assets, one per    *)
(* type and normalised identifier, the observations they were built from   *)
(* and the relations between them, filled by stages that run at the same   *)
(* time and carried over a checkpoint when the run is resumed.             *)
(*                                                                         *)
(* A sighting is a raw asset as a stage hands it to AppendAssets: its ID,  *)
(* the name it was seen under, the reason and the ownership it gives.      *)
(* AppendAssets keeps the lock for all its arguments; here each argument   *)
(* is a step of its own, which allows more interleavings and no other      *)
(* outcomes.                                                               *)
(***************************************************************************)
EXTENDS Naturals, FiniteSets

CONSTANTS
    ID,           \* identities NewID hands out
    Sighting,     \* raw assets, by their IDs
    Enrichment,   \* enrichment observations, by their IDs
    Name,         \* spellings of identifiers
    Key,          \* canonical keys
    Address,      \* the keys of IP addresses
    keyOf,        \* spelling -> key: canonicalAssetKey ignores case and space
    nameOf,       \* the spelling of a sighting
    reasonOf,     \* the reason it gives, or Generic
    ownershipOf,  \* the ownership it declares, or ""
    Reason,       \* explicit inclusion reasons
    PointsAway,   \* "... but PTR points to ...", of the IP enricher
    Generic,      \* "Discovered via ..." and "Supported by ..."
    NoAsset,
    Link,         \* the pairs of spellings the stages relate
    MaxResumes

ASSUME IDAssumption ==
    /\ Sighting \subseteq ID /\ Enrichment \subseteq ID
    /\ Sighting \cap Enrichment = {}
    /\ NoAsset \notin ID

Ownership == {"associated_infrastructure", "uncertain", "owned"}

ASSUME NameAssumption ==
    /\ keyOf \in [Name -> Key]
    /\ nameOf \in [Sighting -> Name]
    /\ reasonOf \in [Sighting -> Reason \cup {Generic}]
    /\ ownershipOf \in [Sighting -> Ownership \cup {""}]
    /\ Generic \notin Reason /\ PointsAway \in Reason
    /\ Link \subseteq Name \X Name

VARIABLES
    assets,         \* ID of a canonical asset -> name, reason, ownership, provenance
    observations,   \* ID of an observation -> the asset it is about
    relations,      \* [fromName, from, toName, to]
    initialized,    \* assetStateInitialized: not part of a checkpoint
    resumes,
    seen            \* history: the observations any stage has ever added

vars == <<assets, observations, relations, initialized, resumes, seen>>

Asset == [name : Name, reason : Reason \cup {Generic}, ownership : Ownership,
          provenance : SUBSET Sighting]
Endpoint == ID \cup {NoAsset}
Relation == [fromName : Name, from : Endpoint, toName : Name, to : Endpoint]

Init ==
    /\ assets = [i \in {} |-> NoAsset]
    /\ observations = [o \in {} |-> NoAsset]
    /\ relations = {}
    /\ initialized = FALSE
    /\ resumes = 0
    /\ seen = {}

-----------------------------------------------------------------------------

canonicalAssetKey_Verbatim(name) == name

canonicalAssetKey(name) == keyOf[name]

\* What the rebuilt index finds for a name.
Matches(graph, name) ==
    {i \in DOMAIN graph : canonicalAssetKey(graph[i].name) = canonicalAssetKey(name)}

Resolve(graph, name) ==
    IF Matches(graph, name) = {} THEN NoAsset ELSE CHOOSE i \in Matches(graph, name) : TRUE

defaultOwnershipState(name) ==
    IF keyOf[name] \in Address THEN "associated_infrastructure" ELSE "owned"

\* The ownership of an asset that is founded.
Declared(name, ownership) == IF ownership = "" THEN defaultOwnershipState(name) ELSE ownership

\* ingestAssetLocked of an asset whose key the graph does not have: it becomes
\* canonical under its own ID, with itself as its only provenance.
Alone(i, asset) == [asset EXCEPT !.provenance = {i} \cap Sighting]

\* ensureAssetStateLocked.  A context that has just been loaded takes its assets
\* for raw ones: observations and relations are dropped and every asset is
\* ingested anew.  Otherwise only assets without an observation are raw
\* (reconcilePendingRawAssetsLocked); canonical keys are distinct, so each is
\* ingested into a graph that does not have it.
Raw == IF initialized THEN DOMAIN assets \ DOMAIN observations ELSE DOMAIN assets

EnsuredAssets ==
    [i \in DOMAIN assets |-> IF i \in Raw THEN Alone(i, assets[i]) ELSE assets[i]]

EnsuredObservations ==
    [o \in (IF initialized THEN DOMAIN observations ELSE {}) \cup Raw |->
        IF o \in Raw THEN o ELSE observations[o]]

EnsuredRelations == IF initialized THEN relations ELSE {}

With(f, x, value) == [y \in DOMAIN f \cup {x} |-> IF y = x THEN value ELSE f[y]]

incomingWins(existing, incoming) ==
    \/ incoming = "owned" /\ existing # "owned"
    \/ incoming = "uncertain" /\ existing = "associated_infrastructure"

mergeOwnershipState(existing, incoming) ==
    IF incomingWins(existing, incoming) THEN incoming ELSE existing

mergeInclusionReason_Latest(existing, incoming, wins) == incoming

\* mergeInclusionReason of two discoveries: the first explicit reason stays until
\* another one comes with an ownership that wins.
mergeInclusionReason(existing, incoming, wins) ==
    IF incoming # Generic /\ (existing = Generic \/ wins) THEN incoming ELSE existing

mergeProvenance_Latest(provenance, s) == {s}

mergeProvenance(provenance, s) == provenance \cup {s}

mergeAssetIntoCanonical(asset, s) ==
    [asset EXCEPT
        !.reason = mergeInclusionReason(@, reasonOf[s],
                                        incomingWins(asset.ownership, ownershipOf[s])),
        !.ownership = mergeOwnershipState(@, ownershipOf[s]),
        !.provenance = mergeProvenance(@, s)]

FoundedBy(s) ==
    [name |-> nameOf[s], reason |-> reasonOf[s],
     ownership |-> Declared(nameOf[s], ownershipOf[s]), provenance |-> {s}]

\* AppendAssets: the sighting joins the asset of its key, or founds it.
AppendAsset(s) ==
    /\ s \notin seen
    /\ LET existing == Resolve(EnsuredAssets, nameOf[s])
       IN  /\ assets' = IF existing = NoAsset THEN With(EnsuredAssets, s, FoundedBy(s))
                        ELSE [EnsuredAssets EXCEPT ![existing] = mergeAssetIntoCanonical(@, s)]
           /\ observations' = With(EnsuredObservations, s,
                                   IF existing = NoAsset THEN s ELSE existing)
    /\ relations' = EnsuredRelations
    /\ initialized' = TRUE
    /\ seen' = seen \cup {s}
    /\ UNCHANGED resumes

\* AppendAssetObservations: what an enricher has to say of asset i.  It keeps the
\* reason and the provenance of the asset it meets; if there were none any more,
\* it would found one.
AppendEnrichment(o, i, ownership) ==
    /\ o \notin seen
    /\ LET name == assets[i].name
           existing == Resolve(EnsuredAssets, name)
           founded == [name |-> name, reason |-> assets[i].reason,
                       ownership |-> Declared(name, ownership), provenance |-> {}]
       IN  /\ assets' = IF existing = NoAsset THEN With(EnsuredAssets, i, founded)
                        ELSE [EnsuredAssets EXCEPT
                                ![existing].ownership = mergeOwnershipState(@, ownership)]
           /\ observations' = With(EnsuredObservations, o,
                                   IF existing = NoAsset THEN i ELSE existing)
    /\ relations' = EnsuredRelations
    /\ initialized' = TRUE
    /\ seen' = seen \cup {o}
    /\ UNCHANGED resumes

\* One end of a relation: the asset of the name, or else the ID the caller gave.
End(name, given) ==
    LET existing == Resolve(EnsuredAssets, name)
    IN  IF existing = NoAsset THEN given ELSE existing

\* AppendAssetRelations: the ends are resolved now or never.
AppendRelation(from, fromID, to, toID) ==
    /\ assets' = EnsuredAssets
    /\ observations' = EnsuredObservations
    /\ relations' = EnsuredRelations \cup
          {[fromName |-> from, from |-> End(from, fromID), toName |-> to, to |-> End(to, toID)]}
    /\ initialized' = TRUE
    /\ UNCHANGED <<resumes, seen>>

\* classifyCanonicalIPAsset writes through its pointer: the address is owned, or
\* its PTR name points away from all its seeds, whatever it was before.
Classify(i) ==
    /\ initialized
    /\ keyOf[assets[i].name] \in Address
    /\ \/ assets' = [assets EXCEPT ![i].ownership = "owned"]
       \/ assets' = [assets EXCEPT ![i].ownership = "uncertain", ![i].reason = PointsAway]
    /\ UNCHANGED <<observations, relations, initialized, resumes, seen>>

\* EnsureAssetState, with which enrichers, expanders, the filter and the exporters
\* begin.
EnsureAssetState ==
    /\ assets' = EnsuredAssets
    /\ observations' = EnsuredObservations
    /\ relations' = EnsuredRelations
    /\ initialized' = TRUE
    /\ UNCHANGED <<resumes, seen>>

\* The run is loaded from a checkpoint: exported fields only.
ResumeContext ==
    /\ resumes < MaxResumes
    /\ resumes' = resumes + 1
    /\ initialized' = FALSE
    /\ UNCHANGED <<assets, observations, relations, seen>>

\* The IDs callers give with a name: none, or that of an asset they have appended
\* under it.
Handed(name) == {NoAsset} \cup {s \in seen \cap Sighting : nameOf[s] = name}

Next ==
    \/ \E s \in Sighting : AppendAsset(s)
    \/ \E o \in Enrichment, i \in DOMAIN assets : \E ownership \in {"", assets[i].ownership} :
          AppendEnrichment(o, i, ownership)
    \/ \E link \in Link : \E fromID \in Handed(link[1]), toID \in Handed(link[2]) :
          AppendRelation(link[1], fromID, link[2], toID)
    \/ \E i \in DOMAIN assets : Classify(i)
    \/ EnsureAssetState
    \/ ResumeContext

Spec == Init /\ [][Next]_vars

-----------------------------------------------------------------------------
(* Properties.                                                             *)

\* The variables hold values of their types.
GraphTypeOK ==
    /\ DOMAIN assets \subseteq Sighting /\ assets \in [DOMAIN assets -> Asset]
    /\ DOMAIN observations \subseteq ID
    /\ observations \in [DOMAIN observations -> ID]
    /\ relations \subseteq Relation
    /\ initialized \in BOOLEAN /\ resumes \in Nat
    /\ seen \subseteq Sighting \cup Enrichment

\* No two assets have one canonical key.
NoDuplicateAssets ==
    \A i, j \in DOMAIN assets :
        keyOf[assets[i].name] = keyOf[assets[j].name] => i = j

\* Every observation is about an asset that exists.
NoDanglingObservations == \A o \in DOMAIN observations : observations[o] \in DOMAIN assets

\* The ends of a relation are assets of the names it gives, if it has them.
NoDanglingRelations ==
    \A r \in relations :
        /\ r.from # NoAsset => /\ r.from \in DOMAIN assets
                               /\ keyOf[assets[r.from].name] = keyOf[r.fromName]
        /\ r.to # NoAsset => /\ r.to \in DOMAIN assets
                             /\ keyOf[assets[r.to].name] = keyOf[r.toName]

\* What the merge filter validates before a run's results are exported never
\* fails: whatever stages append at the same time, in whatever spelling, order
\* and however often the run was resumed in between, the graph has no duplicate
\* assets and no dangling observations or relations (validateCanonicalGraph).
CanonicalGraphValid == NoDuplicateAssets /\ NoDanglingObservations /\ NoDanglingRelations

\* In a run that was never resumed, no sighting is lost: each is an observation of
\* the asset of its name and part of that asset's provenance.
SightingsKept ==
    resumes = 0 =>
        \A s \in seen \cap Sighting :
            /\ s \in DOMAIN observations
            /\ keyOf[assets[observations[s]].name] = keyOf[nameOf[s]]
            /\ s \in assets[observations[s]].provenance

\* The Observations "preserve repeated sightings".
SightingsPreserved == seen \subseteq DOMAIN observations

\* An explicit reason to include an asset gives way only to another explicit one,
\* and only with a stronger claim of ownership or because the address points away;
\* only the latter weakens the ownership.  No generic sighting, enrichment or
\* resume does either (mergeInclusionReason, mergeOwnershipState).
ExplicitReasonStays ==
    [][\A i \in DOMAIN assets :
          LET stronger == incomingWins(assets[i].ownership, assets'[i].ownership)
              away == keyOf[assets[i].name] \in Address /\ assets'[i].reason = PointsAway
          IN  /\ i \in DOMAIN assets'
              /\ assets[i].reason # Generic => assets'[i].reason # Generic
              /\ \/ assets[i].reason \in {Generic, assets'[i].reason}
                 \/ stronger \/ away
              /\ assets'[i].ownership # assets[i].ownership => stronger \/ away]_vars

-----------------------------------------------------------------------------
(* The graph as a catalog: spellings, observations and the index disappear. *)

KeyIn(graph, i) == keyOf[graph[i].name]

Keys(graph) == {KeyIn(graph, i) : i \in DOMAIN graph}

AssetWith(graph, k) == CHOOSE i \in DOMAIN graph : KeyIn(graph, i) = k

Entries(graph) ==
    [k \in Keys(graph) |->
        LET i == AssetWith(graph, k)
        IN  [founder |-> i, reason |-> graph[i].reason,
             ownership |-> graph[i].ownership, sightings |-> graph[i].provenance]]

Catalog == INSTANCE AssetCatalog WITH
    keyFor <- [s \in Sighting |-> keyOf[nameOf[s]]],
    entry  <- Entries(assets),
    loaded <- ~initialized

\* The graph implements the catalog: whatever spelling a sighting comes in and
\* whatever was dropped by a resume, it finds the entry of its key, whose ID never
\* changes, and whose reason and ownership change only as the catalog says
\* (AppendAssets, AppendAssetObservations, ensureAssetStateLocked).
ImplementsCatalog == Catalog!CatalogSpec

=============================================================================
