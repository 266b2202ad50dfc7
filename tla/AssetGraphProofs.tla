-------------------------- MODULE AssetGraphProofs --------------------------
(***************************************************************************)
(* Proofs about the asset graph, for every set of sightings, spellings,    *)
(* keys and links and any number of resumes: the merge filter's validation *)
(* never fails, an explicit reason gives way only to a stronger claim, a   *)
(* run that was never resumed keeps every sighting, and the graph          *)
(* implements the catalog.                                                 *)
(***************************************************************************)
EXTENDS AssetGraph, TLAPS

\* CanonicalGraphValid is inductive together with the types, with the fact that
\* an asset has the ID of a sighting that was seen, that every sighting has an
\* asset of its key, and that only a context that has just been loaded holds
\* assets without an observation.
HasAsset(s) == \E i \in DOMAIN assets : keyOf[assets[i].name] = keyOf[nameOf[s]]

GraphInv ==
    /\ GraphTypeOK
    /\ CanonicalGraphValid
    /\ DOMAIN assets \subseteq seen
    /\ \A s \in seen \cap Sighting : HasAsset(s)
    /\ initialized => DOMAIN assets \subseteq DOMAIN observations

-----------------------------------------------------------------------------
(* What every operation finds when it has made sure of the state.          *)

\* The assets keep IDs, names, reasons and ownership; each has its own provenance, or only
\* itself when the context was just loaded.
LEMMA EnsuredAssetsFacts ==
    ASSUME GraphInv
    PROVE  /\ EnsuredAssets \in [DOMAIN assets -> Asset]
           /\ DOMAIN EnsuredAssets = DOMAIN assets
           /\ \A i \in DOMAIN assets :
                /\ EnsuredAssets[i].name = assets[i].name
                /\ EnsuredAssets[i].reason = assets[i].reason
                /\ EnsuredAssets[i].ownership = assets[i].ownership
                /\ EnsuredAssets[i].provenance
                      = IF initialized THEN assets[i].provenance ELSE {i}
<1>1. ASSUME NEW i \in DOMAIN assets
      PROVE  assets[i] \in Asset /\ i \in Sighting /\ (i \in Raw <=> ~initialized)
  BY DEF GraphInv, GraphTypeOK, Raw
<1>2. ASSUME NEW i \in DOMAIN assets
      PROVE  /\ Alone(i, assets[i]) \in Asset
             /\ Alone(i, assets[i]).name = assets[i].name
             /\ Alone(i, assets[i]).reason = assets[i].reason
             /\ Alone(i, assets[i]).ownership = assets[i].ownership
             /\ Alone(i, assets[i]).provenance = {i}
  <2>1. {i} \cap Sighting = {i} /\ {i} \in SUBSET Sighting
    BY <1>1
  <2>. QED  BY <1>1, <2>1 DEF Alone, Asset
<1>3. EnsuredAssets = [i \in DOMAIN assets |-> IF initialized THEN assets[i]
                                                ELSE Alone(i, assets[i])]
  BY <1>1 DEF EnsuredAssets
<1>. QED  BY <1>1, <1>2, <1>3

\* Observations and relations are about assets that exist, or are gone.
LEMMA EnsuredRestFacts ==
    ASSUME GraphInv
    PROVE  /\ EnsuredObservations \in [DOMAIN EnsuredObservations -> DOMAIN assets]
           /\ DOMAIN assets \subseteq DOMAIN EnsuredObservations
           /\ DOMAIN EnsuredObservations \subseteq ID
           /\ initialized => EnsuredObservations = observations
           /\ EnsuredRelations \subseteq relations
<1>1. DOMAIN assets \subseteq ID /\ DOMAIN observations \subseteq ID
  BY IDAssumption DEF GraphInv, GraphTypeOK
<1>2. \A o \in DOMAIN observations : observations[o] \in DOMAIN assets
  BY DEF GraphInv, CanonicalGraphValid, NoDanglingObservations
<1>3. CASE initialized
  <2>1. Raw = {}
    BY <1>3 DEF GraphInv, Raw
  <2>2. EnsuredObservations = [o \in DOMAIN observations |-> observations[o]]
    BY <1>3, <2>1 DEF EnsuredObservations
  <2>3. observations = [o \in DOMAIN observations |-> observations[o]]
    BY DEF GraphInv, GraphTypeOK
  <2>4. EnsuredRelations = relations
    BY <1>3 DEF EnsuredRelations
  <2>. QED  BY <1>1, <1>2, <1>3, <2>2, <2>3, <2>4 DEF GraphInv
<1>4. CASE ~initialized
  <2>1. EnsuredObservations = [o \in DOMAIN assets |-> o]
    BY <1>4 DEF EnsuredObservations, Raw
  <2>2. EnsuredRelations = {}
    BY <1>4 DEF EnsuredRelations
  <2>. QED  BY <1>1, <1>4, <2>1, <2>2
<1>. QED  BY <1>3, <1>4

\* Resolving a spelling finds the asset of its key, if there is one.
LEMMA ResolveFacts ==
    ASSUME GraphInv, NEW n \in Name
    PROVE  \/ /\ Resolve(EnsuredAssets, n) = NoAsset
              /\ \A i \in DOMAIN assets : keyOf[assets[i].name] # keyOf[n]
           \/ /\ Resolve(EnsuredAssets, n) \in DOMAIN assets
              /\ keyOf[assets[Resolve(EnsuredAssets, n)].name] = keyOf[n]
<1>1. Matches(EnsuredAssets, n) = {i \in DOMAIN assets : keyOf[assets[i].name] = keyOf[n]}
  BY EnsuredAssetsFacts DEF Matches, canonicalAssetKey
<1>. QED  BY <1>1 DEF Resolve

\* NoAsset is the ID of no asset.
LEMMA NoAssetIsNone == GraphInv => NoAsset \notin DOMAIN assets
BY IDAssumption DEF GraphInv, GraphTypeOK

-----------------------------------------------------------------------------
(* The invariant.                                                          *)

\* The parts of the invariant from the two state components an operation writes.
LEMMA GraphInvFrom ==
    ASSUME GraphInv,
           DOMAIN assets \subseteq DOMAIN assets',
           \A i \in DOMAIN assets : assets'[i].name = assets[i].name,
           DOMAIN assets' \subseteq Sighting,
           assets' \in [DOMAIN assets' -> Asset],
           NoDuplicateAssets',
           observations' \in [DOMAIN observations' -> DOMAIN assets'],
           DOMAIN observations' \subseteq ID,
           \A r \in relations' : r \in relations \/
              /\ r \in Relation
              /\ r.from # NoAsset => /\ r.from \in DOMAIN assets
                                     /\ keyOf[assets[r.from].name] = keyOf[r.fromName]
              /\ r.to # NoAsset => /\ r.to \in DOMAIN assets
                                   /\ keyOf[assets[r.to].name] = keyOf[r.toName],
           DOMAIN assets' \subseteq seen',
           \A s \in seen' \cap Sighting :
              s \in seen \/ \E i \in DOMAIN assets' : keyOf[assets'[i].name] = keyOf[nameOf[s]],
           seen' \subseteq Sighting \cup Enrichment,
           initialized' \in BOOLEAN,
           initialized' => DOMAIN assets' \subseteq DOMAIN observations',
           resumes' \in Nat
    PROVE  GraphInv'
<1>1. DOMAIN assets' \subseteq ID
  BY IDAssumption
<1>2. GraphTypeOK'
  <2>1. observations' \in [DOMAIN observations' -> ID]
    BY <1>1
  <2>2. relations' \subseteq Relation
    BY DEF GraphInv, GraphTypeOK
  <2>. QED  BY <2>1, <2>2 DEF GraphTypeOK
<1>3. NoDanglingObservations'
  BY DEF NoDanglingObservations
<1>4. NoDanglingRelations'
  <2> SUFFICES ASSUME NEW r \in relations'
               PROVE  /\ r.from # NoAsset => /\ r.from \in DOMAIN assets'
                                             /\ keyOf[assets'[r.from].name] = keyOf[r.fromName]
                      /\ r.to # NoAsset => /\ r.to \in DOMAIN assets'
                                           /\ keyOf[assets'[r.to].name] = keyOf[r.toName]
    BY DEF NoDanglingRelations
  <2>1. /\ r.from # NoAsset => /\ r.from \in DOMAIN assets
                               /\ keyOf[assets[r.from].name] = keyOf[r.fromName]
        /\ r.to # NoAsset => /\ r.to \in DOMAIN assets
                             /\ keyOf[assets[r.to].name] = keyOf[r.toName]
    BY DEF GraphInv, CanonicalGraphValid, NoDanglingRelations
  <2>. QED  BY <2>1
<1>5. ASSUME NEW s \in seen' \cap Sighting PROVE HasAsset(s)'
  <2>1. CASE s \in seen
    <3>1. PICK i \in DOMAIN assets : keyOf[assets[i].name] = keyOf[nameOf[s]]
      BY <1>5, <2>1 DEF GraphInv, HasAsset
    <3>. QED  BY <3>1 DEF HasAsset
  <2>2. CASE s \notin seen
    BY <1>5, <2>2 DEF HasAsset
  <2>. QED  BY <2>1, <2>2
<1>. QED  BY <1>2, <1>3, <1>4, <1>5 DEF GraphInv, CanonicalGraphValid

\* The empty graph satisfies the invariant.
LEMMA InitGraphInv == Init => GraphInv
<1> SUFFICES ASSUME Init PROVE GraphInv
  OBVIOUS
<1>1. DOMAIN assets = {} /\ DOMAIN observations = {} /\ relations = {}
  BY DEF Init
<1>2. /\ assets \in [DOMAIN assets -> Asset]
      /\ observations \in [DOMAIN observations -> ID]
  BY <1>1 DEF Init
<1>. QED
  BY <1>1, <1>2 DEF Init, GraphInv, GraphTypeOK, CanonicalGraphValid, NoDuplicateAssets,
     NoDanglingObservations, NoDanglingRelations

\* What a sighting does to the assets: it joins the one of its key, or founds it.
LEMMA AppendAssetEffect ==
    ASSUME GraphInv, NEW s \in Sighting, AppendAsset(s)
    PROVE  \/ /\ \A i \in DOMAIN assets : keyOf[assets[i].name] # keyOf[nameOf[s]]
              /\ s \notin DOMAIN assets
              /\ DOMAIN assets' = DOMAIN assets \cup {s}
              /\ assets' = [i \in DOMAIN assets \cup {s} |->
                              IF i = s THEN FoundedBy(s)
                              ELSE EnsuredAssets[i]]
              /\ observations' = With(EnsuredObservations, s, s)
           \/ \E x \in DOMAIN assets :
              /\ keyOf[assets[x].name] = keyOf[nameOf[s]]
              /\ DOMAIN assets' = DOMAIN assets
              /\ assets' = [EnsuredAssets EXCEPT ![x] = mergeAssetIntoCanonical(@, s)]
              /\ observations' = With(EnsuredObservations, s, x)
<1> DEFINE x == Resolve(EnsuredAssets, nameOf[s])
<1>1. nameOf[s] \in Name
  BY NameAssumption
<1>2. s \notin DOMAIN assets
  BY DEF AppendAsset, GraphInv
<1>3. DOMAIN EnsuredAssets = DOMAIN assets
  BY EnsuredAssetsFacts
<1>4. CASE x = NoAsset
  <2>1. \A i \in DOMAIN assets : keyOf[assets[i].name] # keyOf[nameOf[s]]
    BY <1>1, <1>4, ResolveFacts, NoAssetIsNone
  <2>. QED  BY <1>2, <1>3, <1>4, <2>1 DEF AppendAsset, With
<1>5. CASE x # NoAsset
  <2>1. x \in DOMAIN assets /\ keyOf[assets[x].name] = keyOf[nameOf[s]]
    BY <1>1, <1>5, ResolveFacts
  <2>. QED  BY <1>3, <1>5, <2>1 DEF AppendAsset
<1>. QED  BY <1>4, <1>5

\* What wins is an ownership.
LEMMA OwnershipTypes ==
    /\ \A s \in Sighting : Declared(nameOf[s], ownershipOf[s]) \in Ownership
    /\ \A e \in Ownership, i \in Ownership \cup {""} : mergeOwnershipState(e, i) \in Ownership
BY NameAssumption
   DEF Declared, defaultOwnershipState, mergeOwnershipState, incomingWins, Ownership

\* A merge keeps the asset's name, takes a new reason or ownership only as it must,
\* and adds the sighting to its provenance.
LEMMA MergeFacts ==
    ASSUME NEW a \in Asset, NEW s \in Sighting
    PROVE  /\ mergeAssetIntoCanonical(a, s) \in Asset
           /\ mergeAssetIntoCanonical(a, s).name = a.name
           /\ mergeAssetIntoCanonical(a, s).reason
                 = mergeInclusionReason(a.reason, reasonOf[s],
                                        incomingWins(a.ownership, ownershipOf[s]))
           /\ mergeAssetIntoCanonical(a, s).ownership
                 = mergeOwnershipState(a.ownership, ownershipOf[s])
           /\ mergeAssetIntoCanonical(a, s).provenance = a.provenance \cup {s}
<1> DEFINE wins == incomingWins(a.ownership, ownershipOf[s])
           reason == mergeInclusionReason(a.reason, reasonOf[s], wins)
           ownership == mergeOwnershipState(a.ownership, ownershipOf[s])
<1>1. reason \in Reason \cup {Generic}
  BY NameAssumption DEF mergeInclusionReason, Asset
<1>2. ownership \in Ownership
  BY NameAssumption, OwnershipTypes DEF Asset
<1>3. mergeAssetIntoCanonical(a, s)
         = [a EXCEPT !.reason = reason, !.ownership = ownership,
                     !.provenance = a.provenance \cup {s}]
  BY DEF mergeAssetIntoCanonical, mergeProvenance
<1> HIDE DEF reason, ownership
<1>. QED  BY <1>1, <1>2, <1>3 DEF Asset, reason, ownership

\* With a new observation of an asset that exists, observations stay in order.
LEMMA WithFacts ==
    ASSUME GraphInv, NEW o \in ID, NEW S, DOMAIN assets \subseteq S, NEW i \in S,
           observations' = With(EnsuredObservations, o, i)
    PROVE  /\ observations' \in [DOMAIN observations' -> S]
           /\ DOMAIN observations' = DOMAIN EnsuredObservations \cup {o}
           /\ DOMAIN observations' \subseteq ID
BY EnsuredRestFacts DEF With

\* AppendAssets keeps the invariant, whether it meets the asset or makes one.
LEMMA AppendAssetInv ==
    ASSUME GraphInv, NEW s \in Sighting, AppendAsset(s)
    PROVE  GraphInv'
<1>1. s \in ID /\ nameOf[s] \in Name /\ reasonOf[s] \in Reason \cup {Generic}
  BY IDAssumption, NameAssumption
<1>2. /\ initialized' = TRUE /\ resumes' = resumes /\ seen' = seen \cup {s}
      /\ relations' \subseteq relations /\ DOMAIN assets \subseteq Sighting
      /\ DOMAIN assets \subseteq seen /\ seen \subseteq Sighting \cup Enrichment
      /\ resumes \in Nat
  BY EnsuredRestFacts DEF AppendAsset, GraphInv, GraphTypeOK
<1>3. \A i, j \in DOMAIN assets : keyOf[assets[i].name] = keyOf[assets[j].name] => i = j
  BY DEF GraphInv, CanonicalGraphValid, NoDuplicateAssets
<1>4. CASE /\ \A i \in DOMAIN assets : keyOf[assets[i].name] # keyOf[nameOf[s]]
           /\ s \notin DOMAIN assets
           /\ DOMAIN assets' = DOMAIN assets \cup {s}
           /\ assets' = [i \in DOMAIN assets \cup {s} |->
                           IF i = s THEN FoundedBy(s)
                           ELSE EnsuredAssets[i]]
           /\ observations' = With(EnsuredObservations, s, s)
  <2>1. FoundedBy(s) \in Asset /\ FoundedBy(s).name = nameOf[s]
    BY <1>1, OwnershipTypes DEF Asset, FoundedBy
  <2>2. assets' \in [DOMAIN assets' -> Asset]
    BY <1>4, <2>1, EnsuredAssetsFacts
  <2>3. \A i \in DOMAIN assets : assets'[i].name = assets[i].name
    BY <1>4, EnsuredAssetsFacts
  <2>4. assets'[s].name = nameOf[s]
    BY <1>4, <2>1
  <2>5. NoDuplicateAssets'
    BY <1>3, <1>4, <2>3, <2>4 DEF NoDuplicateAssets
  <2>6. /\ observations' \in [DOMAIN observations' -> DOMAIN assets']
        /\ DOMAIN observations' = DOMAIN EnsuredObservations \cup {s}
        /\ DOMAIN observations' \subseteq ID
    BY <1>1, <1>4, WithFacts
  <2>7. DOMAIN assets' \subseteq DOMAIN observations'
    BY <1>4, <2>6, EnsuredRestFacts
  <2>8. \A t \in seen' \cap Sighting :
           t \in seen \/ \E i \in DOMAIN assets' : keyOf[assets'[i].name] = keyOf[nameOf[t]]
    BY <1>2, <1>4, <2>4
  <2>. QED  BY <1>2, <1>4, <2>2, <2>3, <2>5, <2>6, <2>7, <2>8, GraphInvFrom
<1>5. ASSUME NEW x \in DOMAIN assets,
             keyOf[assets[x].name] = keyOf[nameOf[s]],
             DOMAIN assets' = DOMAIN assets,
             assets' = [EnsuredAssets EXCEPT ![x] = mergeAssetIntoCanonical(@, s)],
             observations' = With(EnsuredObservations, s, x)
      PROVE  GraphInv'
  <2>1. EnsuredAssets[x] \in Asset
    BY EnsuredAssetsFacts
  <2>2. assets' \in [DOMAIN assets' -> Asset]
    BY <1>5, <2>1, EnsuredAssetsFacts, MergeFacts
  <2>3. ASSUME NEW i \in DOMAIN assets PROVE assets'[i].name = assets[i].name
    <3>1. EnsuredAssets[i].name = assets[i].name BY EnsuredAssetsFacts
    <3>2. CASE i = x
      <4>1. assets'[i] = mergeAssetIntoCanonical(EnsuredAssets[i], s)
        BY <1>5, <3>2, EnsuredAssetsFacts
      <4>. QED  BY <2>1, <3>1, <3>2, <4>1, MergeFacts
    <3>3. CASE i # x
      <4>1. assets'[i] = EnsuredAssets[i] BY <1>5, <3>3, EnsuredAssetsFacts
      <4>. QED  BY <3>1, <4>1
    <3>. QED  BY <3>2, <3>3
  <2>4. NoDuplicateAssets'
    BY <1>3, <1>5, <2>3 DEF NoDuplicateAssets
  <2>5. /\ observations' \in [DOMAIN observations' -> DOMAIN assets']
        /\ DOMAIN observations' = DOMAIN EnsuredObservations \cup {s}
        /\ DOMAIN observations' \subseteq ID
    BY <1>1, <1>5, WithFacts
  <2>6. DOMAIN assets' \subseteq DOMAIN observations'
    BY <1>5, <2>5, EnsuredRestFacts
  <2>7. \A t \in seen' \cap Sighting :
           t \in seen \/ \E i \in DOMAIN assets' : keyOf[assets'[i].name] = keyOf[nameOf[t]]
    BY <1>2, <1>5, <2>3
  <2>. QED  BY <1>2, <1>5, <2>2, <2>3, <2>4, <2>5, <2>6, <2>7, GraphInvFrom
<1>. QED  BY <1>4, <1>5, AppendAssetEffect

\* The operations that add no asset.
LEMMA EnsuredInv ==
    ASSUME GraphInv, assets' = EnsuredAssets, initialized' = TRUE, resumes' = resumes,
           seen \subseteq seen', seen' \subseteq Sighting \cup Enrichment,
           seen' \cap Sighting \subseteq seen,
           observations' \in [DOMAIN observations' -> DOMAIN assets],
           DOMAIN observations' \subseteq ID,
           DOMAIN assets \subseteq DOMAIN observations',
           \A r \in relations' : r \in relations \/
              /\ r \in Relation
              /\ r.from # NoAsset => /\ r.from \in DOMAIN assets
                                     /\ keyOf[assets[r.from].name] = keyOf[r.fromName]
              /\ r.to # NoAsset => /\ r.to \in DOMAIN assets
                                   /\ keyOf[assets[r.to].name] = keyOf[r.toName]
    PROVE  GraphInv'
<1>1. /\ DOMAIN assets' = DOMAIN assets
      /\ assets' \in [DOMAIN assets' -> Asset]
      /\ \A i \in DOMAIN assets : assets'[i].name = assets[i].name
  BY EnsuredAssetsFacts
<1>2. NoDuplicateAssets'
  BY <1>1 DEF GraphInv, CanonicalGraphValid, NoDuplicateAssets
<1>3. /\ DOMAIN assets \subseteq Sighting /\ DOMAIN assets \subseteq seen
      /\ resumes \in Nat
  BY DEF GraphInv, GraphTypeOK
<1>. QED  BY <1>1, <1>2, <1>3, GraphInvFrom

\* An enricher finds the asset it speaks of and changes nothing of it: the branch
\* that founds an asset is never taken.
LEMMA AppendEnrichmentEffect ==
    ASSUME GraphInv, NEW o \in Enrichment, NEW i \in DOMAIN assets,
           NEW ownership \in {"", assets[i].ownership}, AppendEnrichment(o, i, ownership)
    PROVE  /\ assets' = EnsuredAssets
           /\ observations' = With(EnsuredObservations, o, i)
<1> DEFINE x == Resolve(EnsuredAssets, assets[i].name)
<1>1. assets[i].name \in Name
  BY DEF GraphInv, GraphTypeOK, Asset
<1>2. x = i
  BY <1>1, ResolveFacts DEF GraphInv, CanonicalGraphValid, NoDuplicateAssets
<1>3. i # NoAsset
  BY NoAssetIsNone
<1>4. /\ EnsuredAssets \in [DOMAIN assets -> Asset] /\ EnsuredAssets[i] \in Asset
      /\ EnsuredAssets[i].ownership = assets[i].ownership
  BY EnsuredAssetsFacts
<1>5. mergeOwnershipState(EnsuredAssets[i].ownership, ownership) = EnsuredAssets[i].ownership
  BY <1>4 DEF mergeOwnershipState, incomingWins
<1>6. assets' = [EnsuredAssets EXCEPT
                   ![i].ownership = mergeOwnershipState(EnsuredAssets[i].ownership, ownership)]
  BY <1>2, <1>3, <1>4 DEF AppendEnrichment
<1>7. [EnsuredAssets[i] EXCEPT !.ownership = EnsuredAssets[i].ownership] = EnsuredAssets[i]
  BY <1>4 DEF Asset
<1>8. assets' = [EnsuredAssets EXCEPT ![i] = EnsuredAssets[i]]
  BY <1>5, <1>6, <1>7
<1>9. assets' = EnsuredAssets
  BY <1>4, <1>8
<1>. QED  BY <1>2, <1>3, <1>9 DEF AppendEnrichment

\* AppendAssetObservations keeps it.
LEMMA AppendEnrichmentInv ==
    ASSUME GraphInv, NEW o \in Enrichment, NEW i \in DOMAIN assets,
           NEW ownership \in {"", assets[i].ownership}, AppendEnrichment(o, i, ownership)
    PROVE  GraphInv'
<1>1. o \in ID /\ o \notin Sighting
  BY IDAssumption
<1>2. assets' = EnsuredAssets /\ observations' = With(EnsuredObservations, o, i)
  BY AppendEnrichmentEffect
<1>4. /\ observations' \in [DOMAIN observations' -> DOMAIN assets]
      /\ DOMAIN observations' = DOMAIN EnsuredObservations \cup {o}
      /\ DOMAIN observations' \subseteq ID
  BY <1>1, <1>2, WithFacts
<1>5. relations' \subseteq relations /\ DOMAIN assets \subseteq DOMAIN EnsuredObservations
  BY EnsuredRestFacts DEF AppendEnrichment
<1>6. /\ initialized' = TRUE /\ resumes' = resumes
      /\ seen' = seen \cup {o} /\ seen \subseteq Sighting \cup Enrichment
  BY DEF AppendEnrichment, GraphInv, GraphTypeOK
<1>7. seen \subseteq seen' /\ seen' \subseteq Sighting \cup Enrichment
      /\ seen' \cap Sighting \subseteq seen
  BY <1>1, <1>6
<1>. QED  BY <1>2, <1>4, <1>5, <1>6, <1>7, EnsuredInv

\* What the IP enricher writes through its pointer is the ownership of one address,
\* with or without its reason.
LEMMA ClassifyEffect ==
    ASSUME GraphInv, NEW i \in DOMAIN assets, Classify(i)
    PROVE  /\ initialized /\ UNCHANGED <<observations, relations, initialized, resumes, seen>>
           /\ keyOf[assets[i].name] \in Address
           /\ assets' \in [DOMAIN assets -> Asset] /\ DOMAIN assets' = DOMAIN assets
           /\ \A j \in DOMAIN assets : /\ j # i => assets'[j] = assets[j]
                                       /\ assets'[j].name = assets[j].name
                                       /\ assets'[j].provenance = assets[j].provenance
           /\ \/ assets'[i] = [assets[i] EXCEPT !.ownership = "owned"]
              \/ assets'[i] = [assets[i] EXCEPT !.ownership = "uncertain", !.reason = PointsAway]
<1>1. /\ initialized /\ UNCHANGED <<observations, relations, initialized, resumes, seen>>
      /\ keyOf[assets[i].name] \in Address
  BY DEF Classify
<1>2. assets \in [DOMAIN assets -> Asset] /\ assets[i] \in Asset
  BY DEF GraphInv, GraphTypeOK
<1>3. PICK a : /\ \/ a = [assets[i] EXCEPT !.ownership = "owned"]
                  \/ a = [assets[i] EXCEPT !.ownership = "uncertain", !.reason = PointsAway]
               /\ assets' = [assets EXCEPT ![i] = a]
  BY <1>2 DEF Classify
<1>4. a \in Asset /\ a.name = assets[i].name /\ a.provenance = assets[i].provenance
  BY <1>2, <1>3, NameAssumption DEF Asset, Ownership
<1>. QED  BY <1>1, <1>2, <1>3, <1>4

\* So it keeps the invariant.
LEMMA ClassifyInv ==
    ASSUME GraphInv, NEW i \in DOMAIN assets, Classify(i)
    PROVE  GraphInv'
<1>1. /\ assets' \in [DOMAIN assets' -> Asset] /\ DOMAIN assets' = DOMAIN assets
      /\ \A j \in DOMAIN assets : assets'[j].name = assets[j].name
      /\ UNCHANGED <<observations, relations, initialized, resumes, seen>>
  BY ClassifyEffect
<1>2. NoDuplicateAssets'
  BY <1>1 DEF GraphInv, CanonicalGraphValid, NoDuplicateAssets
<1>3. /\ DOMAIN assets \subseteq Sighting /\ DOMAIN assets \subseteq seen
      /\ seen \subseteq Sighting \cup Enrichment
      /\ resumes \in Nat /\ initialized \in BOOLEAN /\ DOMAIN observations \subseteq ID
      /\ initialized => DOMAIN assets \subseteq DOMAIN observations
  BY DEF GraphInv, GraphTypeOK
<1>4. observations \in [DOMAIN observations -> DOMAIN assets]
  BY DEF GraphInv, GraphTypeOK, CanonicalGraphValid, NoDanglingObservations
<1>. QED  BY <1>1, <1>2, <1>3, <1>4, GraphInvFrom

\* The end of a relation is an asset of its name, if the caller gave an ID.
LEMMA EndFacts ==
    ASSUME GraphInv, NEW name \in Name, NEW given \in Handed(name)
    PROVE  LET e == End(name, given)
           IN  /\ e \in Endpoint
               /\ e # NoAsset => e \in DOMAIN assets /\ keyOf[assets[e].name] = keyOf[name]
<1> DEFINE x == Resolve(EnsuredAssets, name)
<1>1. DOMAIN assets \subseteq ID
  BY IDAssumption DEF GraphInv, GraphTypeOK
<1>2. CASE x # NoAsset
  <2>1. x \in DOMAIN assets /\ keyOf[assets[x].name] = keyOf[name]
    BY <1>2, ResolveFacts
  <2>2. End(name, given) = x
    BY <1>2 DEF End
  <2>. QED  BY <1>1, <2>1, <2>2 DEF Endpoint
<1>3. CASE x = NoAsset
  <2>1. \A i \in DOMAIN assets : keyOf[assets[i].name] # keyOf[name]
    BY <1>3, ResolveFacts, NoAssetIsNone
  <2>2. \A s \in seen \cap Sighting : nameOf[s] # name
    BY <2>1 DEF GraphInv, HasAsset
  <2>3. given = NoAsset
    BY <2>2 DEF Handed
  <2>4. End(name, given) = NoAsset
    BY <1>3, <2>3 DEF End
  <2>. QED  BY <2>4 DEF Endpoint
<1>. QED  BY <1>2, <1>3

\* AppendAssetRelations keeps it: the ends it records are assets of the graph.
LEMMA AppendRelationInv ==
    ASSUME GraphInv, NEW from \in Name, NEW to \in Name,
           NEW fromID \in Handed(from), NEW toID \in Handed(to),
           AppendRelation(from, fromID, to, toID)
    PROVE  GraphInv'
<1> DEFINE f == End(from, fromID)
           t == End(to, toID)
           r == [fromName |-> from, from |-> f, toName |-> to, to |-> t]
<1>1. /\ f # NoAsset => f \in DOMAIN assets /\ keyOf[assets[f].name] = keyOf[from]
      /\ t # NoAsset => t \in DOMAIN assets /\ keyOf[assets[t].name] = keyOf[to]
      /\ f \in Endpoint /\ t \in Endpoint
  BY EndFacts
<1>4. \A q \in relations' : q \in relations \/ q = r
  BY EnsuredRestFacts DEF AppendRelation
<1> HIDE DEF f, t
<1>3. r \in Relation
  BY <1>1 DEF Relation
<1>5. \A q \in relations' : q \in relations \/
         /\ q \in Relation
         /\ q.from # NoAsset => /\ q.from \in DOMAIN assets
                                /\ keyOf[assets[q.from].name] = keyOf[q.fromName]
         /\ q.to # NoAsset => /\ q.to \in DOMAIN assets
                              /\ keyOf[assets[q.to].name] = keyOf[q.toName]
  BY <1>1, <1>3, <1>4
<1>6. /\ assets' = EnsuredAssets /\ initialized' = TRUE /\ resumes' = resumes
      /\ seen' = seen /\ seen \subseteq Sighting \cup Enrichment
      /\ observations' = EnsuredObservations
  BY DEF AppendRelation, GraphInv, GraphTypeOK
<1>. QED  BY <1>5, <1>6, EnsuredInv, EnsuredRestFacts

\* An access that only rebuilds the graph keeps it.
LEMMA EnsureAssetStateInv ==
    ASSUME GraphInv, EnsureAssetState
    PROVE  GraphInv'
<1>1. /\ assets' = EnsuredAssets /\ initialized' = TRUE /\ resumes' = resumes
      /\ seen' = seen /\ seen \subseteq Sighting \cup Enrichment
      /\ observations' = EnsuredObservations /\ relations' \subseteq relations
  BY EnsuredRestFacts DEF EnsureAssetState, GraphInv, GraphTypeOK
<1>. QED  BY <1>1, EnsuredInv, EnsuredRestFacts

\* A resume keeps it: the assets may be rebuilt from then on.
LEMMA ResumeContextInv ==
    ASSUME GraphInv, ResumeContext
    PROVE  GraphInv'
<1>1. /\ UNCHANGED <<assets, observations, relations, seen>> /\ initialized' = FALSE
      /\ resumes' = resumes + 1
  BY DEF ResumeContext
<1>2. resumes' \in Nat
  BY <1>1 DEF GraphInv, GraphTypeOK
<1>3. GraphTypeOK'
  BY <1>1, <1>2 DEF GraphInv, GraphTypeOK
<1>4. CanonicalGraphValid'
  BY <1>1 DEF GraphInv, CanonicalGraphValid, NoDuplicateAssets, NoDanglingObservations,
     NoDanglingRelations
<1>. QED  BY <1>1, <1>3, <1>4 DEF GraphInv, HasAsset

\* Every step keeps the invariant.
LEMMA NextGraphInv == GraphInv /\ [Next]_vars => GraphInv'
<1> SUFFICES ASSUME GraphInv, [Next]_vars PROVE GraphInv'
  OBVIOUS
<1>1. ASSUME NEW s \in Sighting, AppendAsset(s) PROVE GraphInv'
  BY <1>1, AppendAssetInv
<1>2. ASSUME NEW o \in Enrichment, NEW i \in DOMAIN assets,
             NEW ownership \in {"", assets[i].ownership}, AppendEnrichment(o, i, ownership)
      PROVE  GraphInv'
  BY <1>2, AppendEnrichmentInv
<1>3. ASSUME NEW link \in Link, NEW fromID \in Handed(link[1]), NEW toID \in Handed(link[2]),
             AppendRelation(link[1], fromID, link[2], toID)
      PROVE  GraphInv'
  <2>1. link[1] \in Name /\ link[2] \in Name
    BY NameAssumption
  <2>. QED  BY <1>3, <2>1, AppendRelationInv
<1>4. CASE EnsureAssetState
  BY <1>4, EnsureAssetStateInv
<1>5. CASE ResumeContext
  BY <1>5, ResumeContextInv
<1>6. CASE UNCHANGED vars
  BY <1>6 DEF vars, GraphInv, GraphTypeOK, CanonicalGraphValid, NoDuplicateAssets,
     NoDanglingObservations, NoDanglingRelations, HasAsset
<1>7. ASSUME NEW i \in DOMAIN assets, Classify(i) PROVE GraphInv'
  BY <1>7, ClassifyInv
<1>. QED  BY <1>1, <1>2, <1>3, <1>4, <1>5, <1>6, <1>7 DEF Next

THEOREM GraphInvariant == Spec => []GraphInv
<1>. QED  BY InitGraphInv, NextGraphInv, PTL DEF Spec

\* The graph stays well typed through every operation and resume.
THEOREM GraphTypeCorrect == Spec => []GraphTypeOK
<1>1. GraphInv => GraphTypeOK
  BY DEF GraphInv
<1>. QED  BY <1>1, GraphInvariant, PTL

\* validateCanonicalGraph, the merge filter's check before the export, never
\* fails: however many stages, spellings and resumes there are.
THEOREM GraphStaysValid == Spec => []CanonicalGraphValid
<1>1. GraphInv => CanonicalGraphValid
  BY DEF GraphInv
<1>. QED  BY <1>1, GraphInvariant, PTL

-----------------------------------------------------------------------------
(* Reasons.                                                                *)

StaysFor(i) ==
    LET stronger == incomingWins(assets[i].ownership, assets'[i].ownership)
        away == keyOf[assets[i].name] \in Address /\ assets'[i].reason = PointsAway
    IN  /\ i \in DOMAIN assets'
        /\ assets[i].reason # Generic => assets'[i].reason # Generic
        /\ \/ assets[i].reason \in {Generic, assets'[i].reason}
           \/ stronger \/ away
        /\ assets'[i].ownership # assets[i].ownership => stronger \/ away

\* An asset that keeps its reason and ownership needs no excuse.
LEMMA SameStays ==
    ASSUME NEW i \in DOMAIN assets, i \in DOMAIN assets',
           assets'[i].reason = assets[i].reason,
           assets'[i].ownership = assets[i].ownership
    PROVE  StaysFor(i)
BY DEF StaysFor

\* A sighting replaces a reason or an ownership only by a stronger claim.
LEMMA AppendAssetStays ==
    ASSUME GraphInv, NEW s \in Sighting, AppendAsset(s), NEW i \in DOMAIN assets
    PROVE  StaysFor(i)
<1>1. /\ EnsuredAssets \in [DOMAIN assets -> Asset]
      /\ EnsuredAssets[i].reason = assets[i].reason
      /\ EnsuredAssets[i].ownership = assets[i].ownership
      /\ EnsuredAssets[i] \in Asset
  BY EnsuredAssetsFacts
<1>2. CASE i \in DOMAIN assets' /\ assets'[i] = EnsuredAssets[i]
  BY <1>1, <1>2, SameStays
<1>3. CASE i \in DOMAIN assets' /\ assets'[i] = mergeAssetIntoCanonical(EnsuredAssets[i], s)
  <2> DEFINE wins == incomingWins(assets[i].ownership, ownershipOf[s])
  <2>1. /\ assets'[i].reason = mergeInclusionReason(assets[i].reason, reasonOf[s], wins)
        /\ assets'[i].ownership = mergeOwnershipState(assets[i].ownership, ownershipOf[s])
    BY <1>1, <1>3, MergeFacts
  <2>2. CASE wins
    <3>1. assets'[i].ownership = ownershipOf[s]
      BY <2>1, <2>2 DEF mergeOwnershipState
    <3>2. incomingWins(assets[i].ownership, assets'[i].ownership)
      BY <2>2, <3>1
    <3>3. assets[i].reason # Generic => assets'[i].reason # Generic
      BY <2>1 DEF mergeInclusionReason
    <3>. QED  BY <1>3, <3>2, <3>3 DEF StaysFor
  <2>3. CASE ~wins
    <3>1. assets'[i].ownership = assets[i].ownership
      BY <2>1, <2>3 DEF mergeOwnershipState
    <3>2. assets[i].reason # Generic => assets'[i].reason = assets[i].reason
      BY <2>1, <2>3 DEF mergeInclusionReason
    <3>. QED  BY <1>3, <3>1, <3>2 DEF StaysFor
  <2>. QED  BY <2>2, <2>3
<1>4. /\ i \in DOMAIN assets'
      /\ \/ assets'[i] = EnsuredAssets[i]
         \/ assets'[i] = mergeAssetIntoCanonical(EnsuredAssets[i], s)
  <2>1. CASE /\ s \notin DOMAIN assets
             /\ DOMAIN assets' = DOMAIN assets \cup {s}
             /\ assets' = [j \in DOMAIN assets \cup {s} |->
                             IF j = s THEN FoundedBy(s) ELSE EnsuredAssets[j]]
    BY <2>1
  <2>2. ASSUME NEW x \in DOMAIN assets,
               assets' = [EnsuredAssets EXCEPT ![x] = mergeAssetIntoCanonical(@, s)]
        PROVE  /\ i \in DOMAIN assets'
               /\ \/ assets'[i] = EnsuredAssets[i]
                  \/ assets'[i] = mergeAssetIntoCanonical(EnsuredAssets[i], s)
    BY <1>1, <2>2
  <2>. QED  BY <2>1, <2>2, AppendAssetEffect
<1>. QED  BY <1>2, <1>3, <1>4

\* The IP enricher makes an address owned or says that it points away.
LEMMA ClassifyStays ==
    ASSUME GraphInv, NEW i \in DOMAIN assets, NEW j \in DOMAIN assets, Classify(j)
    PROVE  StaysFor(i)
<1>1. i \in DOMAIN assets' /\ assets[i] \in Asset
  BY ClassifyEffect DEF GraphInv, GraphTypeOK
<1>2. CASE i # j
  BY <1>1, <1>2, ClassifyEffect, SameStays
<1>3. CASE i = j
  <2>1. keyOf[assets[i].name] \in Address
    BY <1>3, ClassifyEffect
  <2>2. \/ /\ assets'[i].reason = assets[i].reason
           /\ assets'[i].ownership = "owned"
        \/ assets'[i].reason = PointsAway
    BY <1>1, <1>3, ClassifyEffect DEF Asset
  <2>. QED  BY <1>1, <2>1, <2>2, NameAssumption DEF StaysFor, incomingWins
<1>. QED  BY <1>2, <1>3

\* Reasons and ownership give way only to stronger claims and to what is found out
\* about an address: no generic sighting, enrichment or resume takes them back.
THEOREM ReasonsStay == Spec => ExplicitReasonStays
<1>1. GraphInv /\ [Next]_vars => \A i \in DOMAIN assets : StaysFor(i)
  <2> SUFFICES ASSUME GraphInv, [Next]_vars, NEW i \in DOMAIN assets PROVE StaysFor(i)
    OBVIOUS
  <2>1. ASSUME NEW s \in Sighting, AppendAsset(s) PROVE StaysFor(i)
    BY <2>1, AppendAssetStays
  <2>2. CASE assets' = EnsuredAssets
    BY <2>2, EnsuredAssetsFacts, SameStays
  <2>3. CASE assets' = assets
    BY <2>3, SameStays
  <2>4. ASSUME NEW o \in Enrichment, NEW j \in DOMAIN assets,
               NEW ownership \in {"", assets[j].ownership}, AppendEnrichment(o, j, ownership)
        PROVE  StaysFor(i)
    BY <2>2, <2>4, AppendEnrichmentEffect
  <2>5. ASSUME NEW j \in DOMAIN assets, Classify(j) PROVE StaysFor(i)
    BY <2>5, ClassifyStays
  <2>. QED
    BY <2>1, <2>2, <2>3, <2>4, <2>5 DEF Next, AppendRelation, EnsureAssetState,
       ResumeContext, vars
<1>. QED  BY <1>1, GraphInvariant, PTL DEF Spec, ExplicitReasonStays, StaysFor

-----------------------------------------------------------------------------
(* Sightings.                                                              *)

\* A context that was never loaded from a checkpoint is fresh only before its
\* first sighting.
KeptInv ==
    /\ resumes = 0 /\ ~initialized => seen = {}
    /\ SightingsKept

KeptFor(s) ==
    /\ s \in DOMAIN observations
    /\ keyOf[assets[observations[s]].name] = keyOf[nameOf[s]]
    /\ s \in assets[observations[s]].provenance

\* What was kept is still kept after an operation that drops nothing.
LEMMA StillKept ==
    ASSUME GraphInv, KeptInv, resumes = 0, NEW t \in seen \cap Sighting
    PROVE  /\ EnsuredAssets = assets /\ EnsuredObservations = observations
           /\ observations[t] \in DOMAIN assets
           /\ KeptFor(t)
<1>1. initialized
  BY DEF KeptInv
<1>2. KeptFor(t)
  BY DEF KeptInv, SightingsKept, KeptFor
<1>3. observations[t] \in DOMAIN assets
  BY <1>2 DEF KeptFor, GraphInv, CanonicalGraphValid, NoDanglingObservations
<1>4. EnsuredAssets = assets
  <2>1. \A i \in DOMAIN assets : i \notin Raw
    BY <1>1 DEF GraphInv, Raw
  <2>2. EnsuredAssets = [i \in DOMAIN assets |-> assets[i]]
    BY <2>1 DEF EnsuredAssets
  <2>. QED  BY <2>2 DEF GraphInv, GraphTypeOK
<1>. QED  BY <1>1, <1>2, <1>3, <1>4, EnsuredRestFacts

\* AppendAssets loses neither the new sighting nor one it has seen before.
LEMMA AppendAssetKeeps ==
    ASSUME GraphInv, KeptInv, resumes = 0, NEW s \in Sighting, AppendAsset(s),
           NEW t \in seen' \cap Sighting
    PROVE  KeptFor(t)'
<1>1. t = s \/ t \in seen \cap Sighting
  BY DEF AppendAsset
<1>2. s \notin seen
  BY DEF AppendAsset
<1>3. CASE /\ s \notin DOMAIN assets
           /\ assets' = [i \in DOMAIN assets \cup {s} |->
                           IF i = s THEN FoundedBy(s)
                           ELSE EnsuredAssets[i]]
           /\ observations' = With(EnsuredObservations, s, s)
  <2>1. CASE t = s
    BY <1>3, <2>1 DEF KeptFor, With, FoundedBy
  <2>2. CASE t # s
    <3>1. /\ EnsuredAssets = assets /\ EnsuredObservations = observations
          /\ observations[t] \in DOMAIN assets /\ KeptFor(t)
      BY <1>1, <2>2, StillKept
    <3>2. observations'[t] = observations[t] /\ t \in DOMAIN observations'
      BY <1>3, <2>2, <3>1 DEF With, KeptFor
    <3>3. assets'[observations[t]] = assets[observations[t]]
      BY <1>3, <3>1
    <3>. QED  BY <3>1, <3>2, <3>3 DEF KeptFor
  <2>. QED  BY <2>1, <2>2
<1>4. ASSUME NEW x \in DOMAIN assets,
             keyOf[assets[x].name] = keyOf[nameOf[s]],
             assets' = [EnsuredAssets EXCEPT ![x] = mergeAssetIntoCanonical(@, s)],
             observations' = With(EnsuredObservations, s, x)
      PROVE  KeptFor(t)'
  <2>1. EnsuredAssets[x] \in Asset
    BY EnsuredAssetsFacts
  <2>2. /\ assets'[x] = mergeAssetIntoCanonical(EnsuredAssets[x], s)
        /\ \A i \in DOMAIN assets : i # x => assets'[i] = EnsuredAssets[i]
    BY <1>4, EnsuredAssetsFacts
  <2>3. /\ assets'[x].name = assets[x].name
        /\ assets'[x].provenance = EnsuredAssets[x].provenance \cup {s}
    <3>1. LET m == mergeAssetIntoCanonical(EnsuredAssets[x], s)
          IN  /\ m.name = EnsuredAssets[x].name
              /\ m.provenance = EnsuredAssets[x].provenance \cup {s}
      BY <2>1, MergeFacts
    <3>2. EnsuredAssets[x].name = assets[x].name
      BY EnsuredAssetsFacts
    <3>. QED  BY <2>2, <3>1, <3>2
  <2>4. CASE t = s
    BY <1>4, <2>3, <2>4 DEF KeptFor, With
  <2>5. CASE t # s
    <3>1. /\ EnsuredAssets = assets /\ EnsuredObservations = observations
          /\ observations[t] \in DOMAIN assets /\ KeptFor(t)
      BY <1>1, <2>5, StillKept
    <3>2. observations'[t] = observations[t] /\ t \in DOMAIN observations'
      BY <1>4, <2>5, <3>1 DEF With, KeptFor
    <3>3. /\ assets'[observations[t]].name = assets[observations[t]].name
          /\ assets[observations[t]].provenance \subseteq assets'[observations[t]].provenance
      BY <2>2, <2>3, <3>1
    <3>. QED  BY <3>1, <3>2, <3>3 DEF KeptFor
  <2>. QED  BY <2>4, <2>5
<1>. QED  BY <1>3, <1>4, AppendAssetEffect

\* No step of an unresumed run loses a sighting.
LEMMA NextKept == GraphInv /\ KeptInv /\ [Next]_vars => KeptInv'
<1> SUFFICES ASSUME GraphInv, KeptInv, [Next]_vars PROVE KeptInv'
  OBVIOUS
<1>1. ASSUME NEW s \in Sighting, AppendAsset(s) PROVE KeptInv'
  <2>1. initialized' = TRUE /\ resumes' = resumes
    BY <1>1 DEF AppendAsset
  <2>2. ASSUME resumes' = 0, NEW t \in seen' \cap Sighting PROVE KeptFor(t)'
    BY <1>1, <2>1, <2>2, AppendAssetKeeps
  <2>. QED  BY <2>1, <2>2 DEF KeptInv, SightingsKept, KeptFor
<1>2. ASSUME NEW o \in Enrichment, NEW i \in DOMAIN assets,
             NEW ownership \in {"", assets[i].ownership}, AppendEnrichment(o, i, ownership)
      PROVE  KeptInv'
  <2>1. /\ initialized' = TRUE /\ resumes' = resumes /\ seen' = seen \cup {o}
        /\ assets' = EnsuredAssets /\ o \notin Sighting
        /\ observations' = With(EnsuredObservations, o, i)
    BY <1>2, IDAssumption, AppendEnrichmentEffect DEF AppendEnrichment
  <2>2. ASSUME resumes' = 0, NEW t \in seen' \cap Sighting PROVE KeptFor(t)'
    <3>1. t \in seen \cap Sighting /\ t # o
      BY <2>1
    <3>2. /\ EnsuredAssets = assets /\ EnsuredObservations = observations /\ KeptFor(t)
      BY <2>1, <2>2, <3>1, StillKept
    <3>3. observations'[t] = observations[t] /\ t \in DOMAIN observations'
      BY <2>1, <3>1, <3>2 DEF With, KeptFor
    <3>. QED  BY <2>1, <3>2, <3>3 DEF KeptFor
  <2>. QED  BY <2>1, <2>2 DEF KeptInv, SightingsKept, KeptFor
<1>3. CASE /\ assets' = EnsuredAssets /\ observations' = EnsuredObservations
           /\ initialized' = TRUE /\ UNCHANGED <<resumes, seen>>
  <2>1. ASSUME resumes' = 0, NEW t \in seen' \cap Sighting PROVE KeptFor(t)'
    <3>1. /\ EnsuredAssets = assets /\ EnsuredObservations = observations /\ KeptFor(t)
      BY <1>3, <2>1, StillKept
    <3>. QED  BY <1>3, <3>1 DEF KeptFor
  <2>. QED  BY <1>3, <2>1 DEF KeptInv, SightingsKept, KeptFor
<1>4. CASE ResumeContext
  <2>1. resumes' # 0
    BY <1>4 DEF ResumeContext, GraphInv, GraphTypeOK
  <2>. QED  BY <2>1 DEF KeptInv, SightingsKept
<1>5. CASE UNCHANGED vars
  BY <1>5 DEF vars, KeptInv, SightingsKept
<1>6. ASSUME NEW i \in DOMAIN assets, Classify(i) PROVE KeptInv'
  <2>1. /\ initialized /\ UNCHANGED <<observations, initialized, resumes, seen>>
        /\ \A j \in DOMAIN assets : /\ assets'[j].name = assets[j].name
                                    /\ assets'[j].provenance = assets[j].provenance
    BY <1>6, ClassifyEffect
  <2>2. ASSUME resumes' = 0, NEW t \in seen' \cap Sighting PROVE KeptFor(t)'
    <3>1. observations[t] \in DOMAIN assets /\ KeptFor(t)
      BY <2>1, <2>2, StillKept
    <3>. QED  BY <2>1, <3>1 DEF KeptFor
  <2>. QED  BY <2>1, <2>2 DEF KeptInv, SightingsKept, KeptFor
<1>. QED
  BY <1>1, <1>2, <1>3, <1>4, <1>5, <1>6 DEF Next, AppendRelation, EnsureAssetState

\* In a run that was never resumed every sighting that was appended is an
\* observation of the asset of its key and in that asset's provenance.
THEOREM SightingsStay == Spec => []SightingsKept
<1>1. Init => KeptInv
  BY DEF Init, KeptInv, SightingsKept
<1>2. KeptInv => SightingsKept
  BY DEF KeptInv
<1>. QED  BY <1>1, <1>2, NextKept, GraphInvariant, PTL DEF Spec

-----------------------------------------------------------------------------
(* The graph implements the catalog.                                       *)

Unique(graph) == \A i, j \in DOMAIN graph : KeyIn(graph, i) = KeyIn(graph, j) => i = j

\* With distinct keys the catalog has one entry per asset.
LEMMA EntriesFacts ==
    ASSUME NEW graph, Unique(graph)
    PROVE  /\ DOMAIN Entries(graph) = Keys(graph)
           /\ \A i \in DOMAIN graph :
                /\ KeyIn(graph, i) \in Keys(graph)
                /\ Entries(graph)[KeyIn(graph, i)]
                      = [founder |-> i, reason |-> graph[i].reason,
                         ownership |-> graph[i].ownership, sightings |-> graph[i].provenance]
           /\ \A k \in Keys(graph) : \E i \in DOMAIN graph : k = KeyIn(graph, i)
<1>1. ASSUME NEW i \in DOMAIN graph PROVE AssetWith(graph, KeyIn(graph, i)) = i
  BY DEF AssetWith, Unique
<1>. QED  BY <1>1 DEF Entries, Keys

\* Rebuilding a graph leaves its keys as they are, and distinct.
LEMMA EnsuredUnique ==
    GraphInv => /\ Unique(assets) /\ Unique(EnsuredAssets)
                /\ Keys(EnsuredAssets) = Keys(assets)
                /\ \A i \in DOMAIN assets : KeyIn(EnsuredAssets, i) = KeyIn(assets, i)
<1> SUFFICES ASSUME GraphInv
             PROVE  /\ Unique(assets) /\ Unique(EnsuredAssets)
                    /\ Keys(EnsuredAssets) = Keys(assets)
                    /\ \A i \in DOMAIN assets : KeyIn(EnsuredAssets, i) = KeyIn(assets, i)
  OBVIOUS
<1>1. Unique(assets)
  BY DEF GraphInv, CanonicalGraphValid, NoDuplicateAssets, Unique, KeyIn
<1>2. \A i \in DOMAIN assets : KeyIn(EnsuredAssets, i) = KeyIn(assets, i)
  BY EnsuredAssetsFacts DEF KeyIn
<1>3. DOMAIN EnsuredAssets = DOMAIN assets
  BY EnsuredAssetsFacts
<1>4. Unique(EnsuredAssets)
  BY <1>1, <1>2, <1>3 DEF Unique
<1>5. Keys(EnsuredAssets) = Keys(assets)
  BY <1>2, <1>3 DEF Keys
<1>. QED  BY <1>1, <1>2, <1>4, <1>5

\* Making sure of the state is what the catalog keeps.
LEMMA KeptFacts ==
    ASSUME GraphInv
    PROVE  Entries(EnsuredAssets) = Catalog!Kept
<1> DEFINE kept(k) == IF ~initialized
                      THEN [Entries(assets)[k] EXCEPT !.sightings = {Entries(assets)[k].founder}]
                      ELSE Entries(assets)[k]
<1>1. Catalog!Kept = [k \in Keys(assets) |-> kept(k)]
  BY EntriesFacts, EnsuredUnique DEF Catalog!Kept
<1>2. ASSUME NEW k \in Keys(assets) PROVE Entries(EnsuredAssets)[k] = kept(k)
  <2>1. PICK i \in DOMAIN assets : k = KeyIn(assets, i)
    BY DEF Keys
  <2>2. Entries(assets)[k] = [founder |-> i, reason |-> assets[i].reason,
                              ownership |-> assets[i].ownership, sightings |-> assets[i].provenance]
    BY <2>1, EntriesFacts, EnsuredUnique
  <2>3. i \in DOMAIN EnsuredAssets /\ k = KeyIn(EnsuredAssets, i)
    BY <2>1, EnsuredUnique, EnsuredAssetsFacts
  <2>4. Entries(EnsuredAssets)[k]
          = [founder |-> i, reason |-> EnsuredAssets[i].reason,
             ownership |-> EnsuredAssets[i].ownership, sightings |-> EnsuredAssets[i].provenance]
    BY <2>3, EntriesFacts, EnsuredUnique
  <2>5. /\ EnsuredAssets[i].reason = assets[i].reason
        /\ EnsuredAssets[i].ownership = assets[i].ownership
        /\ EnsuredAssets[i].provenance = IF initialized THEN assets[i].provenance ELSE {i}
    BY EnsuredAssetsFacts
  <2>. QED  BY <2>2, <2>4, <2>5
<1>3. Entries(EnsuredAssets) = [k \in Keys(EnsuredAssets) |-> Entries(EnsuredAssets)[k]]
  BY DEF Entries
<1>. QED  BY <1>1, <1>2, <1>3, EnsuredUnique

\* The entry of a key is that of the asset with this key.
LEMMA EntryOf ==
    ASSUME NEW graph, Unique(graph), NEW i \in DOMAIN graph, NEW k, KeyIn(graph, i) = k
    PROVE  /\ k \in Keys(graph)
           /\ Entries(graph)[k] = [founder |-> i, reason |-> graph[i].reason,
                                   ownership |-> graph[i].ownership, sightings |-> graph[i].provenance]
BY EntriesFacts

\* A merge is what the catalog does to an entry.
LEMMA JoinedFacts ==
    ASSUME NEW s \in Sighting, NEW x, NEW reason, NEW ownership, NEW sightings
    PROVE  Catalog!Joined([founder |-> x, reason |-> reason, ownership |-> ownership,
                           sightings |-> sightings], s)
             = [founder |-> x,
                reason |-> mergeInclusionReason(reason, reasonOf[s],
                                                incomingWins(ownership, ownershipOf[s])),
                ownership |-> mergeOwnershipState(ownership, ownershipOf[s]),
                sightings |-> sightings \cup {s}]
BY DEF Catalog!Joined, Catalog!Stronger, mergeInclusionReason, mergeOwnershipState, incomingWins

\* A sighting is recorded as the catalog records it.
LEMMA AppendAssetRecords ==
    ASSUME GraphInv, NEW s \in Sighting, AppendAsset(s), GraphInv'
    PROVE  Catalog!Record(s)
<1>k. PICK key : key = keyOf[nameOf[s]]
  OBVIOUS
<1> DEFINE recorded(k) == IF k # key THEN Catalog!Kept[k]
                       ELSE IF k \in Keys(assets)
                            THEN Catalog!Joined(Catalog!Kept[k], s)
                            ELSE Catalog!Founded(s)
<1>1. /\ Unique(assets) /\ Unique(assets') /\ Unique(EnsuredAssets)
      /\ Keys(EnsuredAssets) = Keys(assets)
  BY EnsuredUnique DEF GraphInv, CanonicalGraphValid, NoDuplicateAssets, Unique, KeyIn
<1>2. DOMAIN EnsuredAssets = DOMAIN assets
  BY EnsuredAssetsFacts
<1>3. \A i \in DOMAIN EnsuredAssets :
         Catalog!Kept[KeyIn(EnsuredAssets, i)]
            = [founder |-> i, reason |-> EnsuredAssets[i].reason,
               ownership |-> EnsuredAssets[i].ownership, sightings |-> EnsuredAssets[i].provenance]
  BY <1>1, EntriesFacts, KeptFacts
<1>4. /\ Keys(assets') = Keys(assets) \cup {key}
      /\ \A k \in Keys(assets') : Entries(assets')[k] = recorded(k)
  <2>1. CASE /\ \A i \in DOMAIN assets : keyOf[assets[i].name] # keyOf[nameOf[s]]
             /\ s \notin DOMAIN assets
             /\ DOMAIN assets' = DOMAIN assets \cup {s}
             /\ assets' = [i \in DOMAIN assets \cup {s} |->
                             IF i = s THEN FoundedBy(s)
                             ELSE EnsuredAssets[i]]
    <3>1. /\ KeyIn(assets', s) = key
          /\ \A i \in DOMAIN assets : KeyIn(assets', i) = KeyIn(EnsuredAssets, i)
      BY <1>k, <2>1 DEF KeyIn, FoundedBy
    <3>2. key \notin Keys(assets)
      BY <1>k, <2>1 DEF Keys, KeyIn
    <3>3. Keys(assets') = Keys(assets) \cup {key}
      <4>1. \A k : k \in Keys(assets') <=> \E i \in DOMAIN assets \cup {s} : k = KeyIn(assets', i)
        BY <2>1 DEF Keys
      <4>2. \A k : k \in Keys(assets) <=> \E i \in DOMAIN assets : k = KeyIn(EnsuredAssets, i)
        BY <1>1, <1>2 DEF Keys
      <4>. QED  BY <3>1, <4>1, <4>2
    <3>4. Entries(assets')[key] = Catalog!Founded(s)
      <4>1. /\ s \in DOMAIN assets' /\ assets'[s].reason = reasonOf[s]
            /\ assets'[s].ownership = Declared(nameOf[s], ownershipOf[s])
            /\ assets'[s].provenance = {s}
        BY <2>1 DEF FoundedBy
      <4>2. Entries(assets')[key] = [founder |-> s, reason |-> assets'[s].reason,
                                     ownership |-> assets'[s].ownership,
                                     sightings |-> assets'[s].provenance]
        <5>1. s \in DOMAIN assets' /\ KeyIn(assets', s) = key
          BY <3>1, <4>1
        <5>. QED  BY <1>1, <5>1, EntryOf
      <4>3. Catalog!Founded(s) = [founder |-> s, reason |-> reasonOf[s],
                                  ownership |-> Declared(nameOf[s], ownershipOf[s]),
                                  sightings |-> {s}]
        BY DEF Catalog!Founded, Declared, defaultOwnershipState
      <4>. QED  BY <4>1, <4>2, <4>3
    <3>5. ASSUME NEW k \in Keys(assets) PROVE Entries(assets')[k] = Catalog!Kept[k]
      <4>1. PICK i \in DOMAIN EnsuredAssets : k = KeyIn(EnsuredAssets, i)
        BY <1>1 DEF Keys
      <4>2. /\ i \in DOMAIN assets' /\ k = KeyIn(assets', i)
            /\ assets'[i] = EnsuredAssets[i]
        BY <1>2, <2>1, <3>1, <4>1
      <4>3. Entries(assets')[k] = [founder |-> i, reason |-> EnsuredAssets[i].reason,
                                   ownership |-> EnsuredAssets[i].ownership, sightings |-> EnsuredAssets[i].provenance]
        BY <1>1, <4>2, EntryOf
      <4>. QED  BY <1>3, <4>1, <4>3
    <3>. QED  BY <3>2, <3>3, <3>4, <3>5
  <2>2. CASE \E x \in DOMAIN assets :
             /\ keyOf[assets[x].name] = keyOf[nameOf[s]]
             /\ DOMAIN assets' = DOMAIN assets
             /\ assets' = [EnsuredAssets EXCEPT ![x] = mergeAssetIntoCanonical(@, s)]
    <3>1. PICK x \in DOMAIN assets :
             /\ keyOf[assets[x].name] = keyOf[nameOf[s]]
             /\ DOMAIN assets' = DOMAIN assets
             /\ assets' = [EnsuredAssets EXCEPT ![x] = mergeAssetIntoCanonical(@, s)]
      BY <2>2
    <3>2. EnsuredAssets[x] \in Asset
      BY EnsuredAssetsFacts
    <3>3. /\ assets'[x] = mergeAssetIntoCanonical(EnsuredAssets[x], s)
          /\ \A i \in DOMAIN assets : i # x => assets'[i] = EnsuredAssets[i]
      BY <1>2, <3>1
    <3>4. \A i \in DOMAIN assets : KeyIn(assets', i) = KeyIn(EnsuredAssets, i)
      BY <3>2, <3>3, MergeFacts DEF KeyIn
    <3>5. KeyIn(EnsuredAssets, x) = key
      BY <1>k, <3>1, EnsuredUnique DEF KeyIn
    <3>6. Keys(assets') = Keys(assets) /\ key \in Keys(assets)
      <4>1. /\ Keys(assets') = {KeyIn(assets', i) : i \in DOMAIN assets}
            /\ Keys(EnsuredAssets) = {KeyIn(EnsuredAssets, i) : i \in DOMAIN assets}
        BY <1>2, <3>1 DEF Keys
      <4>2. Keys(assets') = Keys(EnsuredAssets) BY <3>4, <4>1
      <4>3. key \in Keys(EnsuredAssets) BY <3>1, <3>5, <4>1
      <4>. QED  BY <1>1, <4>2, <4>3
    <3>7. Entries(assets')[key] = Catalog!Joined(Catalog!Kept[key], s)
      <4>1. Entries(assets')[key] = [founder |-> x, reason |-> assets'[x].reason,
                                     ownership |-> assets'[x].ownership,
                                     sightings |-> assets'[x].provenance]
        <5>1. x \in DOMAIN assets' /\ KeyIn(assets', x) = key
          BY <3>1, <3>4, <3>5
        <5>. QED  BY <1>1, <5>1, EntryOf
      <4>2. Catalog!Kept[key] = [founder |-> x, reason |-> EnsuredAssets[x].reason,
                                 ownership |-> EnsuredAssets[x].ownership,
                                 sightings |-> EnsuredAssets[x].provenance]
        BY <1>2, <1>3, <3>5
      <4>3. /\ assets'[x].reason
                  = mergeInclusionReason(EnsuredAssets[x].reason, reasonOf[s],
                                         incomingWins(EnsuredAssets[x].ownership, ownershipOf[s]))
            /\ assets'[x].ownership
                  = mergeOwnershipState(EnsuredAssets[x].ownership, ownershipOf[s])
            /\ assets'[x].provenance = EnsuredAssets[x].provenance \cup {s}
        BY <3>2, <3>3, MergeFacts
      <4>. QED  BY <4>1, <4>2, <4>3, JoinedFacts
    <3>8. ASSUME NEW k \in Keys(assets), k # key
          PROVE  Entries(assets')[k] = Catalog!Kept[k]
      <4>1. PICK i \in DOMAIN EnsuredAssets : k = KeyIn(EnsuredAssets, i)
        BY <1>1 DEF Keys
      <4>2. i # x
        BY <3>5, <3>8, <4>1
      <4>3. /\ i \in DOMAIN assets' /\ k = KeyIn(assets', i)
            /\ assets'[i] = EnsuredAssets[i]
        BY <1>2, <3>1, <3>3, <3>4, <4>1, <4>2
      <4>4. Entries(assets')[k] = [founder |-> i, reason |-> EnsuredAssets[i].reason,
                                   ownership |-> EnsuredAssets[i].ownership, sightings |-> EnsuredAssets[i].provenance]
        BY <1>1, <4>3, EntryOf
      <4>. QED  BY <1>3, <4>1, <4>4
    <3>. QED  BY <3>6, <3>7, <3>8
  <2>. QED  BY <2>1, <2>2, AppendAssetEffect
<1>5. Entries(assets)' = [k \in Keys(assets) \cup {key} |-> recorded(k)]
  <2>1. Entries(assets') = [k \in Keys(assets') |-> Entries(assets')[k]]
    BY DEF Entries
  <2>2. Entries(assets)' = Entries(assets')
    BY DEF Entries, Keys, KeyIn, AssetWith
  <2>. QED  BY <1>4, <2>1, <2>2
<1>6. DOMAIN Entries(assets) = Keys(assets)
  BY DEF Entries
<1>. QED
  BY <1>k, <1>5, <1>6 DEF Catalog!Record, AppendAsset

\* What is found out about an address is recorded in its entry.
LEMMA ClassifyRecords ==
    ASSUME GraphInv, NEW i \in DOMAIN assets, Classify(i), GraphInv'
    PROVE  Catalog!FindOut(KeyIn(assets, i)) /\ KeyIn(assets, i) \in DOMAIN Entries(assets) \cap Address
<1> DEFINE key == KeyIn(assets, i)
<1>1. /\ Unique(assets) /\ Unique(assets')
      /\ DOMAIN assets' = DOMAIN assets /\ initialized /\ initialized' = initialized
      /\ \A j \in DOMAIN assets : /\ j # i => assets'[j] = assets[j]
                                  /\ KeyIn(assets', j) = KeyIn(assets, j)
  <2>1. Unique(assets) /\ Unique(assets')
    BY EnsuredUnique DEF GraphInv, CanonicalGraphValid, NoDuplicateAssets, Unique, KeyIn
  <2>2. \A j \in DOMAIN assets : /\ j # i => assets'[j] = assets[j]
                                /\ KeyIn(assets', j) = KeyIn(assets, j)
    BY ClassifyEffect DEF KeyIn
  <2>. QED  BY <2>1, <2>2, ClassifyEffect
<1>2. Keys(assets') = Keys(assets)
  <2>1. \A k : k \in Keys(assets') <=> \E j \in DOMAIN assets : k = KeyIn(assets', j)
    BY <1>1 DEF Keys
  <2>2. \A k : k \in Keys(assets) <=> \E j \in DOMAIN assets : k = KeyIn(assets, j)
    BY DEF Keys
  <2>. QED  BY <1>1, <2>1, <2>2
<1>3. key \in Keys(assets) /\ key \in Address
  BY ClassifyEffect DEF Keys, KeyIn
<1>4. ASSUME NEW k \in Keys(assets), k # key PROVE Entries(assets')[k] = Entries(assets)[k]
  <2>1. PICK j \in DOMAIN assets : k = KeyIn(assets, j)
    BY DEF Keys
  <2>2. j # i /\ j \in DOMAIN assets' /\ k = KeyIn(assets', j)
    BY <1>1, <1>4, <2>1
  <2>3. Entries(assets)[k] = [founder |-> j, reason |-> assets[j].reason,
                              ownership |-> assets[j].ownership,
                              sightings |-> assets[j].provenance]
    BY <1>1, <2>1, EntryOf
  <2>4. Entries(assets')[k] = [founder |-> j, reason |-> assets'[j].reason,
                               ownership |-> assets'[j].ownership,
                               sightings |-> assets'[j].provenance]
    BY <1>1, <2>2, EntryOf
  <2>. QED  BY <1>1, <2>2, <2>3, <2>4
<1>5. Entries(assets)[key] = [founder |-> i, reason |-> assets[i].reason,
                              ownership |-> assets[i].ownership,
                              sightings |-> assets[i].provenance]
  BY <1>1, EntryOf
<1>6. Entries(assets')[key] = [founder |-> i, reason |-> assets'[i].reason,
                               ownership |-> assets'[i].ownership,
                               sightings |-> assets'[i].provenance]
  BY <1>1, EntryOf
<1>7. assets'[i].provenance = assets[i].provenance /\ assets[i] \in Asset
  BY ClassifyEffect DEF GraphInv, GraphTypeOK
<1>8. /\ Entries(assets) = [k \in Keys(assets) |-> Entries(assets)[k]]
      /\ Entries(assets') = [k \in Keys(assets') |-> Entries(assets')[k]]
  BY DEF Entries
<1>9. Entries(assets)' = Entries(assets')
  BY DEF Entries, Keys, KeyIn, AssetWith
<1> DEFINE e == Entries(assets)[key]
<1> HIDE DEF key
<1>10. CASE assets'[i] = [assets[i] EXCEPT !.ownership = "owned"]
  <2>1. assets'[i].reason = assets[i].reason /\ assets'[i].ownership = "owned"
    BY <1>7, <1>10 DEF Asset
  <2>2. Entries(assets')[key] = [e EXCEPT !.ownership = "owned"]
    BY <1>5, <1>6, <1>7, <2>1
  <2>3. Entries(assets)' = [Entries(assets) EXCEPT ![key] = [e EXCEPT !.ownership = "owned"]]
    BY <1>2, <1>3, <1>4, <1>8, <1>9, <2>2
  <2>. QED  BY <1>1, <1>3, <1>8, <2>3 DEF Catalog!FindOut, key
<1>11. CASE assets'[i] = [assets[i] EXCEPT !.ownership = "uncertain", !.reason = PointsAway]
  <2>1. assets'[i].reason = PointsAway /\ assets'[i].ownership = "uncertain"
    BY <1>7, <1>11 DEF Asset
  <2>2. Entries(assets')[key] = Catalog!PointedAway(e)
    BY <1>5, <1>6, <1>7, <2>1 DEF Catalog!PointedAway
  <2>3. Entries(assets)' = [Entries(assets) EXCEPT ![key] = Catalog!PointedAway(e)]
    BY <1>2, <1>3, <1>4, <1>8, <1>9, <2>2
  <2>. QED  BY <1>1, <1>3, <1>8, <2>3 DEF Catalog!FindOut, key
<1>. QED  BY <1>10, <1>11, ClassifyEffect

\* Every step of the graph is a step of the catalog or leaves it as it is.
LEMMA GraphStepImplements ==
    GraphInv /\ GraphInv' /\ [Next]_vars => [Catalog!CatalogNext]_(Catalog!catalogVars)
<1> SUFFICES ASSUME GraphInv, GraphInv', [Next]_vars
             PROVE  [Catalog!CatalogNext]_(Catalog!catalogVars)
  OBVIOUS
<1>1. CASE \E s \in Sighting : AppendAsset(s)
  BY <1>1, AppendAssetRecords DEF Catalog!CatalogNext
<1>2. CASE assets' = EnsuredAssets /\ initialized' = TRUE
  <2>1. Entries(assets)' = Catalog!Kept
    BY <1>2, KeptFacts DEF Entries, Keys, KeyIn, AssetWith
  <2>. QED  BY <1>2, <2>1 DEF Catalog!CatalogNext, Catalog!Access
<1>3. CASE ResumeContext
  <2>1. Entries(assets)' = Entries(assets)
    BY <1>3 DEF ResumeContext, Entries, Keys, KeyIn, AssetWith
  <2>. QED  BY <1>3, <2>1 DEF ResumeContext, Catalog!CatalogNext, Catalog!Load
<1>4. CASE UNCHANGED vars
  BY <1>4 DEF vars, Catalog!catalogVars, Entries, Keys, KeyIn, AssetWith
<1>5. ASSUME NEW o \in Enrichment, NEW i \in DOMAIN assets,
             NEW ownership \in {"", assets[i].ownership}, AppendEnrichment(o, i, ownership)
      PROVE  assets' = EnsuredAssets /\ initialized' = TRUE
  BY <1>5, AppendEnrichmentEffect DEF AppendEnrichment
<1>6. ASSUME NEW i \in DOMAIN assets, Classify(i)
      PROVE  [Catalog!CatalogNext]_(Catalog!catalogVars)
  BY <1>6, ClassifyRecords DEF Catalog!CatalogNext
<1>. QED
  BY <1>1, <1>2, <1>3, <1>4, <1>5, <1>6 DEF Next, AppendRelation, EnsureAssetState

\* The graph implements the catalog, for all sightings, spellings and orders.
THEOREM GraphImplementsCatalog == Spec => ImplementsCatalog
<1>1. Init => Catalog!CatalogInit
  BY DEF Init, Catalog!CatalogInit, Entries, Keys
<1>2. GraphInv /\ GraphInv' /\ [Next]_vars => [Catalog!CatalogNext]_(Catalog!catalogVars)
  BY GraphStepImplements
<1>. QED
  BY <1>1, <1>2, GraphInvariant, PTL DEF Spec, ImplementsCatalog, Catalog!CatalogSpec

=============================================================================
