---------------------------- MODULE AssetCatalog ----------------------------
(***************************************************************************)
(* What the asset graph promises its readers (the projection, the lineage, *)
(* the exporters): a catalog with one entry per canonical key.  An entry   *)
(* has the ID of the sighting that founded it, forever; it has the         *)
(* strongest claim of ownership any sighting made, and the first explicit  *)
(* reason or that of a stronger claim; and it knows the sightings behind   *)
(* it since the run was last loaded, and its founder.  What is found out   *)
(* about an address later overrides its sightings.                         *)
(***************************************************************************)
CONSTANTS
    Sighting,    \* what stages report
    keyFor,      \* the canonical key of a sighting
    reasonOf,    \* the reason it gives, or Generic
    ownershipOf, \* the ownership it claims, or ""
    Generic,
    Address,     \* the keys of addresses
    PointsAway   \* the reason an address has whose name points away

VARIABLES
    entry,      \* key -> founder, reason, ownership, sightings
    loaded      \* the run has been loaded and nothing was appended since

catalogVars == <<entry, loaded>>

CatalogInit ==
    /\ entry = [k \in {} |-> Generic]
    /\ loaded = TRUE

\* The entries as the first access after a load leaves them.
Kept ==
    [k \in DOMAIN entry |->
        IF loaded THEN [entry[k] EXCEPT !.sightings = {entry[k].founder}] ELSE entry[k]]

\* Who claims nothing founds a domain as owned and an address as associated.
Founded(s) ==
    [founder |-> s, reason |-> reasonOf[s],
     ownership |-> IF ownershipOf[s] # "" THEN ownershipOf[s]
                   ELSE IF keyFor[s] \in Address THEN "associated_infrastructure" ELSE "owned",
     sightings |-> {s}]

Stronger(claim, other) ==
    \/ claim = "owned" /\ other # "owned"
    \/ claim = "uncertain" /\ other = "associated_infrastructure"

Joined(e, s) ==
    LET stronger == Stronger(ownershipOf[s], e.ownership)
    IN  [founder |-> e.founder,
         reason |-> IF reasonOf[s] # Generic /\ (e.reason = Generic \/ stronger)
                    THEN reasonOf[s] ELSE e.reason,
         ownership |-> IF stronger THEN ownershipOf[s] ELSE e.ownership,
         sightings |-> e.sightings \cup {s}]

Record(s) ==
    /\ entry' = [k \in DOMAIN entry \cup {keyFor[s]} |->
                    IF k # keyFor[s] THEN Kept[k]
                    ELSE IF k \in DOMAIN entry THEN Joined(Kept[k], s) ELSE Founded(s)]
    /\ loaded' = FALSE

PointedAway(e) ==
    [founder |-> e.founder, reason |-> PointsAway, ownership |-> "uncertain",
     sightings |-> e.sightings]

\* An address turns out to be owned, or to point away.
FindOut(k) ==
    /\ ~loaded
    /\ \/ entry' = [entry EXCEPT ![k].ownership = "owned"]
       \/ entry' = [entry EXCEPT ![k] = PointedAway(@)]
    /\ UNCHANGED loaded

Access == entry' = Kept /\ loaded' = FALSE

Load == loaded' = TRUE /\ UNCHANGED entry

CatalogNext ==
    \/ \E s \in Sighting : Record(s)
    \/ \E k \in DOMAIN entry \cap Address : FindOut(k)
    \/ Access
    \/ Load

CatalogSpec == CatalogInit /\ [][CatalogNext]_catalogVars

=============================================================================
