SPECIFICATION Spec
CONSTANTS
    s1 = s1
    s2 = s2
    s3 = s3
    s4 = s4
    o1 = o1
    www = www
    WWW = WWW
    addr = addr
    k1 = k1
    k2 = k2
    r1 = r1
    r2 = r2
    r3 = r3
    Generic = Generic
    NoAsset = NoAsset
    ID = {s1, s2, s3, s4, o1}
    Sighting = {s1, s2, s3, s4}
    Enrichment = {o1}
    Name = {www, WWW, addr}
    Key = {k1, k2}
    Address = {k2}
    keyOf <- MCKeyOf
    nameOf <- MCNameOf
    reasonOf <- MCReasonOf
    ownershipOf <- MCOwnershipOf
    Reason = {r1, r2, r3}
    PointsAway = r3
    Link <- MCLink
    MaxResumes = 2
INVARIANTS
    CanonicalGraphValid
    SightingsKept
PROPERTIES
    ImplementsCatalog
