---------------------------- MODULE MCAssetGraph ----------------------------
(* AssetGraph with a domain, seen under two spellings, and an address, for *)
(* which the second sighting claims more than the first.                   *)
EXTENDS AssetGraph, TLC

CONSTANTS s1, s2, s3, s4, o1, www, WWW, addr, k1, k2, r1, r2, r3

MCKeyOf == www :> k1 @@ WWW :> k1 @@ addr :> k2
MCNameOf == s1 :> www @@ s2 :> WWW @@ s3 :> addr @@ s4 :> addr
MCReasonOf == s1 :> Generic @@ s2 :> r1 @@ s3 :> r1 @@ s4 :> r2
MCOwnershipOf == s1 :> "" @@ s2 :> "owned" @@ s3 :> "associated_infrastructure"
                   @@ s4 :> "uncertain"
MCLink == {<<www, addr>>, <<addr, WWW>>}

=============================================================================
