------------------------- MODULE MCGqlSubscriptions -------------------------
(***************************************************************************)
(* Instances of GqlSubscriptions for TLC: two identities, one subscription *)
(* each, to a component the world may see and one only its owner may.      *)
(***************************************************************************)
EXTENDS GqlSubscriptions

CONSTANTS alice, bob, s1, s2, Public, Private

Subscriber == [s \in Subscriptions |-> IF s = s1 THEN alice ELSE bob]
Filter == [s \in Subscriptions |-> IF s = s1 THEN Comps ELSE Owned]
=============================================================================
