---------------------------- MODULE MCWsSessions ----------------------------
(***************************************************************************)
(* Instance of WsSessions for TLC: s1 and s2 are two tabs of i1, one with  *)
(* the token of i2 in a header that does not count.                        *)
(***************************************************************************)
EXTENDS WsSessions, TLC

CONSTANTS s1, s2, i1, i2, t1, t2

Handshakes == s1 :> [auth |-> t1, bearer |-> t2] @@ s2 :> [auth |-> None, bearer |-> t1]
Adapter == t1 :> i1 @@ t2 :> i2
=============================================================================
