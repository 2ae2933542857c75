------------------------- MODULE MCComponentManager -------------------------
(***************************************************************************)
(* Instances of ComponentManager for TLC.  The component classes cover the *)
(* four storage kinds: Deck is persistent, Coins persistent with a         *)
(* projected column, Rank projected only, Hand lives in Redis only.        *)
(***************************************************************************)
EXTENDS ComponentManager, TLC

CONSTANTS Deck, Coins, Rank, Hand,
          p1, p2, p3,
          k1, k2, b0, b1

Symmetric == Permutations(Procs)

-----------------------------------------------------------------------------
(* What the documentation says, and concurrent callers refute.             *)

(* base.entity.ts: the JSONB map is the source of truth of a persistent    *)
(* component without projected properties; so when nobody is writing and   *)
(* nothing failed, Redis has no other value than the map.                  *)
JsonbIsSourceOfTruth ==
    Quiet /\ faults = 0 =>
        \A c \in Persistent \ Projected : redis[c] \in {Null, components[c]}

(* base.entity.ts: the JSONB map is the source of truth; so an upsert that *)
(* returns without writing leaves the value it was given in the map.       *)
UpsertLeavesValueStored ==
    [][\A p \in Procs :
         At(p, "upsert.check") /\ call'[p] = NoCall /\ UNCHANGED faults
           => components[call[p].comp] = call[p].val]_vars
=============================================================================
