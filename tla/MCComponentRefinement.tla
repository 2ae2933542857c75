----------------------- MODULE MCComponentRefinement ------------------------
(***************************************************************************)
(* An instance of ComponentRefinement for TLC: a persistent component,     *)
(* one with a projected column and one that is projected only.             *)
(***************************************************************************)
EXTENDS ComponentRefinement

CONSTANTS Deck, Coins, Rank, p1, k1, k2, b0, b1
=============================================================================
