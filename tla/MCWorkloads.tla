---------------------------- MODULE MCWorkloads -----------------------------
(***************************************************************************)
(* An instance of Workloads for TLC: a persistent component with a         *)
(* projected column and one that is projected only.                        *)
(***************************************************************************)
EXTENDS Workloads, TLC

CONSTANTS Coins, Rank, p1, p2, p3, k1, k2, b0

Symmetric == Permutations(Procs)
=============================================================================
