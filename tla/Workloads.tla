----------------------------- MODULE Workloads ------------------------------
(***************************************************************************)
(* Workloads under which more is true than in general.  In "claim" callers *)
(* claim a component: each writes another key on the condition that the    *)
(* column still is ClaimedKey.  In "upsert" they upsert the value that is  *)
(* stored already, in Redis or in the database alone, and no request       *)
(* fails.  In "pairs" all components are cached, hold the same key and are *)
(* only ever updated together, to another common key.                      *)
(***************************************************************************)
EXTENDS ComponentBatch

CONSTANT ClaimedKey   \* the key that callers claim

VARIABLE workload

InitFor(w) ==
    CASE w = "claim"  -> TRUE
      [] w = "upsert" -> \A c \in Comps :
                             /\ Effective(c) # Null
                             /\ c \in Persistent => components[c] # Null
      [] w = "pairs"  -> \E k \in Keys : \A c \in Comps :
                             redis[c] # Null /\ redis[c].key = k

WorkloadInit ==
    /\ BatchInit
    /\ workload \in {"claim", "upsert", "pairs"}
    /\ InitFor(workload)

(* The calls and batches that callers of a workload invoke.                *)
Follows(k) ==
    \/ k.op \in {"idle", "fetch", "get"}
    \/ /\ workload = "claim" /\ k.op = "guard"
       /\ k.expect = ClaimedKey /\ k.val.key # ClaimedKey
    \/ /\ workload = "upsert" /\ k.op = "upsert"
       /\ k.val = Effective(k.comp)

BatchFollows(b) ==
    \/ b.op = "idle"
    \/ /\ workload = "upsert" /\ b.op = "upserts"
       /\ \A c \in Listed(b) : ValueIn(b, c) = Effective(c)
    \/ /\ workload = "pairs" /\ b.op \in {"reads", "updates"}
       /\ Listed(b) = Comps
       /\ b.op = "updates" => \A i, j \in 1..Len(b.list) :
                                 b.list[i][2].key = b.list[j][2].key

Within ==
    /\ \A p \in Procs : /\ call[p] = NoCall => Follows(call'[p])
                        /\ batch[p] = NoBatch => BatchFollows(batch'[p])
    /\ workload = "upsert" => faults' = 0
    /\ UNCHANGED workload

WorkloadNext ==
    \E p \in Procs : \/ SingleStep(p) /\ Within
                     \/ BatchStart(p) /\ Within
                     \/ BatchStep(p) /\ Within
                     \/ BatchAbort(p) /\ Within

WorkloadSpec == WorkloadInit /\ [][WorkloadNext]_<<batchVars, workload>>

-----------------------------------------------------------------------------
Winners(c) == {p \in Procs : /\ call[p].op = "guard" /\ call[p].comp = c
                             /\ call[p].pc \in {"guard.set", "emit"}}

(* Of the callers of tryUpdateComponentWithProjectionGuard that expect the *)
(* same value and move the column away from it at most one wins, whatever  *)
(* the others read, cache or lose on the way, and only it is announced.    *)
ClaimHasOneWinner ==
    workload = "claim" =>
        \A c \in Comps :
            Cardinality(Winners(c))
              + Cardinality({i \in 1..Len(log) : log[i].comp = c}) <= 1

(* upsertComponent and upsertComponents of values that are stored publish  *)
(* nothing and write nothing, from a cold cache or a warm one, however     *)
(* many callers upsert and read at once.                                   *)
EqualUpsertIsSilent ==
    workload = "upsert" =>
        /\ log = <<>>
        /\ \A p \in Procs : /\ call[p].pc \notin {"update.set", "add.claim"}
                            /\ batch[p].pc \notin {"find", "hset"}

Same(keys) == \A k, l \in keys : k = l

(* Components that are only updated together are never seen apart: not in  *)
(* Redis, not in the database, and not by getComponents, although updaters *)
(* overtake each other between the transaction and the hSet and may die in *)
(* between.                                                                *)
BatchesStayWhole ==
    workload = "pairs" =>
        /\ Same({redis[c].key : c \in Comps})
        /\ Same({components[c].key : c \in Persistent}
                  \cup {columns[c] : c \in Projected})
        /\ \A p \in Procs : BatchAt(p, "done") =>
               Same({batch[p].found[c].key : c \in Comps})
=============================================================================
