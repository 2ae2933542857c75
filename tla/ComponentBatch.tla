--------------------------- MODULE ComponentBatch ---------------------------
(***************************************************************************)
(* ComponentManager's batch operations on one entity: getComponents,       *)
(* hasComponents, addComponents, updateComponents, upsertComponents.       *)
(*                                                                         *)
(* A batch is the mirror image of a single operation: the database first,  *)
(* in one transaction, then one hSet of all fields, then all the events.   *)
(* A caller runs a batch or a single call; the getComponent that a batch   *)
(* falls back on is a nested "fetch" call of module ComponentManager.      *)
(***************************************************************************)
EXTENDS ComponentManager

Lists == INSTANCE SequencesExt

CONSTANTS BatchOps,    \* the batch operations callers use
          BatchSize    \* bound on the components of a batch

AllBatchOps == {"reads", "adds", "updates", "upserts"}

ASSUME BatchAssumption ==
    /\ BatchOps \subseteq AllBatchOps
    /\ BatchSize \in Nat \ {0}

VARIABLE batch   \* what each caller's batch is doing

batchVars == <<vars, batch>>

(* list is what the caller passed and is still to be read or written, found *)
(* what getComponents returned so far, todo the components still to be     *)
(* looked up, snap the JSONB map the transaction's findOne returned.       *)
BatchPCs == {"idle", "cache", "fetch", "names", "columns", "check",
             "find", "update", "insert", "hset", "emit", "done"}

Batches == [op : AllBatchOps \cup {"idle"}, pc : BatchPCs,
            list : Seq(Comps \X Values), todo : SUBSET Comps,
            found : [Comps -> OptValue], snap : [Comps -> OptValue]]

NoBatch == [op |-> "idle", pc |-> "idle", list |-> <<>>, todo |-> {},
            found |-> EmptyMap, snap |-> EmptyMap]

BatchTypeOK == TypeOK /\ batch \in [Procs -> Batches]

Listed(b) == {b.list[i][1] : i \in 1..Len(b.list)}
ValueIn(b, c) == LET i == CHOOSE i \in 1..Len(b.list) : b.list[i][1] = c
                 IN b.list[i][2]

BatchGoto(p, next) == batch' = [batch EXCEPT ![p] = next]
BatchAt(p, pc) == batch[p].pc = pc

(* Mutant: addComponents does not look at what hasComponents found.        *)
BatchRefusedNever(b) == FALSE

(* Before it writes, addComponents refuses the batch if any component      *)
(* exists, updateComponents if any is absent.                              *)
BatchRefused(b) ==
    \/ b.op = "adds" /\ \E c \in Listed(b) : b.found[c] # Null
    \/ b.op = "updates" /\ \E c \in Listed(b) : b.found[c] = Null

(* The batch has looked everything up: a transaction if anything needs     *)
(* one, then Redis; a batch with nothing left to write is over.            *)
AfterLookup(b) ==
    IF b.op = "reads" THEN [b EXCEPT !.pc = "done"]
    ELSE IF BatchRefused(b) \/ b.list = <<>> THEN NoBatch
    ELSE IF Listed(b) \cap (Persistent \cup Projected) # {}
         THEN [b EXCEPT !.pc = "find"]
    ELSE [b EXCEPT !.pc = "hset"]

(* hasComponents knows which cached components exist; of the others it     *)
(* asks the JSONB map for the persistent ones, the columns for the rest.   *)
AfterCached(b) ==
    IF b.op = "adds"
    THEN IF b.todo \cap Persistent # {} THEN [b EXCEPT !.pc = "names"]
         ELSE IF b.todo \cap Projected # {} THEN [b EXCEPT !.pc = "columns"]
         ELSE AfterLookup(b)
    ELSE IF b.todo # {} THEN [b EXCEPT !.pc = "fetch"]
    ELSE IF b.op = "upserts" THEN [b EXCEPT !.pc = "check",
              !.todo = {c \in Listed(b) : b.found[c] # Null}]
    ELSE AfterLookup(b)

-----------------------------------------------------------------------------
(* A batch without duplicates is passed in; one with duplicates throws     *)
(* ConflictException before anything happens.  addComponents of what its   *)
(* caller knows to be absent (assumeMissing) does not look it up.          *)
BatchStart(p) ==
    /\ call[p] = NoCall /\ batch[p] = NoBatch
    /\ calls < MaxCalls
    /\ \E op \in BatchOps, n \in 1..BatchSize :
       \E list \in [1..n -> Comps \X Values] :
         /\ \A i, j \in 1..n : i # j => list[i][1] # list[j][1]
         /\ LET b == [NoBatch EXCEPT !.op = op, !.list = list]
            IN \/ BatchGoto(p, [b EXCEPT !.pc = "cache"])
               \/ /\ op = "adds"
                  /\ \A c \in Listed(b) : Effective(c) = Null
                  /\ BatchGoto(p, AfterLookup(b))
    /\ calls' = calls + 1
    /\ UNCHANGED <<row, redis, call, log, faults, epoch, committed>>

(* hGetAll.                                                                *)
BatchCache(p) ==
    LET b == batch[p] IN
    /\ BatchAt(p, "cache")
    /\ BatchGoto(p, AfterCached(
         [b EXCEPT !.found = [c \in Comps |-> IF c \in Listed(b) THEN redis[c]
                                              ELSE Null],
                   !.todo = {c \in Listed(b) : redis[c] = Null}]))
    /\ UNCHANGED vars

(* getComponents awaits getComponent for a component hGetAll did not have. *)
BatchFetch(p) ==
    /\ BatchAt(p, "fetch") /\ call[p] = NoCall
    /\ \E c \in batch[p].todo :
         call' = [call EXCEPT ![p] = [NoCall EXCEPT !.op = "fetch", !.comp = c,
                                                    !.pc = "get.redis"]]
    /\ UNCHANGED <<row, redis, log, calls, faults, epoch, committed, batch>>

BatchFetched(p) ==
    LET b == batch[p]  k == call[p] IN
    /\ BatchAt(p, "fetch") /\ k.pc = "fetched"
    /\ BatchGoto(p, AfterCached([b EXCEPT !.found[k.comp] = k.found,
                                          !.todo = @ \ {k.comp}]))
    /\ Return(p)
    /\ UNCHANGED <<row, redis, log, calls, faults, epoch, committed>>

(* loadJsonbComponentNames, once for the batch.                            *)
BatchNames(p) ==
    LET b == batch[p] IN
    /\ BatchAt(p, "names")
    /\ BatchGoto(p, AfterCached(
         [b EXCEPT !.found = [c \in Comps |-> IF c \in b.todo \cap Persistent
                                              THEN components[c] ELSE @[c]],
                   !.todo = @ \ Persistent]))
    /\ UNCHANGED vars

(* loadPersistentProperties of one component; a failed read finds nothing. *)
BatchColumns(p) ==
    LET b == batch[p] IN
    /\ BatchAt(p, "columns")
    /\ \E c \in b.todo \cap Projected, x \in OptKey :
         /\ \/ Ok /\ x = LoadPersistentProperties(c)
            \/ Fault /\ x = Null
         /\ BatchGoto(p, AfterCached([b EXCEPT !.found[c] = FromColumn(x),
                                               !.todo = @ \ {c}]))
    /\ UNCHANGED <<row, redis, call, log, calls, epoch, committed>>

(* upsertComponents drops a component whose value is what was found, if    *)
(* the database has a snapshot of it; todo holds those still to be judged. *)
BatchCheck(p) ==
    LET b == batch[p] IN
    /\ BatchAt(p, "check")
    /\ IF b.todo = {} THEN Ok /\ BatchGoto(p, AfterLookup(b))
       ELSE \E i \in 1..Len(b.list), x \in OptValue :
              LET c == b.list[i][1] IN
              /\ c \in b.todo
              /\ \/ Ok /\ x = IF c \in Persistent THEN LoadComponentFromJsonb(c)
                              ELSE b.found[c]
                 \/ Fault /\ c \in Persistent /\ x = Null
              /\ BatchGoto(p, [b EXCEPT !.todo = @ \ {c},
                     !.list = IF x # Null /\ b.found[c] = b.list[i][2]
                              THEN Lists!RemoveAt(@, i) ELSE @])
    /\ UNCHANGED <<row, redis, call, log, calls, epoch, committed>>

-----------------------------------------------------------------------------
(* saveComponentSetInTransaction: findOne, then one statement that writes  *)
(* the whole map and all the projected columns.                            *)

BatchFind(p) ==
    /\ BatchAt(p, "find")
    /\ BatchGoto(p, IF exists
                    THEN [batch[p] EXCEPT !.pc = "update", !.snap = components]
                    ELSE [batch[p] EXCEPT !.pc = "insert"])
    /\ UNCHANGED vars

NextComponents(b) == [c \in Comps |-> IF c \in Listed(b) \cap Persistent
                                      THEN ValueIn(b, c) ELSE b.snap[c]]
NextColumns(b, old) == [c \in Comps |-> IF c \in Listed(b) \cap Projected
                                        THEN ValueIn(b, c).key ELSE old[c]]

Commit(b) == committed' = committed \cup
                 {<<c, ValueIn(b, c)>> : c \in Listed(b) \cap Persistent}

BatchUpdate(p) ==
    LET b == batch[p] IN
    /\ BatchAt(p, "update")
    /\ components' = NextComponents(b)
    /\ columns' = NextColumns(b, columns)
    /\ Commit(b)
    /\ BatchGoto(p, [b EXCEPT !.pc = "hset", !.snap = EmptyMap])
    /\ UNCHANGED <<exists, redis, call, log, calls, faults, epoch>>

BatchInsert(p) ==
    LET b == batch[p]  cols == NextColumns(b, DefaultColumns) IN
    /\ BatchAt(p, "insert")
    /\ \/ /\ InsertRow(NextComponents(b), cols)
          /\ Commit(b)
          /\ BatchGoto(p, [b EXCEPT !.pc = "hset"])
       \/ /\ InsertFails(cols)
          /\ UNCHANGED <<row, committed>>
          /\ BatchGoto(p, NoBatch)
    /\ UNCHANGED <<redis, call, log, calls, faults, epoch>>

(* Mutant: the fields are set one by one.                                  *)
BatchHSetEach(p) ==
    LET b == batch[p] IN
    /\ BatchAt(p, "hset")
    /\ \E c \in Listed(b) \ b.todo :
         /\ redis' = [redis EXCEPT ![c] = ValueIn(b, c)]
         /\ BatchGoto(p, IF Listed(b) \subseteq b.todo \cup {c}
                         THEN [b EXCEPT !.pc = "emit", !.todo = {}]
                         ELSE [b EXCEPT !.todo = @ \cup {c}])
    /\ UNCHANGED <<row, call, log, calls, faults, epoch, committed>>

(* syncPersistedComponentLifecycleBatch: one hSet of all the fields ...    *)
BatchHSet(p) ==
    LET b == batch[p] IN
    /\ BatchAt(p, "hset")
    /\ redis' = [c \in Comps |-> IF c \in Listed(b) THEN ValueIn(b, c)
                                 ELSE redis[c]]
    /\ BatchGoto(p, [b EXCEPT !.pc = "emit"])
    /\ UNCHANGED <<row, call, log, calls, faults, epoch, committed>>

(* ... then the events, in the order of the list; upsertComponents goes by *)
(* what it found.                                                          *)
BatchEventType(b, c) ==
    IF b.op = "adds" \/ (b.op = "upserts" /\ b.found[c] = Null)
    THEN "ADDED" ELSE "UPDATED"

BatchEvents(b) ==
    [i \in 1..Len(b.list) |->
       [type |-> BatchEventType(b, b.list[i][1]),
        comp |-> b.list[i][1], val |-> b.list[i][2], epoch |-> 0]]

BatchEmit(p) ==
    /\ BatchAt(p, "emit")
    /\ log' = log \o BatchEvents(batch[p])
    /\ BatchGoto(p, NoBatch)
    /\ UNCHANGED <<row, redis, call, calls, faults, epoch, committed>>

(* getComponents returns.                                                  *)
BatchReturn(p) ==
    /\ BatchAt(p, "done")
    /\ BatchGoto(p, NoBatch)
    /\ UNCHANGED vars

(* A request that throws, or a crash: the batch ends where it is.          *)
BatchAbort(p) ==
    /\ batch[p] # NoBatch
    /\ Fault
    /\ BatchGoto(p, NoBatch)
    /\ Return(p)
    /\ UNCHANGED <<row, redis, log, calls, epoch, committed>>

BatchStep(p) ==
    \/ BatchCache(p) \/ BatchFetch(p) \/ BatchFetched(p) \/ BatchNames(p)
    \/ BatchColumns(p) \/ BatchCheck(p) \/ BatchFind(p) \/ BatchUpdate(p)
    \/ BatchInsert(p) \/ BatchHSet(p) \/ BatchEmit(p) \/ BatchReturn(p)

SingleStep(p) ==
    /\ \/ batch[p] = NoBatch /\ (Start(p) \/ Abort(p))
       \/ Step(p)
    /\ UNCHANGED batch

BatchInit == Init /\ batch = [p \in Procs |-> NoBatch]

BatchNext ==
    \E p \in Procs : \/ SingleStep(p) \/ BatchStart(p)
                     \/ BatchStep(p) \/ BatchAbort(p)

BatchSpec == BatchInit /\ [][BatchNext]_batchVars
=============================================================================
