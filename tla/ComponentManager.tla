-------------------------- MODULE ComponentManager --------------------------
(***************************************************************************)
(* ComponentManager's single-component operations on one entity, called by *)
(* any number of concurrent callers (handlers, gateways, instances).       *)
(*                                                                         *)
(* Every `await' of component.manager.ts is a point where other callers    *)
(* run, so a call is a small program whose pc names the request it issues  *)
(* next; one action is one request as the server executes it together with *)
(* the synchronous code up to the next await.  Redis holds one hash per    *)
(* entity (`redis'), the database one row (module PersistenceManager), and *)
(* `log' is the stream of lifecycle events handed to NATS.                 *)
(***************************************************************************)
EXTENDS PersistenceManager

CONSTANTS Procs,      \* concurrent callers
          Ops,        \* the operations they use
          MaxCalls,   \* bound on the calls of a behaviour
          MaxFaults   \* bound on failed requests and crashes

AllOps == {"get", "has", "add", "update", "upsert", "remove", "guard"}

ASSUME CallerAssumption ==
    /\ Ops \subseteq AllOps
    /\ MaxCalls \in Nat
    /\ MaxFaults \in Nat

VARIABLES redis,      \* the entity's Redis hash
          call,       \* what each caller is doing
          log,        \* lifecycle events published so far
          calls,      \* calls started
          faults,     \* requests failed, callers crashed
          epoch,      \* history: Redis deletions of a component
          committed   \* history: <<component, value>> ever put into JSONB

vars == <<exists, components, columns, redis, call, log, calls, faults,
          epoch, committed>>

PCs == {"idle", "has.redis", "has.jsonb", "has.warm", "has.columns",
        "get.redis", "get.jsonb", "get.columns", "get.warm",
        "upsert.check", "add.claim", "update.set",
        "columns.find", "columns.update", "columns.insert",
        "jsonb.find", "jsonb.update", "jsonb.insert",
        "remove.del", "remove.columns", "remove.find", "remove.jsonb",
        "guard.write", "guard.set", "emit", "fetched"}

(* found is the instance getComponent returned (or is about to cache),     *)
(* snap the JSONB map a findOne returned; expect is the guard's value.     *)
(* "fetch" is a getComponent whose result a batch awaits (ComponentBatch). *)
Calls == [op : AllOps \cup {"idle", "fetch"}, comp : Comps \cup {Null},
          val : OptValue, expect : OptKey, pc : PCs, found : OptValue,
          snap : [Comps -> OptValue], epoch : Nat]

NoCall == [op |-> "idle", comp |-> Null, val |-> Null, expect |-> Null,
           pc |-> "idle", found |-> Null, snap |-> EmptyMap, epoch |-> 0]

Events == [type : {"ADDED", "UPDATED", "REMOVED"}, comp : Comps,
           val : OptValue, epoch : Nat]

(* Which operation a request belongs to, and what it has at hand then.     *)
SavePCs == {"columns.find", "columns.update", "columns.insert",
            "jsonb.find", "jsonb.update", "jsonb.insert"}

CallOK(k) ==
    /\ k.op = "idle" <=> k.pc = "idle"
    /\ k.op # "idle" => k.comp \in Comps
    /\ k.op \in {"add", "update", "upsert", "guard"} => k.val \in Values
    /\ k.pc \in {"get.warm", "has.warm"} => k.found # Null
    /\ k.pc \in {"has.redis", "has.jsonb", "has.warm", "has.columns"} =>
         k.op \in {"has", "add"}
    /\ k.pc \in {"get.redis", "get.jsonb", "get.columns", "get.warm"} =>
         k.op \in {"get", "update", "upsert", "remove", "guard", "fetch"}
    /\ k.pc = "upsert.check" => k.op = "upsert"
    /\ k.pc = "add.claim" => k.op = "add"
    /\ k.pc = "update.set" => k.op = "update"
    /\ k.pc \in SavePCs => k.op \in {"add", "update"}
    /\ k.pc \in {"remove.del", "remove.columns", "remove.find", "remove.jsonb"}
         => k.op = "remove"
    /\ k.pc \in {"guard.write", "guard.set"} => k.op = "guard"
    /\ k.pc = "emit" => k.op \in {"add", "update", "remove", "guard"}

TypeOK ==
    /\ RowTypeOK
    /\ redis \in [Comps -> OptValue]
    /\ call \in [Procs -> Calls]
    /\ \A p \in Procs : CallOK(call[p])
    /\ log \in Seq(Events)
    /\ calls \in Nat /\ faults \in Nat
    /\ epoch \in [Comps -> Nat]
    /\ committed \subseteq Comps \X Values

-----------------------------------------------------------------------------
(* Redis, the JSONB map and the columns tell the same story; a component   *)
(* that is not cached is simply cold.                                      *)
StoresAgree(c) ==
    /\ c \notin Persistent => components[c] = Null
    /\ c \notin Projected => columns[c] = Null
    /\ c \in Persistent /\ redis[c] # Null => redis[c] = components[c]
    /\ c \in Persistent \cap Projected =>
         IF components[c] # Null THEN columns[c] = components[c].key
         ELSE \/ columns[c] \in {Null, ColumnDefault}
              \/ ~Nullable /\ ColumnDefault = Null
    /\ exists /\ ~Nullable /\ c \in Projected => columns[c] # Null
    /\ c \in Projected \ Persistent /\ redis[c] # Null =>
         columns[c] = redis[c].key
    /\ ~exists => components[c] = Null /\ columns[c] = Null

Init ==
    /\ RowTypeOK
    /\ redis \in [Comps -> OptValue]
    /\ \A c \in Comps : StoresAgree(c)
    /\ call = [p \in Procs |-> NoCall]
    /\ log = <<>>
    /\ calls = 0 /\ faults = 0
    /\ epoch = [c \in Comps |-> 0]
    /\ committed = {cv \in Comps \X Values : components[cv[1]] = cv[2]}

-----------------------------------------------------------------------------
(* Control: what a call does after a request, as its next call record.     *)

At(p, pc) == call[p].pc = pc
Goto(p, next) == call' = [call EXCEPT ![p] = next]
Return(p) == Goto(p, NoCall)

Ok == UNCHANGED faults
Fault == faults < MaxFaults /\ faults' = faults + 1

(* getComponent returned x to the operation that awaits it.                *)
AfterGet(k, x) ==
    IF k.op = "upsert"
    THEN IF x = Null
         THEN [k EXCEPT !.op = "add", !.pc = "has.redis", !.found = Null]
         ELSE IF k.comp \in Persistent
         THEN [k EXCEPT !.pc = "upsert.check", !.found = x]
         ELSE IF x = k.val THEN NoCall
         ELSE [k EXCEPT !.op = "update", !.pc = "get.redis", !.found = Null]
    ELSE IF k.op = "update" /\ x # Null
         THEN [k EXCEPT !.pc = "update.set", !.found = x]
    ELSE IF k.op = "remove" THEN [k EXCEPT !.pc = "remove.del", !.found = x]
    ELSE IF k.op = "guard" /\ k.comp \in Projected
         THEN [k EXCEPT !.pc = "guard.write", !.found = Null]
    ELSE IF k.op = "fetch" THEN [k EXCEPT !.pc = "fetched", !.found = x]
    ELSE NoCall

(* hasComponent returned FALSE.                                            *)
AfterAbsent(k) == IF k.op = "add" THEN [k EXCEPT !.pc = "add.claim"] ELSE NoCall

(* Mutant: the event goes out before the JSONB statement.                  *)
AfterColumnsEmit(k) == [k EXCEPT !.pc = "emit"]

AfterColumns(k) ==
    [k EXCEPT !.pc = IF k.comp \in Persistent THEN "jsonb.find" ELSE "emit"]

(* The value is in Redis; updateComponent skips a column that keeps its    *)
(* value, addComponent never does.                                         *)
AfterCacheWrite(k) ==
    IF k.comp \in Projected /\ (k.op = "add" \/ k.found.key # k.val.key)
    THEN [k EXCEPT !.pc = "columns.find"] ELSE AfterColumns(k)

AfterRemovedColumns(k) ==
    [k EXCEPT !.pc = IF k.comp \in Persistent THEN "remove.find" ELSE "emit"]

-----------------------------------------------------------------------------
(* A caller invokes an operation.                                          *)
Start(p) ==
    /\ call[p] = NoCall
    /\ calls < MaxCalls
    /\ \E op \in Ops, c \in Comps, v \in Values, e \in Keys :
         Goto(p, [op |-> op, comp |-> c,
                  val |-> IF op \in {"get", "has", "remove"} THEN Null ELSE v,
                  expect |-> IF op = "guard" THEN e ELSE Null,
                  pc |-> IF op \in {"add", "has"} THEN "has.redis"
                         ELSE "get.redis",
                  found |-> Null, snap |-> EmptyMap, epoch |-> 0])
    /\ calls' = calls + 1
    /\ UNCHANGED <<row, redis, log, faults, epoch, committed>>

-----------------------------------------------------------------------------
(* hasComponent, which addComponent awaits first.                          *)

HasRedis(p) ==
    LET k == call[p] IN
    /\ At(p, "has.redis")
    /\ Goto(p, IF redis[k.comp] # Null THEN NoCall
               ELSE IF k.comp \in Persistent THEN [k EXCEPT !.pc = "has.jsonb"]
               ELSE IF k.comp \in Projected THEN [k EXCEPT !.pc = "has.columns"]
               ELSE AfterAbsent(k))
    /\ UNCHANGED <<row, redis, log, calls, faults, epoch, committed>>

HasJsonb(p) ==
    LET k == call[p] IN
    /\ At(p, "has.jsonb")
    /\ \E x \in OptValue :
         /\ \/ Ok /\ x = LoadComponentFromJsonb(k.comp)
            \/ Fault /\ x = Null
         /\ Goto(p, IF x # Null THEN [k EXCEPT !.pc = "has.warm", !.found = x]
                    ELSE AfterAbsent(k))
    /\ UNCHANGED <<row, redis, log, calls, epoch, committed>>

HasWarm(p) ==
    /\ At(p, "has.warm")
    /\ redis' = [redis EXCEPT ![call[p].comp] = call[p].found]
    /\ Return(p)
    /\ UNCHANGED <<row, log, calls, faults, epoch, committed>>

HasColumns(p) ==
    LET k == call[p] IN
    /\ At(p, "has.columns")
    /\ \E x \in OptKey :
         /\ \/ Ok /\ x = LoadPersistentProperties(k.comp)
            \/ Fault /\ x = Null
         /\ Goto(p, IF x # Null THEN NoCall ELSE AfterAbsent(k))
    /\ UNCHANGED <<row, redis, log, calls, epoch, committed>>

-----------------------------------------------------------------------------
(* getComponent: Redis, else JSONB, else the columns; what the database    *)
(* returned is written back to Redis before it is returned.                *)

GetRedis(p) ==
    LET k == call[p] IN
    /\ At(p, "get.redis")
    /\ Goto(p, IF redis[k.comp] # Null THEN AfterGet(k, redis[k.comp])
               ELSE IF k.comp \in Persistent THEN [k EXCEPT !.pc = "get.jsonb"]
               ELSE IF k.comp \in Projected THEN [k EXCEPT !.pc = "get.columns"]
               ELSE AfterGet(k, Null))
    /\ UNCHANGED <<row, redis, log, calls, faults, epoch, committed>>

GetJsonb(p) ==
    LET k == call[p] IN
    /\ At(p, "get.jsonb")
    /\ \E x \in OptValue :
         /\ \/ Ok /\ x = LoadComponentFromJsonb(k.comp)
            \/ Fault /\ x = Null
         /\ Goto(p, IF x # Null THEN [k EXCEPT !.pc = "get.warm", !.found = x]
                    ELSE IF k.comp \in Projected
                         THEN [k EXCEPT !.pc = "get.columns"]
                    ELSE AfterGet(k, Null))
    /\ UNCHANGED <<row, redis, log, calls, epoch, committed>>

GetColumns(p) ==
    LET k == call[p] IN
    /\ At(p, "get.columns")
    /\ \E x \in OptKey :
         /\ \/ Ok /\ x = LoadPersistentProperties(k.comp)
            \/ Fault /\ x = Null
         /\ Goto(p, IF x # Null
                    THEN [k EXCEPT !.pc = "get.warm", !.found = FromColumn(x)]
                    ELSE AfterGet(k, Null))
    /\ UNCHANGED <<row, redis, log, calls, epoch, committed>>

GetWarm(p) ==
    LET k == call[p] IN
    /\ At(p, "get.warm")
    /\ redis' = [redis EXCEPT ![k.comp] = k.found]
    /\ Goto(p, AfterGet(k, k.found))
    /\ UNCHANGED <<row, log, calls, faults, epoch, committed>>

-----------------------------------------------------------------------------
(* Mutant: an upsert always writes.                                        *)
UpsertCheckWrites(p) ==
    /\ At(p, "upsert.check")
    /\ Goto(p, [call[p] EXCEPT !.op = "update", !.pc = "get.redis",
                               !.found = Null])
    /\ UNCHANGED <<row, redis, log, calls, faults, epoch, committed>>

(* upsertComponent found the component: an equal value is dropped, but     *)
(* only if the database holds some snapshot of the component.              *)
UpsertCheck(p) ==
    LET k == call[p] IN
    /\ At(p, "upsert.check")
    /\ \E x \in OptValue :
         /\ \/ Ok /\ x = LoadComponentFromJsonb(k.comp)
            \/ Fault /\ x = Null
         /\ Goto(p, IF x # Null /\ k.found = k.val THEN NoCall
                    ELSE [k EXCEPT !.op = "update", !.pc = "get.redis",
                                   !.found = Null])
    /\ UNCHANGED <<row, redis, log, calls, epoch, committed>>

(* Mutant: addComponent writes with hSet.                                  *)
AddClaimOverwrites(p) ==
    LET k == call[p] IN
    /\ At(p, "add.claim")
    /\ redis' = [redis EXCEPT ![k.comp] = k.val]
    /\ Goto(p, [AfterCacheWrite(k) EXCEPT !.epoch = epoch[k.comp]])
    /\ UNCHANGED <<row, log, calls, faults, epoch, committed>>

(* addComponent's hSetNX: the loser throws ConflictException.              *)
AddClaim(p) ==
    LET k == call[p] IN
    /\ At(p, "add.claim")
    /\ IF redis[k.comp] # Null
       THEN UNCHANGED redis /\ Return(p)
       ELSE /\ redis' = [redis EXCEPT ![k.comp] = k.val]
            /\ Goto(p, [AfterCacheWrite(k) EXCEPT !.epoch = epoch[k.comp]])
    /\ UNCHANGED <<row, log, calls, faults, epoch, committed>>

UpdateSet(p) ==
    LET k == call[p] IN
    /\ At(p, "update.set")
    /\ redis' = [redis EXCEPT ![k.comp] = k.val]
    /\ Goto(p, [AfterCacheWrite(k) EXCEPT !.found = Null])
    /\ UNCHANGED <<row, log, calls, faults, epoch, committed>>

-----------------------------------------------------------------------------
(* savePersistentProperties: findOne, then UPDATE or INSERT; any error is  *)
(* logged and swallowed and the operation goes on.                         *)

ColumnsFind(p) ==
    LET k == call[p] IN
    /\ At(p, "columns.find")
    /\ \/ /\ Ok
          /\ Goto(p, [k EXCEPT !.pc = IF exists THEN "columns.update"
                                      ELSE "columns.insert"])
       \/ Fault /\ Goto(p, AfterColumns(k))
    /\ UNCHANGED <<row, redis, log, calls, epoch, committed>>

ColumnsUpdate(p) ==
    LET k == call[p] IN
    /\ At(p, "columns.update")
    /\ \/ Ok /\ UpdateColumns([columns EXCEPT ![k.comp] = k.val.key])
       \/ Fault /\ UNCHANGED row
    /\ Goto(p, AfterColumns(k))
    /\ UNCHANGED <<redis, log, calls, epoch, committed>>

ColumnsInsert(p) ==
    LET k == call[p] IN
    /\ At(p, "columns.insert")
    /\ LET cols == [DefaultColumns EXCEPT ![k.comp] = k.val.key] IN
       \/ Ok /\ InsertRow(EmptyMap, cols)
       \/ Ok /\ InsertFails(cols) /\ UNCHANGED row
       \/ Fault /\ UNCHANGED row
    /\ Goto(p, AfterColumns(k))
    /\ UNCHANGED <<redis, log, calls, epoch, committed>>

(* saveComponentToJsonb: findOne, then the whole map is written back; an   *)
(* error is rethrown, see Abort.                                           *)

JsonbFind(p) ==
    LET k == call[p] IN
    /\ At(p, "jsonb.find")
    /\ Goto(p, IF exists THEN [k EXCEPT !.pc = "jsonb.update",
                                        !.snap = components]
               ELSE [k EXCEPT !.pc = "jsonb.insert"])
    /\ UNCHANGED <<row, redis, log, calls, faults, epoch, committed>>

JsonbUpdate(p) ==
    LET k == call[p] IN
    /\ At(p, "jsonb.update")
    /\ UpdateComponents([k.snap EXCEPT ![k.comp] = k.val])
    /\ committed' = committed \cup {<<k.comp, k.val>>}
    /\ Goto(p, [k EXCEPT !.pc = "emit", !.snap = EmptyMap])
    /\ UNCHANGED <<redis, log, calls, faults, epoch>>

JsonbInsert(p) ==
    LET k == call[p] IN
    /\ At(p, "jsonb.insert")
    /\ \/ /\ InsertRow([EmptyMap EXCEPT ![k.comp] = k.val], DefaultColumns)
          /\ committed' = committed \cup {<<k.comp, k.val>>}
          /\ Goto(p, [k EXCEPT !.pc = "emit"])
       \/ InsertFails(DefaultColumns) /\ UNCHANGED <<row, committed>> /\ Return(p)
    /\ UNCHANGED <<redis, log, calls, faults, epoch>>

-----------------------------------------------------------------------------
(* removeComponent: Redis first, then the columns, then the JSONB map.     *)
(* Whatever fails in the database, REMOVED is published.                   *)

RemoveDel(p) ==
    LET k == call[p] IN
    /\ At(p, "remove.del")
    /\ redis' = [redis EXCEPT ![k.comp] = Null]
    /\ epoch' = [epoch EXCEPT ![k.comp] = @ + 1]
    /\ Goto(p, IF k.comp \in Projected THEN [k EXCEPT !.pc = "remove.columns"]
               ELSE AfterRemovedColumns(k))
    /\ UNCHANGED <<row, log, calls, faults, committed>>

RemoveColumns(p) ==
    LET k == call[p] IN
    /\ At(p, "remove.columns")
    /\ \/ Ok /\ UpdateColumns([columns EXCEPT ![k.comp] = ClearedKey(@)])
       \/ Fault /\ UNCHANGED row
    /\ Goto(p, AfterRemovedColumns(k))
    /\ UNCHANGED <<redis, log, calls, epoch, committed>>

RemoveFind(p) ==
    LET k == call[p] IN
    /\ At(p, "remove.find")
    /\ \/ /\ Ok
          /\ Goto(p, IF components[k.comp] # Null
                     THEN [k EXCEPT !.pc = "remove.jsonb", !.snap = components]
                     ELSE [k EXCEPT !.pc = "emit"])
       \/ Fault /\ Goto(p, [k EXCEPT !.pc = "emit"])
    /\ UNCHANGED <<row, redis, log, calls, epoch, committed>>

RemoveJsonb(p) ==
    LET k == call[p] IN
    /\ At(p, "remove.jsonb")
    /\ \/ Ok /\ UpdateComponents([k.snap EXCEPT ![k.comp] = Null])
       \/ Fault /\ UNCHANGED row
    /\ Goto(p, [k EXCEPT !.pc = "emit", !.snap = EmptyMap])
    /\ UNCHANGED <<redis, log, calls, epoch, committed>>

-----------------------------------------------------------------------------
(* tryUpdateComponentWithProjectionGuard: one conditional UPDATE, and only *)
(* a winner touches Redis and publishes.                                   *)

GuardWrite(p) ==
    LET k == call[p] IN
    /\ At(p, "guard.write")
    /\ IF GuardMatches(k.comp, k.expect)
       THEN /\ GuardedUpdate(k.comp, k.val)
            /\ committed' = IF k.comp \in Persistent
                            THEN committed \cup {<<k.comp, k.val>>}
                            ELSE committed
            /\ Goto(p, [k EXCEPT !.pc = "guard.set"])
       ELSE UNCHANGED <<row, committed>> /\ Return(p)
    /\ UNCHANGED <<redis, log, calls, faults, epoch>>

GuardSet(p) ==
    /\ At(p, "guard.set")
    /\ redis' = [redis EXCEPT ![call[p].comp] = call[p].val]
    /\ Goto(p, [call[p] EXCEPT !.pc = "emit"])
    /\ UNCHANGED <<row, log, calls, faults, epoch, committed>>

-----------------------------------------------------------------------------
EventType(op) == CASE op = "add" -> "ADDED"
                   [] op = "remove" -> "REMOVED"
                   [] OTHER -> "UPDATED"

Emit(p) ==
    LET k == call[p] IN
    /\ At(p, "emit")
    /\ log' = Append(log, [type |-> EventType(k.op), comp |-> k.comp,
                           val |-> IF k.op = "remove" THEN k.found ELSE k.val,
                           epoch |-> k.epoch])
    /\ Return(p)
    /\ UNCHANGED <<row, redis, calls, faults, epoch, committed>>

(* A request whose error is rethrown fails, before or after it took effect *)
(* on the server, or the caller's process dies: the call ends where it is. *)
Abort(p) ==
    /\ ~At(p, "idle")
    /\ Fault
    /\ Return(p)
    /\ UNCHANGED <<row, redis, log, calls, epoch, committed>>

Read(p)   == GetRedis(p) \/ GetJsonb(p) \/ GetColumns(p) \/ GetWarm(p)
Probe(p)  == HasRedis(p) \/ HasJsonb(p) \/ HasWarm(p) \/ HasColumns(p)
Save(p)   == \/ ColumnsFind(p) \/ ColumnsUpdate(p) \/ ColumnsInsert(p)
             \/ JsonbFind(p) \/ JsonbUpdate(p) \/ JsonbInsert(p)
Remove(p) == \/ RemoveDel(p) \/ RemoveColumns(p)
             \/ RemoveFind(p) \/ RemoveJsonb(p)
Guard(p)  == GuardWrite(p) \/ GuardSet(p)

(* The progress of a call in flight.                                       *)
Step(p) == \/ Read(p) \/ Probe(p) \/ UpsertCheck(p) \/ AddClaim(p)
           \/ UpdateSet(p) \/ Save(p) \/ Remove(p) \/ Guard(p) \/ Emit(p)

Next == \E p \in Procs : Start(p) \/ Step(p) \/ Abort(p)

Spec == Init /\ [][Next]_vars

-----------------------------------------------------------------------------
(* Properties of every interleaving, with failures.                        *)

(* A component is announced as created once per life: between two ADDED    *)
(* events of a component its Redis entry was deleted, whichever callers    *)
(* raced in addComponent and upsertComponent (hSetNX decides, and no path  *)
(* but a removal gives the field up).  An event carries the epoch in which *)
(* its addComponent won.                                                   *)
AnnouncedOnce ==
    \A i, j \in 1..Len(log) :
        /\ log[i].type = "ADDED" /\ log[j].type = "ADDED"
        /\ log[i].comp = log[j].comp
        /\ i # j
        => log[i].epoch # log[j].epoch

(* A subscriber never hears of a value of a persistent component that the  *)
(* database has not held: whatever fails, add, update and guarded update   *)
(* publish after the JSONB statement that stored the value committed.      *)
EventsAreDurable ==
    \A i \in 1..Len(log) :
        log[i].type # "REMOVED" /\ log[i].comp \in Persistent
        => <<log[i].comp, log[i].val>> \in committed

-----------------------------------------------------------------------------
(* Vocabulary of the properties of undisturbed callers.                    *)

Quiet == \A p \in Procs : At(p, "idle")

(* What getComponent returns to a caller that nobody disturbs.             *)
Effective(c) == IF redis[c] # Null THEN redis[c]
                ELSE IF components[c] # Null THEN components[c]
                ELSE FromColumn(columns[c])
=============================================================================
