---------------------- MODULE ComponentRefinementProofs ---------------------
(***************************************************************************)
(* Proof that ComponentManager, called by one caller whose requests do not *)
(* fail, implements ComponentStore, and that its stores agree whenever     *)
(* that caller awaits nothing.                                             *)
(*                                                                         *)
(* The inductive invariant, TurnInv, says what every call and every batch  *)
(* knows of its components at each request, and how far Redis, the JSONB   *)
(* map and the columns have drifted apart by then.  Each step of the       *)
(* manager is shown to keep it and to be, under the refinement mapping, a  *)
(* Change, a Publish or nothing.                                           *)
(***************************************************************************)
EXTENDS ComponentRefinement, ComponentBatchProofs

(* One caller, and no request fails; columns are nullable and have no      *)
(* DEFAULT.                                                                *)
Undisturbed(p) == /\ Procs = {p} /\ MaxFaults = 0
                  /\ Nullable /\ ColumnDefault = Null

LEMMA TheCaller ==
    ASSUME NEW p, Undisturbed(p)
    PROVE  /\ p \in Procs /\ Caller = p /\ \A q \in Procs : q = p
           /\ ~Fault \/ faults \notin Nat
<1>1. p \in Procs /\ \A q \in Procs : q = p
  BY DEF Undisturbed
<1>2. Caller = p
  BY <1>1 DEF Caller
<1>3. ~Fault \/ faults \notin Nat
  BY DEF Fault, Undisturbed
<1>4. QED BY <1>1, <1>2, <1>3

(* What the store holds of c, and what it has still to publish, while the  *)
(* caller is at k and b.                                                   *)
ValueAt(k, b, c) ==
    IF Announcing(k) /\ k.op = "remove" /\ k.comp = c THEN Null
    ELSE IF b.pc = "hset" /\ c \in Listed(b) THEN b.found[c]
    ELSE Effective(c)

PendingAt(k, b) == IF Announcing(k) THEN <<EventOf(k)>>
                   ELSE IF b.pc = "emit" THEN Untagged(BatchEvents(b))
                   ELSE <<>>

LEMMA StoreStutters ==
    ASSUME NEW p, Undisturbed(p),
           \A c \in Comps : ValueAt(call[p], batch[p], c)'
                              = ValueAt(call[p], batch[p], c),
           PendingAt(call[p], batch[p])' = PendingAt(call[p], batch[p]),
           UNCHANGED log
    PROVE  [Store!Next]_Store!storeVars
<1>1. \A c \in Comps : AbstractValue(Caller, c)' = AbstractValue(Caller, c)
  BY TheCaller DEF AbstractValue, AbstractPending, ValueAt, BatchAt
<1>2. AbstractPending(Caller)' = AbstractPending(Caller)
  BY TheCaller DEF AbstractPending, PendingAt, BatchAt
<1>3. Untagged(log)' = Untagged(log)
  BY DEF Untagged
<1>4. QED BY <1>1, <1>2, <1>3 DEF Store!storeVars, Contents, Unpublished, Published

LEMMA StorePublishes ==
    ASSUME NEW p, Undisturbed(p),
           \A c \in Comps : ValueAt(call[p], batch[p], c)'
                              = ValueAt(call[p], batch[p], c),
           PendingAt(call[p], batch[p]) # <<>>,
           PendingAt(call[p], batch[p])' = <<>>,
           Untagged(log)' = Untagged(log) \o PendingAt(call[p], batch[p])
    PROVE  Store!Publish
<1>1. \A c \in Comps : AbstractValue(Caller, c)' = AbstractValue(Caller, c)
  BY TheCaller DEF AbstractValue, AbstractPending, ValueAt, BatchAt
<1>2. /\ AbstractPending(Caller) = PendingAt(call[p], batch[p])
      /\ AbstractPending(Caller)' = <<>>
  BY TheCaller DEF AbstractPending, PendingAt, BatchAt
<1>3. QED BY <1>1, <1>2 DEF Store!Publish, Contents, Unpublished, Published

(* A change tells of each component it concerns once, and truly.           *)
Told(e, old, new) ==
    CASE e.type = "ADDED"   -> old = Null /\ new = e.val
      [] e.type = "UPDATED" -> old # Null /\ new = e.val
      [] e.type = "REMOVED" -> old = e.val /\ new = Null

LEMMA StoreChanges ==
    ASSUME NEW p, Undisturbed(p), UNCHANGED log,
           PendingAt(call[p], batch[p]) = <<>>,
           NEW s \in Seq(Store!Events), s # <<>>,
           PendingAt(call[p], batch[p])' = s,
           \A i, j \in 1..Len(s) : i # j => s[i].comp # s[j].comp,
           \A i \in 1..Len(s) :
             /\ s[i].comp \in Comps
             /\ Told(s[i], ValueAt(call[p], batch[p], s[i].comp),
                     ValueAt(call[p], batch[p], s[i].comp)'),
           \A c \in Comps : (\A i \in 1..Len(s) : s[i].comp # c)
             => ValueAt(call[p], batch[p], c)' = ValueAt(call[p], batch[p], c)
    PROVE  Store!Change
<1>1. \A c : /\ AbstractValue(Caller, c) = ValueAt(call[p], batch[p], c)
             /\ AbstractValue(Caller, c)' = ValueAt(call[p], batch[p], c)'
  BY TheCaller DEF AbstractValue, AbstractPending, ValueAt, BatchAt
<1>2. /\ AbstractPending(Caller) = <<>>
      /\ AbstractPending(Caller)' = s
  BY TheCaller DEF AbstractPending, PendingAt, BatchAt
<1>3. Untagged(log)' = Untagged(log)
  BY DEF Untagged
<1>4. ASSUME NEW i \in 1..Len(s) PROVE Store!Tells(s[i])
  <2>1. PICK d \in Comps : d = s[i].comp
    OBVIOUS
  <2>2. Told(s[i], AbstractValue(Caller, d), AbstractValue(Caller, d)')
    BY <1>1, <2>1
  <2>3. QED BY <2>1, <2>2 DEF Store!Tells, Told, Contents, Unpublished, Published
<1>5. QED BY <1>1, <1>2, <1>3, <1>4 DEF Store!Change, Contents, Unpublished, Published

(* What StoresAgree demands of a component of which Redis holds r, when    *)
(* columns are nullable and have no DEFAULT; and what of it outlasts a     *)
(* half-made change.                                                       *)
Placed(c) ==
    /\ c \notin Persistent => components[c] = Null
    /\ c \notin Projected => columns[c] = Null
    /\ ~exists => components[c] = Null /\ columns[c] = Null

Sound(c, r) ==
    /\ Placed(c)
    /\ c \in Persistent /\ r # Null => components[c] = r
    /\ c \in Persistent \cap Projected =>
         columns[c] = IF components[c] # Null THEN components[c].key ELSE Null
    /\ c \in Projected \ Persistent /\ r # Null => columns[c] = r.key

Settled == \A c \in Comps : Sound(c, redis[c])

(* A call that has begun to change its component.                          *)
SavingPCs == SavePCs \cup {"guard.set", "remove.find", "remove.jsonb"}

(* What a call knows of its component.                                     *)
ReadKnows(k) ==
    LET c == k.comp IN
    /\ k.pc \in {"has.jsonb", "get.jsonb"} => redis[c] = Null /\ c \in Persistent
    /\ k.pc = "has.columns" =>
         redis[c] = Null /\ c \in Projected /\ components[c] = Null
    /\ k.pc = "get.columns" =>
         redis[c] = Null /\ c \in Projected /\ components[c] = Null
    /\ k.pc \in {"has.warm", "get.warm"} =>
         redis[c] = Null /\ k.found = Effective(c)

GotKnows(k) ==
    LET c == k.comp IN
    /\ k.pc \in {"fetched", "remove.del", "upsert.check", "update.set"} =>
         k.found = redis[c] /\ Effective(c) = redis[c]
    /\ k.pc \in {"upsert.check", "update.set"} => redis[c] # Null
    /\ k.pc = "add.claim" => Effective(c) = Null
    /\ k.pc = "guard.write" => c \in Projected /\ Effective(c) = redis[c]
    /\ k.op = "guard" => k.expect \in Keys

SaveKnows(k) ==
    LET c == k.comp IN
    /\ k.pc \in SavePCs => redis[c] = k.val
    /\ k.pc \in {"columns.find", "columns.update", "columns.insert"} =>
         c \in Projected
    /\ k.pc \in {"jsonb.find", "jsonb.update", "jsonb.insert"} =>
         c \in Persistent /\ (c \in Projected => columns[c] = k.val.key)
    /\ k.pc \in {"columns.update", "jsonb.update"} => exists
    /\ k.pc \in {"columns.insert", "jsonb.insert"} => ~exists
    /\ k.pc = "jsonb.update" => k.snap = components
    /\ k.pc = "guard.set" => redis[c] # Null /\ Sound(c, k.val)

RemoveKnows(k) ==
    LET c == k.comp IN
    /\ k.pc \in {"remove.columns", "remove.find", "remove.jsonb"} =>
         redis[c] = Null
    /\ k.pc = "remove.columns" => c \in Projected
    /\ k.pc \in {"remove.find", "remove.jsonb"} =>
         c \in Persistent /\ columns[c] = Null
    /\ k.pc = "remove.jsonb" => k.snap = components /\ components[c] # Null
    /\ k.pc = "emit" /\ k.op = "remove" => Effective(c) = Null
    /\ k.pc = "emit" /\ k.op # "remove" => redis[c] = k.val

Knows(k) == ReadKnows(k) /\ GotKnows(k) /\ SaveKnows(k) /\ RemoveKnows(k)

(* What a batch knows of its components.                                   *)
Looked(b) == \A c \in Listed(b) \ b.todo : b.found[c] = Effective(c)

Prepared(b) == \A c \in Listed(b) : b.found[c] = Effective(c)

BatchKnows(b) ==
    /\ b.pc \in {"fetch", "names", "columns"} => Looked(b)
    /\ b.pc \in {"names", "columns"} =>
         \A c \in b.todo : b.found[c] = Null /\ redis[c] = Null
    /\ b.pc = "columns" => b.todo \cap Persistent = {}
    /\ b.pc \in {"check", "find", "update", "insert"} => Prepared(b)
    /\ b.pc = "update" => exists /\ b.snap = components
    /\ b.pc = "insert" => ~exists
    /\ b.pc # "update" => b.snap = EmptyMap

Turn(k, b) ==
    /\ Knows(k) /\ BatchKnows(b)
    /\ IF k.pc \in SavingPCs
       THEN /\ Placed(k.comp)
            /\ \A c \in Comps \ {k.comp} : Sound(c, redis[c])
       ELSE IF b.pc = "hset"
       THEN \A c \in Comps : Sound(c, IF c \in Listed(b) THEN ValueIn(b, c)
                                      ELSE redis[c])
       ELSE Settled

TurnInv(p) == BatchInv /\ faults = 0 /\ Turn(call[p], batch[p])

-----------------------------------------------------------------------------
LEMMA EffectiveType ==
    ASSUME TypeOK, NEW c \in Comps PROVE Effective(c) \in OptValue
BY FromColumnType DEF TypeOK, RowTypeOK, Effective, OptKey

LEMMA SettledAgrees ==
    ASSUME NEW p, Undisturbed(p), TypeOK
    PROVE  (\A c \in Comps : StoresAgree(c)) <=> Settled
BY DEF Undisturbed, StoresAgree, Settled, Sound, Placed, TypeOK, RowTypeOK

(* What there is to know of a settled component.                           *)
LEMMA SoundFacts ==
    ASSUME TypeOK, NEW c \in Comps, Sound(c, redis[c])
    PROVE  /\ redis[c] = Null /\ c \notin Persistent \cup Projected
                => Effective(c) = Null
           /\ redis[c] = Null /\ c \in Persistent /\ components[c] = Null
                => Effective(c) = Null
           /\ c \notin Persistent => components[c] = Null
           /\ c \notin Projected => columns[c] = Null
           /\ redis[c] # Null => Effective(c) = redis[c]
           /\ Sound(c, Effective(c))
           /\ c \in Projected /\ redis[c] = Null /\ Effective(c) = Null
                => columns[c] = Null
<1>1. /\ c \notin Persistent => components[c] = Null
      /\ c \notin Projected => columns[c] = Null
      /\ c \in Persistent \cap Projected /\ components[c] = Null
           => columns[c] = Null
  BY DEF Sound, Placed
<1>2. columns[c] \in OptKey
  BY DEF TypeOK, RowTypeOK
<1>3. FromColumn(columns[c]) = Null <=> columns[c] = Null
  BY <1>2, FromColumnType, NullIsNoValue DEF FromColumn
<1>4. redis[c] # Null => Effective(c) = redis[c]
  BY DEF Effective
<1>5. redis[c] = Null =>
        Effective(c) = IF components[c] # Null THEN components[c]
                       ELSE FromColumn(columns[c])
  BY DEF Effective
<1>6. columns[c] # Null => FromColumn(columns[c]).key = columns[c]
  BY DEF FromColumn
<1>7. Sound(c, Effective(c))
  BY <1>1, <1>3, <1>4, <1>5, <1>6 DEF Sound
<1>8. QED BY <1>1, <1>3, <1>4, <1>5, <1>7

LEMMA Warmed ==
    ASSUME TypeOK, Settled, NEW c \in Comps, NEW x, x = Effective(c),
           x # Null, redis[c] = Null, redis' = [redis EXCEPT ![c] = x],
           UNCHANGED row
    PROVE  /\ Settled' /\ redis'[c] = x
           /\ \A d \in Comps : Effective(d)' = Effective(d)
<1>1. redis'[c] = x /\ \A d \in Comps : d # c => redis'[d] = redis[d]
  BY DEF TypeOK
<1>2. UNCHANGED <<exists, components, columns>>
  BY DEF row
<1>3. Effective(c)' = x
  BY <1>1 DEF Effective
<1>4. ASSUME NEW d \in Comps, d # c PROVE Effective(d)' = Effective(d)
  BY <1>1, <1>2, <1>4 DEF Effective
<1>5. \A d \in Comps : Sound(d, redis'[d])
  BY <1>1, SoundFacts DEF Settled
<1>6. Settled'
  BY <1>2, <1>5 DEF Settled, Sound, Placed
<1>7. QED BY <1>1, <1>3, <1>4, <1>6

LEMMA TurnFrame ==
    ASSUME NEW k, NEW b, UNCHANGED <<exists, components, columns, redis>>,
           Turn(k, b)
    PROVE  Turn(k, b)'
<1>1. \A c : Effective(c)' = Effective(c)
  BY DEF Effective
<1>2. \A c, r : Sound(c, r)' = Sound(c, r)
  BY DEF Sound, Placed
<1>3. Knows(k)'
  BY <1>1, <1>2 DEF Turn, Knows, ReadKnows, GotKnows, SaveKnows, RemoveKnows
<1>4. BatchKnows(b)'
  BY <1>1 DEF Turn, BatchKnows, Looked, Prepared
<1>5. QED BY <1>2, <1>3, <1>4 DEF Turn, Settled, Placed

(* A call that only reads or has not begun to change anything.             *)
Looking(k) == k.pc \notin SavingPCs \cup {"emit", "remove.columns"}

LEMMA LookingIsSilent ==
    ASSUME NEW k, Looking(k)
    PROVE  ~Announcing(k) /\ k.pc \notin SavingPCs
BY DEF Looking, Announcing, SavingPCs, SavePCs

LEMMA AfterGetShape ==
    ASSUME NEW k \in Calls, NEW x, NEW n, n = AfterGet(k, x)
    PROVE  \/ n = NoCall
           \/ /\ n.comp = k.comp /\ n.expect = k.expect
              /\ n.op = "guard" => k.op = "guard"
              /\ n.pc \in {"has.redis", "get.redis", "upsert.check",
                           "update.set", "remove.del", "guard.write",
                           "fetched"}
              /\ n.pc \in {"upsert.check", "update.set", "remove.del",
                           "fetched"} => n.found = x
              /\ n.pc \in {"upsert.check", "update.set"} => x # Null
              /\ n.pc = "guard.write" => n.comp \in Projected
BY DEF AfterGet, Calls

(* getComponent returned what is in Redis, and the component is worth it.  *)
LEMMA GotIsKnown ==
    ASSUME NEW k \in Calls, NEW x, NEW n, n = AfterGet(k, x),
           k.op = "guard" => k.expect \in Keys,
           NEW c, c = k.comp, redis'[c] = x, Effective(c)' = x
    PROVE  Knows(n)' /\ Looking(n)
<1>1. CASE n = NoCall
  BY <1>1 DEF NoCall, Knows, ReadKnows, GotKnows, SaveKnows, RemoveKnows,
              SavePCs, SavingPCs, Looking
<1>2. CASE n # NoCall
  <2>1. /\ n.comp = k.comp /\ n.expect = k.expect
        /\ n.op = "guard" => k.op = "guard"
        /\ n.pc \in {"has.redis", "get.redis", "upsert.check",
                     "update.set", "remove.del", "guard.write",
                     "fetched"}
        /\ n.pc \in {"upsert.check", "update.set", "remove.del",
                     "fetched"} => n.found = x
        /\ n.pc \in {"upsert.check", "update.set"} => x # Null
        /\ n.pc = "guard.write" => n.comp \in Projected
    BY <1>2, AfterGetShape
  <2>2. ReadKnows(n)' /\ SaveKnows(n)' /\ RemoveKnows(n)' /\ Looking(n)
    BY <2>1 DEF ReadKnows, SaveKnows, RemoveKnows, SavePCs, SavingPCs, Looking
  <2>3. GotKnows(n)'
    BY <2>1 DEF GotKnows
  <2>4. QED BY <2>2, <2>3 DEF Knows
<1>3. QED BY <1>1, <1>2

LEMMA TurnFacts ==
    ASSUME NEW p, Undisturbed(p), TurnInv(p)
    PROVE  /\ p \in Procs /\ TypeOK /\ ~Fault
           /\ call[p] \in Calls /\ CallOK(call[p])
           /\ batch[p] \in Batches /\ BatchOK(batch[p])
           /\ Paired(call[p], batch[p])
           /\ ~At(p, "idle") => /\ call[p].comp \in Comps
                                /\ batch[p].pc \in {"idle", "fetch"}
           /\ call[p].op \in AllOps => batch[p] = NoBatch
           /\ \A k : Goto(p, k) => call'[p] = k
<1>1. p \in Procs /\ TypeOK
  BY TheCaller DEF TurnInv, BatchInv, BatchTypeOK
<1>2. ~Fault
  BY TheCaller DEF TurnInv, Fault, Undisturbed
<1>3. /\ call[p] \in Calls /\ CallOK(call[p])
      /\ ~At(p, "idle") => call[p].comp \in Comps
  BY <1>1, CallFacts
<1>4. /\ batch[p] \in Batches /\ BatchOK(batch[p])
      /\ Paired(call[p], batch[p])
  BY <1>1, BatchFacts DEF TurnInv
<1>5. ~At(p, "idle") => batch[p].pc \in {"idle", "fetch"}
  BY <1>4 DEF Paired, At, NoCall, NoBatch
<1>6. call[p].op \in AllOps => batch[p] = NoBatch
  BY <1>4 DEF Paired, NoCall, AllOps
<1>7. \A k : Goto(p, k) => call'[p] = k
  BY <1>1 DEF Goto, TypeOK
<1>8. QED BY <1>1, <1>2, <1>3, <1>4, <1>5, <1>6, <1>7

(* A step that keeps the invariant and is one of the store, or none.       *)
Implements(p) == /\ Turn(call[p], batch[p])' /\ faults' = 0
                 /\ [Store!Next]_Store!storeVars

(* A step of a single call that leaves what every component is worth.      *)
LEMMA ReadCloses ==
    ASSUME NEW p, Undisturbed(p), TurnInv(p), ~At(p, "idle") \/ batch[p] = NoBatch,
           NEW n, call'[p] = n, UNCHANGED <<row, log, batch, faults>>,
           Looking(call[p]), Looking(n), Settled', Knows(n)',
           \A c \in Comps : Effective(c)' = Effective(c)
    PROVE  Implements(p)
<1>1. PICK b : b = batch[p]
  OBVIOUS
<1>2. /\ b \in Batches /\ b.pc \in {"idle", "fetch"} /\ batch'[p] = b
  BY <1>1, TurnFacts DEF NoBatch
<1>3. BatchKnows(b)
  BY <1>1 DEF TurnInv, Turn
<1>4. BatchKnows(b)'
  BY <1>2, <1>3, ListFacts DEF BatchKnows, Looked
<1>5. Turn(n, b)'
  BY <1>2, <1>4, LookingIsSilent DEF Turn
<1>6. Turn(call[p], batch[p])' /\ faults' = 0
  BY <1>2, <1>5 DEF TurnInv
<1>7. ~Announcing(call[p]) /\ ~Announcing(n)
  BY LookingIsSilent
<1>8. \A c \in Comps : ValueAt(call[p], batch[p], c)'
                         = ValueAt(call[p], batch[p], c)
  BY <1>1, <1>2, <1>7 DEF ValueAt
<1>9. PendingAt(call[p], batch[p])' = PendingAt(call[p], batch[p])
  BY <1>1, <1>2, <1>7 DEF PendingAt
<1>10. QED BY <1>6, <1>8, <1>9, StoreStutters DEF Implements

(* The same without a word to Redis.                                       *)
LEMMA LookCloses ==
    ASSUME NEW p, Undisturbed(p), TurnInv(p), ~At(p, "idle") \/ batch[p] = NoBatch,
           NEW n, call'[p] = n, UNCHANGED <<row, redis, log, batch, faults>>,
           Looking(call[p]), Looking(n), Knows(n)
    PROVE  Implements(p)
<1>1. UNCHANGED <<exists, components, columns, redis>>
  BY DEF row
<1>2. \A c \in Comps : Effective(c)' = Effective(c)
  BY <1>1 DEF Effective
<1>3. Turn(n, NoBatch)
  <2>1. BatchKnows(NoBatch)
    BY DEF BatchKnows, NoBatch
  <2>2. Settled
    <3>1. batch[p].pc # "hset"
      BY TurnFacts DEF NoBatch
    <3>2. QED BY <3>1, LookingIsSilent DEF TurnInv, Turn
  <2>3. QED BY <2>1, <2>2, LookingIsSilent DEF Turn, NoBatch
<1>4. Turn(n, NoBatch)'
  BY <1>1, <1>3, TurnFrame
<1>5. Settled' /\ Knows(n)'
  BY <1>4, LookingIsSilent DEF Turn, NoBatch
<1>6. QED BY <1>1, <1>2, <1>5, ReadCloses

LEMMA NothingKnown == Knows(NoCall) /\ Looking(NoCall)
BY DEF NoCall, Knows, ReadKnows, GotKnows, SaveKnows, RemoveKnows,
       SavePCs, SavingPCs, Looking

LEMMA StartTurn ==
    ASSUME NEW p, Undisturbed(p), TurnInv(p), batch[p] = NoBatch, Start(p),
           UNCHANGED batch
    PROVE  Implements(p)
<1>1. PICK op \in Ops, c \in Comps, v \in Values, e \in Keys :
         Goto(p, [op |-> op, comp |-> c,
                  val |-> IF op \in {"get", "has", "remove"} THEN Null ELSE v,
                  expect |-> IF op = "guard" THEN e ELSE Null,
                  pc |-> IF op \in {"add", "has"} THEN "has.redis"
                         ELSE "get.redis",
                  found |-> Null, snap |-> EmptyMap, epoch |-> 0])
  BY DEF Start
<1>2. PICK n : n = [op |-> op, comp |-> c,
                  val |-> IF op \in {"get", "has", "remove"} THEN Null ELSE v,
                  expect |-> IF op = "guard" THEN e ELSE Null,
                  pc |-> IF op \in {"add", "has"} THEN "has.redis"
                         ELSE "get.redis",
                  found |-> Null, snap |-> EmptyMap, epoch |-> 0]
  OBVIOUS
<1>3. call'[p] = n
  BY <1>1, <1>2, TurnFacts
<1>4. n.pc \in {"has.redis", "get.redis"} /\ (n.op = "guard" => n.expect \in Keys)
  BY <1>2
<1>5. Knows(n) /\ Looking(n)
  BY <1>4 DEF Knows, ReadKnows, GotKnows, SaveKnows, RemoveKnows,
              SavePCs, SavingPCs, Looking
<1>6. call[p] = NoCall
  BY DEF Start
<1>7. QED BY <1>3, <1>5, <1>6, NothingKnown, LookCloses DEF Start

(* What a call that reads finds.                                           *)
LEMMA LookingFacts ==
    ASSUME NEW p, Undisturbed(p), TurnInv(p), Looking(call[p]),
           ~At(p, "idle"), NEW c, c = call[p].comp
    PROVE  /\ Settled /\ c \in Comps
           /\ redis[c] = Null /\ c \notin Persistent \cup Projected
                => Effective(c) = Null
           /\ redis[c] = Null /\ c \in Persistent /\ components[c] = Null
                => Effective(c) = Null
           /\ redis[c] = Null /\ components[c] # Null
                => Effective(c) = components[c]
           /\ redis[c] = Null /\ components[c] = Null
                => Effective(c) = FromColumn(columns[c])
           /\ redis[c] # Null => Effective(c) = redis[c]
           /\ c \notin Persistent => components[c] = Null
           /\ c \notin Projected => columns[c] = Null
           /\ FromColumn(columns[c]) = Null <=> columns[c] = Null
           /\ c \in Projected /\ redis[c] = Null /\ Effective(c) = Null
                => columns[c] = Null
           /\ Effective(c) \in OptValue /\ redis[c] \in OptValue
<1>1. Settled
  BY TurnFacts, LookingIsSilent DEF TurnInv, Turn
<1>2. c \in Comps /\ TypeOK
  BY TurnFacts
<1>3. Sound(c, redis[c])
  BY <1>1, <1>2 DEF Settled
<1>4. columns[c] \in OptKey /\ redis[c] \in OptValue
  BY <1>2 DEF TypeOK, RowTypeOK
<1>5. FromColumn(columns[c]) = Null <=> columns[c] = Null
  BY <1>4, FromColumnType, NullIsNoValue DEF FromColumn
<1>6. /\ redis[c] = Null /\ components[c] # Null => Effective(c) = components[c]
      /\ redis[c] = Null /\ components[c] = Null
           => Effective(c) = FromColumn(columns[c])
  BY DEF Effective
<1>7. QED BY <1>1, <1>2, <1>3, <1>4, <1>5, <1>6, SoundFacts, EffectiveType

LEMMA ProbeTurn ==
    ASSUME NEW p, Undisturbed(p), TurnInv(p), Probe(p), UNCHANGED batch
    PROVE  Implements(p)
<1> DEFINE k == call[p]  c == call[p].comp
<1>1. /\ ~At(p, "idle") /\ Looking(k)
      /\ k.pc \in {"has.redis", "has.jsonb", "has.warm", "has.columns"}
  BY DEF Probe, HasRedis, HasJsonb, HasWarm, HasColumns, At, Looking,
         SavingPCs, SavePCs
<1>2. /\ TypeOK /\ ~Fault /\ k \in Calls /\ CallOK(k) /\ Knows(k)
      /\ \A n : Goto(p, n) => call'[p] = n
  BY TurnFacts DEF TurnInv, Turn
<1>3. PICK a : a = [k EXCEPT !.pc = "add.claim"]
  OBVIOUS
<1>4. PICK j : j = [k EXCEPT !.pc = "has.jsonb"]
  OBVIOUS
<1>5. PICK l : l = [k EXCEPT !.pc = "has.columns"]
  OBVIOUS
<1>6. /\ a.comp = c /\ a.pc = "add.claim" /\ a.op = k.op
      /\ j.comp = c /\ j.pc = "has.jsonb" /\ j.op = k.op
      /\ l.comp = c /\ l.pc = "has.columns" /\ l.op = k.op
  BY <1>2, <1>3, <1>4, <1>5 DEF Calls
<1>7. k.op \in {"has", "add"}
  BY <1>1, <1>2 DEF CallOK
<1>8. Looking(a) /\ Looking(j) /\ Looking(l)
  BY <1>6 DEF Looking, SavingPCs, SavePCs
<1>9. /\ Effective(c) = Null => Knows(a)
      /\ redis[c] = Null /\ c \in Persistent => Knows(j)
      /\ redis[c] = Null /\ c \in Projected /\ components[c] = Null => Knows(l)
  BY <1>6, <1>7 DEF Knows, ReadKnows, GotKnows, SaveKnows, RemoveKnows, SavePCs
<1>10. /\ Effective(c) = Null => /\ Knows(AfterAbsent(k))
                                 /\ Looking(AfterAbsent(k))
  BY <1>3, <1>8, <1>9, NothingKnown DEF AfterAbsent
<1>11. CASE HasRedis(p)
  <2>1. PICK n : n = IF redis[c] # Null THEN NoCall
                     ELSE IF c \in Persistent THEN j
                     ELSE IF c \in Projected THEN l
                     ELSE AfterAbsent(k)
    OBVIOUS
  <2>2. call'[p] = n /\ UNCHANGED <<row, redis, log, batch, faults>>
    BY <1>2, <1>4, <1>5, <1>11, <2>1 DEF HasRedis
  <2>3. Knows(n) /\ Looking(n)
    BY <1>1, <1>8, <1>9, <1>10, <2>1, LookingFacts, NothingKnown
  <2>4. QED BY <1>1, <2>2, <2>3, LookCloses
<1>12. CASE HasJsonb(p)
  <2>1. redis[c] = Null /\ c \in Persistent
    BY <1>2, <1>12 DEF HasJsonb, At, Knows, ReadKnows
  <2>2. PICK x : x = components[c]
    OBVIOUS
  <2>3. PICK w : w = [k EXCEPT !.pc = "has.warm", !.found = x]
    OBVIOUS
  <2>4. w.comp = c /\ w.pc = "has.warm" /\ w.found = x /\ w.op = k.op
    BY <1>2, <2>3 DEF Calls
  <2>5. x # Null => Knows(w)
    BY <1>1, <1>7, <2>1, <2>2, <2>4, LookingFacts
       DEF Knows, ReadKnows, GotKnows, SaveKnows, RemoveKnows, SavePCs
  <2>6. Looking(w)
    BY <2>4 DEF Looking, SavingPCs, SavePCs
  <2>7. PICK n : n = IF x # Null THEN w ELSE AfterAbsent(k)
    OBVIOUS
  <2>8. call'[p] = n /\ UNCHANGED <<row, redis, log, batch, faults>>
    BY <1>2, <1>12, <2>2, <2>3, <2>7 DEF HasJsonb, LoadComponentFromJsonb, Ok
  <2>9. x = Null => Effective(c) = Null
    BY <1>1, <2>1, <2>2, LookingFacts
  <2>10. Knows(n) /\ Looking(n)
    BY <1>10, <2>5, <2>6, <2>7, <2>9
  <2>11. QED BY <1>1, <2>8, <2>10, LookCloses
<1>13. CASE HasWarm(p)
  <2>1. PICK x : x = k.found
    OBVIOUS
  <2>2. redis[c] = Null /\ x = Effective(c) /\ x # Null
    BY <1>2, <1>13, <2>1 DEF HasWarm, At, Knows, ReadKnows, CallOK
  <2>3. /\ redis' = [redis EXCEPT ![c] = x] /\ call'[p] = NoCall
        /\ UNCHANGED <<row, log, batch, faults>>
    BY <1>2, <1>13, <2>1 DEF HasWarm, Return
  <2>4. Settled /\ c \in Comps
    BY <1>1, LookingFacts
  <2>5. Settled' /\ \A d \in Comps : Effective(d)' = Effective(d)
    BY <1>2, <2>2, <2>3, <2>4, Warmed
  <2>6. Knows(NoCall)'
    BY DEF NoCall, Knows, ReadKnows, GotKnows, SaveKnows, RemoveKnows, SavePCs
  <2>7. QED BY <1>1, <2>3, <2>5, <2>6, NothingKnown, ReadCloses
<1>14. CASE HasColumns(p)
  <2>1. redis[c] = Null /\ c \in Projected /\ components[c] = Null
    BY <1>2, <1>14 DEF HasColumns, At, Knows, ReadKnows
  <2>2. PICK n : n = IF columns[c] # Null THEN NoCall ELSE AfterAbsent(k)
    OBVIOUS
  <2>3. call'[p] = n /\ UNCHANGED <<row, redis, log, batch, faults>>
    BY <1>2, <1>14, <2>1, <2>2 DEF HasColumns, LoadPersistentProperties, Ok
  <2>4. columns[c] = Null => Effective(c) = Null
    BY <1>1, <2>1, LookingFacts
  <2>5. Knows(n) /\ Looking(n)
    BY <1>10, <2>2, <2>4, NothingKnown
  <2>6. QED BY <1>1, <2>3, <2>5, LookCloses
<1>15. QED BY <1>11, <1>12, <1>13, <1>14 DEF Probe

LEMMA ReadTurn ==
    ASSUME NEW p, Undisturbed(p), TurnInv(p), Read(p), UNCHANGED batch
    PROVE  Implements(p)
<1> DEFINE k == call[p]  c == call[p].comp
<1>1. /\ ~At(p, "idle") /\ Looking(k)
      /\ k.pc \in {"get.redis", "get.jsonb", "get.columns", "get.warm"}
  BY DEF Read, GetRedis, GetJsonb, GetColumns, GetWarm, At, Looking,
         SavingPCs, SavePCs
<1>2. /\ TypeOK /\ ~Fault /\ k \in Calls /\ CallOK(k) /\ Knows(k)
      /\ \A n : Goto(p, n) => call'[p] = n
  BY TurnFacts DEF TurnInv, Turn
<1>3. PICK j : j = [k EXCEPT !.pc = "get.jsonb"]
  OBVIOUS
<1>4. PICK l : l = [k EXCEPT !.pc = "get.columns"]
  OBVIOUS
<1>5. k.op = "guard" => k.expect \in Keys
  BY <1>2 DEF Knows, GotKnows
<1>6. /\ j.comp = c /\ j.pc = "get.jsonb" /\ (j.op = "guard" => j.expect \in Keys)
      /\ l.comp = c /\ l.pc = "get.columns" /\ (l.op = "guard" => l.expect \in Keys)
  BY <1>2, <1>3, <1>4, <1>5 DEF Calls
<1>7. Looking(j) /\ Looking(l)
  BY <1>6 DEF Looking, SavingPCs, SavePCs
<1>8. /\ redis[c] = Null /\ c \in Persistent => Knows(j)
      /\ redis[c] = Null /\ c \in Projected /\ components[c] = Null => Knows(l)
  BY <1>6 DEF Knows, ReadKnows, GotKnows, SaveKnows, RemoveKnows, SavePCs
<1>9. ASSUME NEW x, redis[c] = x, Effective(c) = x,
             Goto(p, AfterGet(k, x)), UNCHANGED <<row, redis, log, batch, faults>>
      PROVE  Implements(p)
  <2>1. PICK n : n = AfterGet(k, x)
    OBVIOUS
  <2>2. call'[p] = n
    BY <1>2, <1>9, <2>1
  <2>3. \A d \in Comps : Effective(d)' = Effective(d)
    BY <1>9 DEF Effective, row
  <2>4. Settled /\ c \in Comps
    BY <1>1, LookingFacts
  <2>5. Knows(n)' /\ Looking(n)
    <3>1. PICK m : m = call[p]
      OBVIOUS
    <3>2. PICK d : d = m.comp
      OBVIOUS
    <3>3. redis'[d] = x /\ Effective(d)' = x
      BY <1>9, <2>3, <2>4, <3>1, <3>2
    <3>4. n = AfterGet(m, x) /\ m \in Calls /\ (m.op = "guard" => m.expect \in Keys)
      BY <1>2, <1>5, <2>1, <3>1
    <3>5. QED BY <3>2, <3>3, <3>4, GotIsKnown
  <2>6. Settled'
    BY <1>9, <2>4 DEF Settled, Sound, Placed, row
  <2>7. QED BY <1>1, <1>9, <2>2, <2>3, <2>5, <2>6, ReadCloses
<1>10. ASSUME NEW x, x # Null, redis[c] = Null, Effective(c) = x,
              NEW w, w = [k EXCEPT !.pc = "get.warm", !.found = x],
              Goto(p, w), UNCHANGED <<row, redis, log, batch, faults>>
       PROVE  Implements(p)
  <2>1. /\ w.comp = c /\ w.pc = "get.warm" /\ w.found = x
        /\ w.op = "guard" => w.expect \in Keys
    BY <1>2, <1>5, <1>10 DEF Calls
  <2>2. Knows(w)
    BY <1>10, <2>1
       DEF Knows, ReadKnows, GotKnows, SaveKnows, RemoveKnows, SavePCs
  <2>3. Looking(w)
    BY <2>1 DEF Looking, SavingPCs, SavePCs
  <2>4. QED BY <1>1, <1>2, <1>10, <2>2, <2>3, LookCloses
<1>11. CASE GetRedis(p)
  <2>1. UNCHANGED <<row, redis, log, batch, faults>>
    BY <1>11 DEF GetRedis
  <2>2. CASE redis[c] # Null
    BY <1>1, <1>9, <1>11, <2>1, <2>2, LookingFacts DEF GetRedis
  <2>3. CASE redis[c] = Null /\ c \notin Persistent \cup Projected
    BY <1>1, <1>9, <1>11, <2>1, <2>3, LookingFacts DEF GetRedis
  <2>4. CASE redis[c] = Null /\ c \in Persistent
    <3>1. call'[p] = j
      BY <1>2, <1>3, <1>11, <2>4 DEF GetRedis
    <3>2. QED BY <1>1, <1>7, <1>8, <2>1, <2>4, <3>1, LookCloses
  <2>5. CASE redis[c] = Null /\ c \in Projected \ Persistent
    <3>1. call'[p] = l
      BY <1>2, <1>4, <1>11, <2>5 DEF GetRedis
    <3>2. components[c] = Null
      BY <1>1, <2>5, LookingFacts
    <3>3. QED BY <1>1, <1>7, <1>8, <2>1, <2>5, <3>1, <3>2, LookCloses
  <2>6. QED BY <2>2, <2>3, <2>4, <2>5
<1>12. CASE GetJsonb(p)
  <2>1. redis[c] = Null /\ c \in Persistent
    BY <1>2, <1>12 DEF GetJsonb, At, Knows, ReadKnows
  <2>2. /\ UNCHANGED <<row, redis, log, batch, faults>>
        /\ Goto(p, IF components[c] # Null
                    THEN [k EXCEPT !.pc = "get.warm", !.found = components[c]]
                    ELSE IF c \in Projected
                         THEN [k EXCEPT !.pc = "get.columns"]
                    ELSE AfterGet(k, Null))
    BY <1>2, <1>12 DEF GetJsonb, LoadComponentFromJsonb, Ok
  <2>3. CASE components[c] # Null
    BY <1>1, <1>10, <2>1, <2>2, <2>3, LookingFacts
  <2>4. CASE components[c] = Null /\ c \in Projected
    BY <1>1, <1>2, <1>4, <1>7, <1>8, <2>1, <2>2, <2>4, LookCloses
  <2>5. CASE components[c] = Null /\ c \notin Projected
    BY <1>1, <1>9, <2>1, <2>2, <2>5, LookingFacts
  <2>6. QED BY <2>3, <2>4, <2>5
<1>13. CASE GetColumns(p)
  <2>1. redis[c] = Null /\ c \in Projected /\ components[c] = Null
    BY <1>2, <1>13 DEF GetColumns, At, Knows, ReadKnows
  <2>2. /\ UNCHANGED <<row, redis, log, batch, faults>>
        /\ Goto(p, IF columns[c] # Null
                    THEN [k EXCEPT !.pc = "get.warm",
                                   !.found = FromColumn(columns[c])]
                    ELSE AfterGet(k, Null))
    BY <1>2, <1>13, <2>1 DEF GetColumns, LoadPersistentProperties, Ok
  <2>3. Effective(c) = FromColumn(columns[c])
        /\ (FromColumn(columns[c]) = Null <=> columns[c] = Null)
    BY <1>1, <2>1, LookingFacts
  <2>4. CASE columns[c] # Null
    BY <1>10, <2>1, <2>2, <2>3, <2>4
  <2>5. CASE columns[c] = Null
    BY <1>9, <2>1, <2>2, <2>3, <2>5
  <2>6. QED BY <2>4, <2>5
<1>14. CASE GetWarm(p)
  <2>1. PICK x : x = k.found
    OBVIOUS
  <2>2. redis[c] = Null /\ x = Effective(c) /\ x # Null
    BY <1>2, <1>14, <2>1 DEF GetWarm, At, Knows, ReadKnows, CallOK
  <2>3. PICK n : n = AfterGet(k, x)
    OBVIOUS
  <2>4. /\ redis' = [redis EXCEPT ![c] = x] /\ call'[p] = n
        /\ UNCHANGED <<row, log, batch, faults>>
    BY <1>2, <1>14, <2>1, <2>3 DEF GetWarm
  <2>5. Settled /\ c \in Comps
    BY <1>1, LookingFacts
  <2>6. /\ Settled' /\ redis'[c] = x
        /\ \A d \in Comps : Effective(d)' = Effective(d)
    BY <1>2, <2>2, <2>4, <2>5, Warmed
  <2>7. Knows(n)' /\ Looking(n)
    <3>1. PICK m : m = call[p]
      OBVIOUS
    <3>2. PICK d : d = m.comp
      OBVIOUS
    <3>3. redis'[d] = x /\ Effective(d)' = x
      BY <2>2, <2>5, <2>6, <3>1, <3>2
    <3>4. n = AfterGet(m, x) /\ m \in Calls /\ (m.op = "guard" => m.expect \in Keys)
      BY <1>2, <1>5, <2>3, <3>1
    <3>5. QED BY <3>2, <3>3, <3>4, GotIsKnown
  <2>8. QED BY <1>1, <2>4, <2>6, <2>7, ReadCloses
<1>15. QED BY <1>11, <1>12, <1>13, <1>14 DEF Read

LEMMA UpsertCheckTurn ==
    ASSUME NEW p, Undisturbed(p), TurnInv(p), UpsertCheck(p), UNCHANGED batch
    PROVE  Implements(p)
<1> DEFINE k == call[p]
<1>1. ~At(p, "idle") /\ Looking(k) /\ k.op = "upsert"
  BY TurnFacts DEF UpsertCheck, At, Looking, SavingPCs, SavePCs, CallOK
<1>2. /\ ~Fault /\ k \in Calls /\ \A n : Goto(p, n) => call'[p] = n
  BY TurnFacts
<1>3. PICK u : u = [k EXCEPT !.op = "update", !.pc = "get.redis",
                             !.found = Null]
  OBVIOUS
<1>4. u.pc = "get.redis" /\ u.op = "update"
  BY <1>2, <1>3 DEF Calls
<1>5. Knows(u) /\ Looking(u)
  BY <1>4 DEF Knows, ReadKnows, GotKnows, SaveKnows, RemoveKnows,
              SavePCs, SavingPCs, Looking
<1>6. /\ call'[p] = NoCall \/ call'[p] = u
      /\ UNCHANGED <<row, redis, log, batch, faults>>
  BY <1>2, <1>3 DEF UpsertCheck, Ok
<1>7. QED BY <1>1, <1>5, <1>6, NothingKnown, LookCloses

-----------------------------------------------------------------------------
(* The events.                                                             *)

LEMMA UntaggedFacts ==
    ASSUME NEW s \in Seq(Events)
    PROVE  /\ Untagged(s) \in Seq(Store!Events)
           /\ Len(Untagged(s)) = Len(s)
           /\ \A i \in 1..Len(s) :
                Untagged(s)[i] = [type |-> s[i].type, comp |-> s[i].comp,
                                  val |-> s[i].val]
<1>1. PICK n \in Nat : n = Len(s)
  OBVIOUS
<1>2. ASSUME NEW i \in 1..n
      PROVE  [type |-> s[i].type, comp |-> s[i].comp, val |-> s[i].val]
               \in Store!Events
  <2>1. s[i] \in Events
    BY <1>1, <1>2
  <2>2. QED BY <2>1 DEF Events, Store!Events, OptValue
<1>3. PICK u : u = Untagged(s)
  OBVIOUS
<1>4. u = [i \in 1..n |-> [type |-> s[i].type, comp |-> s[i].comp,
                           val |-> s[i].val]]
  BY <1>1, <1>3 DEF Untagged
<1>5. u \in [1..n -> Store!Events]
  BY <1>2, <1>4
<1>6. u \in Seq(Store!Events) /\ Len(u) = n
  BY <1>5
<1>7. QED BY <1>1, <1>3, <1>4, <1>6

LEMMA Joined ==
    ASSUME NEW S, NEW a \in Seq(S), NEW b \in Seq(S), NEW d \in Seq(S),
           Len(d) = Len(a) + Len(b),
           \A i \in 1..Len(d) : d[i] = (a \o b)[i]
    PROVE  d = a \o b
<1>1. PICK e \in Seq(S) : e = a \o b
  <2>1. a \o b \in Seq(S)
    OBVIOUS
  <2>2. QED BY <2>1
<1>2. Len(e) = Len(d) /\ \A i \in 1..Len(d) : e[i] = d[i]
  BY <1>1
<1>3. e = d
  BY <1>2
<1>4. QED BY <1>1, <1>3

LEMMA UntaggedJoins ==
    ASSUME NEW s \in Seq(Events), NEW t \in Seq(Events)
    PROVE  Untagged(s \o t) = Untagged(s) \o Untagged(t)
<1>1. PICK n \in Nat : n = Len(s)
  OBVIOUS
<1>2. PICK m \in Nat : m = Len(t)
  OBVIOUS
<1>3. PICK r \in Seq(Events) : r = s \o t
  <2>1. s \o t \in Seq(Events)
    OBVIOUS
  <2>2. QED BY <2>1
<1>4. Len(r) = n + m
  BY <1>1, <1>2, <1>3
<1>5. PICK a \in Seq(Store!Events), b \in Seq(Store!Events),
           d \in Seq(Store!Events) :
         a = Untagged(s) /\ b = Untagged(t) /\ d = Untagged(r)
  BY <1>3, UntaggedFacts
<1>6. Len(a) = n /\ Len(b) = m /\ Len(d) = n + m
  BY <1>1, <1>2, <1>4, <1>5, UntaggedFacts
<1>7. ASSUME NEW i \in 1..(n + m) PROVE d[i] = (a \o b)[i]
  <2>1. d[i] = [type |-> r[i].type, comp |-> r[i].comp, val |-> r[i].val]
    BY <1>4, <1>5, UntaggedFacts
  <2>2. CASE i \in 1..n
    <3>1. r[i] = s[i] /\ (a \o b)[i] = a[i]
      BY <1>1, <1>2, <1>3, <1>6, <2>2
    <3>2. a[i] = [type |-> s[i].type, comp |-> s[i].comp, val |-> s[i].val]
      BY <1>1, <1>2, <1>5, <2>2, UntaggedFacts
    <3>3. QED BY <2>1, <3>1, <3>2
  <2>3. CASE i \notin 1..n
    <3>1. i - n \in 1..m
      BY <2>3
    <3>2. r[i] = t[i - n] /\ (a \o b)[i] = b[i - n]
      BY <1>1, <1>2, <1>3, <1>6, <2>3
    <3>3. b[i - n] = [type |-> t[i - n].type, comp |-> t[i - n].comp,
                      val |-> t[i - n].val]
      BY <1>1, <1>2, <1>5, <3>1, UntaggedFacts
    <3>4. QED BY <2>1, <3>2, <3>3
  <2>4. QED BY <2>2, <2>3
<1>8. d = a \o b
  <2>1. Len(d) = Len(a) + Len(b) /\ \A i \in 1..Len(d) : d[i] = (a \o b)[i]
    BY <1>6, <1>7
  <2>2. QED BY <2>1, Joined
<1>9. QED BY <1>3, <1>5, <1>8

LEMMA UntaggedOne ==
    ASSUME NEW e \in Events
    PROVE  Untagged(<<e>>)
             = <<[type |-> e.type, comp |-> e.comp, val |-> e.val]>>
BY DEF Untagged

-----------------------------------------------------------------------------
(* The steps of a single call that change something.                       *)

LEMMA EventFacts ==
    ASSUME NEW k \in Calls, k.comp \in Comps
    PROVE  /\ EventOf(k) \in Store!Events
           /\ EventOf(k).type = EventType(k.op)
           /\ EventOf(k).comp = k.comp
           /\ EventOf(k).val = IF k.op = "remove" THEN k.found ELSE k.val
<1>1. /\ EventType(k.op) \in {"ADDED", "UPDATED", "REMOVED"}
      /\ k.val \in OptValue /\ k.found \in OptValue
  BY DEF EventType, Calls
<1>2. EventOf(k) = [type |-> EventType(k.op), comp |-> k.comp,
                    val |-> IF k.op = "remove" THEN k.found ELSE k.val]
  BY DEF EventOf
<1>3. QED BY <1>1, <1>2 DEF Store!Events, OptValue

(* The change of one component.                                            *)
LEMMA OneChange ==
    ASSUME NEW p, Undisturbed(p), UNCHANGED <<log, batch>>,
           batch[p] = NoBatch, ~Announcing(call[p]),
           NEW n \in Calls, call'[p] = n, Announcing(n),
           NEW c \in Comps, c = n.comp,
           Told(EventOf(n), Effective(c),
                IF n.op = "remove" THEN Null ELSE Effective(c)'),
           \A d \in Comps : d # c => Effective(d)' = Effective(d)
    PROVE  [Store!Next]_Store!storeVars
<1>1. PICK e \in Store!Events : e = EventOf(n)
  BY EventFacts
<1>2. PICK s : s = <<e>>
  OBVIOUS
<1>3. /\ s \in Seq(Store!Events) /\ s # <<>> /\ Len(s) = 1 /\ s[1] = e
      /\ e.comp = c
  BY <1>1, <1>2, EventFacts
<1>4. NoBatch.pc = "idle"
  BY DEF NoBatch
<1>5. /\ PendingAt(call[p], batch[p]) = <<>>
      /\ PendingAt(call[p], batch[p])' = s
  BY <1>1, <1>2, <1>4 DEF PendingAt
<1>6. /\ \A d : ValueAt(call[p], batch[p], d) = Effective(d)
      /\ \A d : ValueAt(call[p], batch[p], d)'
                  = IF n.op = "remove" /\ c = d THEN Null ELSE Effective(d)'
  BY <1>4 DEF ValueAt
<1>7. Told(e, ValueAt(call[p], batch[p], c), ValueAt(call[p], batch[p], c)')
  BY <1>1, <1>6 DEF Told
<1>8. \A i \in 1..Len(s) :
        /\ s[i].comp \in Comps
        /\ Told(s[i], ValueAt(call[p], batch[p], s[i].comp),
                ValueAt(call[p], batch[p], s[i].comp)')
  <2> TAKE i \in 1..Len(s)
  <2>1. i = 1
    BY <1>3
  <2>2. PICK d : d = s[i].comp
    OBVIOUS
  <2>3. d = c /\ s[i] = e
    BY <1>3, <2>1, <2>2
  <2>4. Told(s[i], ValueAt(call[p], batch[p], d), ValueAt(call[p], batch[p], d)')
    BY <1>7, <2>3
  <2>5. QED BY <2>2, <2>3, <2>4
<1>9. \A d \in Comps : (\A i \in 1..Len(s) : s[i].comp # d)
        => ValueAt(call[p], batch[p], d)' = ValueAt(call[p], batch[p], d)
  BY <1>3, <1>6
<1>10. \A i, j \in 1..Len(s) : i # j => s[i].comp # s[j].comp
  BY <1>3
<1>11. Store!Change
  BY <1>3, <1>5, <1>8, <1>9, <1>10, StoreChanges
<1>12. QED BY <1>11 DEF Store!Next

(* A value goes into Redis: hSetNX or hSet, and the change is made.        *)
LEMMA CacheWritten ==
    ASSUME NEW p, Undisturbed(p), TurnInv(p), NEW k, k = call[p],
           k.op \in {"add", "update"}, Looking(k), k.pc # "idle",
           NEW c, c = k.comp, NEW n \in Calls, call'[p] = n,
           n.op = k.op, n.comp = c, n.val = k.val,
           n.pc = AfterCacheWrite(k).pc,
           redis' = [redis EXCEPT ![c] = k.val],
           UNCHANGED <<row, log, batch, faults>>,
           k.op = "add" => Effective(c) = Null,
           k.op = "update" => k.found = redis[c] /\ redis[c] # Null
    PROVE  Implements(p)
<1>1. /\ TypeOK /\ batch[p] = NoBatch /\ k \in Calls /\ CallOK(k)
      /\ c \in Comps /\ k.val \in Values
  BY TurnFacts DEF At, AllOps, CallOK
<1>2. Settled /\ Sound(c, redis[c])
  BY <1>1, LookingFacts DEF At, Settled
<1>3. UNCHANGED <<exists, components, columns>>
  BY DEF row
<1>4. redis'[c] = k.val /\ \A d \in Comps : d # c => redis'[d] = redis[d]
  BY <1>1 DEF TypeOK
<1>5. k.val # Null
  BY <1>1, NullIsNoValue
<1>6. Effective(c)' = k.val
  BY <1>4, <1>5 DEF Effective
<1>7. \A d \in Comps : d # c => Effective(d)' = Effective(d)
  BY <1>3, <1>4 DEF Effective
<1>8. /\ n.pc \in {"columns.find", "jsonb.find", "emit"}
      /\ n.pc = "columns.find" => c \in Projected
      /\ n.pc # "columns.find" /\ c \in Projected =>
           k.op = "update" /\ k.found.key = k.val.key
      /\ n.pc = "jsonb.find" => c \in Persistent
      /\ n.pc = "emit" => c \notin Persistent
  <2>1. CASE c \in Projected /\ (k.op = "add" \/ k.found.key # k.val.key)
    <3>1. AfterCacheWrite(k) = [k EXCEPT !.pc = "columns.find"]
      BY <2>1 DEF AfterCacheWrite
    <3>2. n.pc = "columns.find"
      BY <1>1, <3>1 DEF Calls
    <3>3. QED BY <2>1, <3>2
  <2>2. CASE ~(c \in Projected /\ (k.op = "add" \/ k.found.key # k.val.key))
    <3>1. AfterCacheWrite(k)
            = [k EXCEPT !.pc = IF c \in Persistent THEN "jsonb.find" ELSE "emit"]
      BY <2>2 DEF AfterCacheWrite, AfterColumns
    <3>2. n.pc = IF c \in Persistent THEN "jsonb.find" ELSE "emit"
      BY <1>1, <3>1 DEF Calls
    <3>3. QED BY <2>2, <3>2
  <2>3. QED BY <2>1, <2>2
<1>9. n.pc # "columns.find" /\ c \in Projected => columns[c] = k.val.key
  <2> SUFFICES ASSUME n.pc # "columns.find", c \in Projected
               PROVE  columns[c] = k.val.key
    OBVIOUS
  <2>1. redis[c] # Null /\ redis[c].key = k.val.key
    BY <1>8
  <2>2. CASE c \in Persistent
    BY <1>2, <2>1, <2>2 DEF Sound
  <2>3. CASE c \notin Persistent
    BY <1>2, <2>1, <2>3 DEF Sound
  <2>4. QED BY <2>2, <2>3
<1>10. Knows(n)'
  <2>1. ReadKnows(n)' /\ GotKnows(n)' /\ RemoveKnows(n)'
    BY <1>4, <1>8 DEF ReadKnows, GotKnows, RemoveKnows
  <2>2. SaveKnows(n)'
    BY <1>3, <1>4, <1>8, <1>9 DEF SaveKnows
  <2>3. QED BY <2>1, <2>2 DEF Knows
<1>11. \A d \in Comps \ {c} : Sound(d, redis[d])'
  BY <1>2, <1>3, <1>4 DEF Settled, Sound, Placed
<1>12. Placed(c)' /\ (n.pc = "emit" => Sound(c, redis[c])')
  BY <1>2, <1>3, <1>4, <1>8, <1>9 DEF Sound, Placed
<1>13. n.pc # "emit" => n.pc \in SavingPCs
  BY <1>8 DEF SavingPCs, SavePCs
<1>14. BatchKnows(NoBatch)' /\ NoBatch.pc = "idle"
  BY DEF BatchKnows, NoBatch
<1>15. n.pc = "emit" => Settled'
  BY <1>11, <1>12 DEF Settled
<1>16. n.pc = "emit" => n.pc \notin SavingPCs
  BY DEF SavingPCs, SavePCs
<1>17. Turn(n, NoBatch)'
  BY <1>10, <1>11, <1>12, <1>13, <1>14, <1>15, <1>16 DEF Turn
<1>18. Turn(call[p], batch[p])' /\ faults' = 0
  BY <1>1, <1>17 DEF TurnInv
<1>19. ~Announcing(k) /\ Announcing(n)
  BY <1>8, LookingIsSilent DEF Announcing
<1>20. Told(EventOf(n), Effective(c),
            IF n.op = "remove" THEN Null ELSE Effective(c)')
  <2>1. /\ EventOf(n).type = EventType(n.op) /\ EventOf(n).val = k.val
    BY <1>1, EventFacts
  <2>2. CASE n.op = "add"
    BY <1>6, <2>1, <2>2 DEF Told, EventType
  <2>3. CASE n.op = "update"
    <3>1. Effective(c) # Null
      BY <2>3 DEF Effective
    <3>2. QED BY <1>6, <2>1, <2>3, <3>1 DEF Told, EventType
  <2>4. QED BY <2>2, <2>3
<1>21. [Store!Next]_Store!storeVars
  BY <1>1, <1>7, <1>19, <1>20, OneChange
<1>22. QED BY <1>18, <1>21 DEF Implements

LEMMA AddClaimTurn ==
    ASSUME NEW p, Undisturbed(p), TurnInv(p), AddClaim(p), UNCHANGED batch
    PROVE  Implements(p)
<1>1. PICK k : k = call[p]
  OBVIOUS
<1>2. PICK c : c = k.comp
  OBVIOUS
<1>3. k.pc = "add.claim" /\ k.op = "add" /\ ~At(p, "idle")
  BY <1>1, TurnFacts DEF AddClaim, At, CallOK
<1>4. /\ TypeOK /\ p \in Procs /\ k \in Calls /\ CallOK(k) /\ Effective(c) = Null
      /\ \A n : Goto(p, n) => call'[p] = n
  BY <1>1, <1>2, <1>3, TurnFacts DEF TurnInv, Turn, Knows, GotKnows
<1>5. redis[c] = Null
  BY <1>4 DEF Effective
<1>6. PICK n : n = [AfterCacheWrite(k) EXCEPT !.epoch = epoch[c]]
  OBVIOUS
<1>7. call'[p] = n /\ redis' = [redis EXCEPT ![c] = k.val]
  BY <1>1, <1>2, <1>4, <1>5, <1>6 DEF AddClaim
<1>8. AfterCacheWrite(k) \in Calls /\ AfterCacheWrite(k).op = k.op
      /\ AfterCacheWrite(k).comp = c /\ AfterCacheWrite(k).val = k.val
  <2>1. AfterCacheWrite(k) \in Calls
    BY <1>3, <1>4, AfterColumnsOK
  <2>2. \E q : AfterCacheWrite(k) = [k EXCEPT !.pc = q]
    BY DEF AfterCacheWrite, AfterColumns
  <2>3. QED BY <1>2, <1>4, <2>1, <2>2 DEF Calls
<1>9. /\ n.op = k.op /\ n.comp = c /\ n.val = k.val
      /\ n.pc = AfterCacheWrite(k).pc
  BY <1>6, <1>8 DEF Calls
<1>10. n \in Calls
  <2>1. TypeOK'
    BY <1>4, TypeAddClaim
  <2>2. QED BY <1>4, <1>7, <2>1 DEF TypeOK
<1>11. Looking(k) /\ k.pc # "idle"
  BY <1>3 DEF Looking, SavingPCs, SavePCs
<1>12. UNCHANGED <<row, log, batch, faults>>
  BY DEF AddClaim
<1>13. QED BY <1>1, <1>2, <1>3, <1>4, <1>7, <1>9, <1>10, <1>11, <1>12,
              CacheWritten

LEMMA UpdateSetTurn ==
    ASSUME NEW p, Undisturbed(p), TurnInv(p), UpdateSet(p), UNCHANGED batch
    PROVE  Implements(p)
<1>1. PICK k : k = call[p]
  OBVIOUS
<1>2. PICK c : c = k.comp
  OBVIOUS
<1>3. k.pc = "update.set" /\ k.op = "update" /\ ~At(p, "idle")
  BY <1>1, TurnFacts DEF UpdateSet, At, CallOK
<1>4. /\ TypeOK /\ p \in Procs /\ k \in Calls /\ CallOK(k)
      /\ k.found = redis[c] /\ redis[c] # Null
      /\ \A n : Goto(p, n) => call'[p] = n
  BY <1>1, <1>2, <1>3, TurnFacts DEF TurnInv, Turn, Knows, GotKnows
<1>6. PICK n : n = [AfterCacheWrite(k) EXCEPT !.found = Null]
  OBVIOUS
<1>7. call'[p] = n /\ redis' = [redis EXCEPT ![c] = k.val]
  BY <1>1, <1>2, <1>4, <1>6 DEF UpdateSet
<1>8. AfterCacheWrite(k) \in Calls /\ AfterCacheWrite(k).op = k.op
      /\ AfterCacheWrite(k).comp = c /\ AfterCacheWrite(k).val = k.val
  <2>1. AfterCacheWrite(k) \in Calls
    BY <1>3, <1>4, AfterColumnsOK
  <2>2. \E q : AfterCacheWrite(k) = [k EXCEPT !.pc = q]
    BY DEF AfterCacheWrite, AfterColumns
  <2>3. QED BY <1>2, <1>4, <2>1, <2>2 DEF Calls
<1>9. /\ n.op = k.op /\ n.comp = c /\ n.val = k.val
      /\ n.pc = AfterCacheWrite(k).pc
  BY <1>6, <1>8 DEF Calls
<1>10. n \in Calls
  <2>1. TypeOK'
    BY <1>4, TypeUpdateSet
  <2>2. QED BY <1>4, <1>7, <2>1 DEF TypeOK
<1>11. Looking(k) /\ k.pc # "idle"
  BY <1>3 DEF Looking, SavingPCs, SavePCs
<1>12. UNCHANGED <<row, log, batch, faults>>
  BY DEF UpdateSet
<1>13. QED BY <1>1, <1>2, <1>3, <1>4, <1>7, <1>9, <1>10, <1>11, <1>12,
              CacheWritten

(* The value is in Redis and goes into the database.                       *)
LEMMA SaveCloses ==
    ASSUME NEW p, Undisturbed(p), TurnInv(p), NEW k, k = call[p],
           k.pc \in SavePCs, NEW c, c = k.comp,
           NEW n \in Calls, call'[p] = n,
           n.op = k.op, n.comp = c, n.val = k.val,
           n.pc \in SavePCs \cup {"emit"},
           UNCHANGED <<redis, log, batch, faults>>,
           exists' = exists \/ exists',
           \A d \in Comps : d # c => /\ components'[d] = components[d]
                                     /\ columns'[d] = columns[d],
           Placed(c)', SaveKnows(n)', n.pc = "emit" => Sound(c, k.val)'
    PROVE  Implements(p)
<1>1. /\ TypeOK /\ batch[p] = NoBatch /\ k \in Calls /\ CallOK(k)
      /\ c \in Comps /\ k.op \in {"add", "update"} /\ k.val \in Values
  BY TurnFacts DEF At, AllOps, CallOK, SavePCs
<1>2. redis[c] = k.val /\ k.val # Null
  BY <1>1, NullIsNoValue DEF TurnInv, Turn, Knows, SaveKnows
<1>3. \A d \in Comps : Effective(d)' = Effective(d)
  <2>1. Effective(c)' = Effective(c)
    BY <1>2 DEF Effective
  <2>2. \A d \in Comps : d # c => Effective(d)' = Effective(d)
    BY DEF Effective
  <2>3. QED BY <2>1, <2>2
<1>4. \A d \in Comps \ {c} : Sound(d, redis[d])
  BY DEF TurnInv, Turn, SavingPCs
<1>5. \A d \in Comps \ {c} : Sound(d, redis[d])'
  BY <1>4 DEF Sound, Placed
<1>6. Knows(n)'
  BY <1>1, <1>2 DEF Knows, ReadKnows, GotKnows, RemoveKnows, SavePCs
<1>7. BatchKnows(NoBatch)' /\ NoBatch.pc = "idle"
  BY DEF BatchKnows, NoBatch
<1>8. n.pc = "emit" => Settled'
  BY <1>2, <1>5 DEF Settled
<1>9. n.pc # "emit" <=> n.pc \in SavingPCs
  BY DEF SavingPCs, SavePCs
<1>10. Turn(n, NoBatch)'
  BY <1>5, <1>6, <1>7, <1>8, <1>9 DEF Turn
<1>11. Turn(call[p], batch[p])' /\ faults' = 0
  BY <1>1, <1>10 DEF TurnInv
<1>12. /\ Announcing(k) /\ Announcing(n) /\ EventOf(n) = EventOf(k)
       /\ k.op # "remove"
  BY <1>1 DEF Announcing, EventOf, SavePCs
<1>13. \A d \in Comps : ValueAt(call[p], batch[p], d)'
                          = ValueAt(call[p], batch[p], d)
  BY <1>1, <1>3, <1>7, <1>12 DEF ValueAt
<1>14. PendingAt(call[p], batch[p])' = PendingAt(call[p], batch[p])
  BY <1>12 DEF PendingAt
<1>15. QED BY <1>11, <1>13, <1>14, StoreStutters DEF Implements

LEMMA NoRow ==
    ASSUME NEW p, Undisturbed(p), TurnInv(p), call[p].pc \in SavePCs, ~exists
    PROVE  /\ \A d \in Comps : components[d] = Null /\ columns[d] = Null
           /\ \A d \in Comps : DefaultColumns[d] = Null /\ EmptyMap[d] = Null
           /\ \A cols : ~InsertFails(cols)
<1>1. \A d \in Comps : Placed(d)
  BY DEF TurnInv, Turn, SavingPCs, Sound
<1>2. \A d \in Comps : components[d] = Null /\ columns[d] = Null
  BY <1>1 DEF Placed
<1>3. \A d \in Comps : DefaultColumns[d] = Null /\ EmptyMap[d] = Null
  BY DEF DefaultColumns, EmptyMap, Undisturbed
<1>4. QED BY <1>2, <1>3 DEF InsertFails, Undisturbed

LEMMA SaveTurn ==
    ASSUME NEW p, Undisturbed(p), TurnInv(p), Save(p), UNCHANGED batch
    PROVE  Implements(p)
<1>1. PICK k : k = call[p]
  OBVIOUS
<1>2. PICK c : c = k.comp
  OBVIOUS
<1>3. k.pc \in SavePCs /\ ~At(p, "idle")
  BY <1>1 DEF Save, ColumnsFind, ColumnsUpdate, ColumnsInsert, JsonbFind,
              JsonbUpdate, JsonbInsert, At, SavePCs
<1>4. /\ TypeOK /\ TypeOK' /\ p \in Procs /\ k \in Calls /\ CallOK(k)
      /\ c \in Comps /\ ~Fault /\ k.op \in {"add", "update"} /\ k.val \in Values
      /\ SaveKnows(k) /\ Placed(c)
      /\ \A n : Goto(p, n) => call'[p] = n
  BY <1>1, <1>2, <1>3, TurnFacts, TypeSave
     DEF TurnInv, Turn, Knows, SavingPCs, SavePCs, CallOK
<1>5. k.val.key \in Keys /\ k.val.key # Null
  BY <1>4, NullIsNoValue DEF Values
<1>6. \A n : call'[p] = n => n \in Calls
  BY <1>4 DEF TypeOK
<1>7. \A q : /\ [k EXCEPT !.pc = q].pc = q
             /\ [k EXCEPT !.pc = q].op = k.op
             /\ [k EXCEPT !.pc = q].comp = c
             /\ [k EXCEPT !.pc = q].val = k.val
  BY <1>2, <1>4 DEF Calls
<1>8. components \in [Comps -> OptValue] /\ columns \in [Comps -> OptKey]
  BY <1>4 DEF TypeOK, RowTypeOK

(* After the columns.                                                      *)
<1>9. ASSUME NEW n, n = AfterColumns(k), call'[p] = n, c \in Projected,
             UNCHANGED <<redis, log, batch, faults>>, exists',
             columns'[c] = k.val.key,
             \A d \in Comps : d # c => columns'[d] = columns[d],
             \A d \in Comps : components'[d] = components[d]
      PROVE  Implements(p)
  <2>1. /\ n.pc = IF c \in Persistent THEN "jsonb.find" ELSE "emit"
        /\ n.op = k.op /\ n.comp = c /\ n.val = k.val
    BY <1>2, <1>7, <1>9 DEF AfterColumns
  <2>2. redis'[c] = k.val
    BY <1>2, <1>3, <1>4, <1>9 DEF SaveKnows
  <2>3. Placed(c)'
    BY <1>4, <1>9 DEF Placed
  <2>4. SaveKnows(n)'
    BY <1>9, <2>1, <2>2 DEF SaveKnows, SavePCs
  <2>5. n.pc = "emit" => Sound(c, k.val)'
    BY <1>9, <2>1, <2>3 DEF Sound
  <2>6. n.pc \in SavePCs \cup {"emit"} /\ n \in Calls
    BY <1>6, <1>9, <2>1 DEF SavePCs
  <2>7. QED BY <1>1, <1>2, <1>3, <1>9, <2>1, <2>3, <2>4, <2>5, <2>6, SaveCloses
<1>10. CASE ColumnsFind(p)
  <2>1. PICK n : n = [k EXCEPT !.pc = IF exists THEN "columns.update"
                                      ELSE "columns.insert"]
    OBVIOUS
  <2>2. /\ n.pc = IF exists THEN "columns.update" ELSE "columns.insert"
        /\ n.op = k.op /\ n.comp = c /\ n.val = k.val
    BY <1>7, <2>1
  <2>3. call'[p] = n /\ UNCHANGED <<row, redis, log, batch, faults>>
    BY <1>1, <1>4, <1>10, <2>1 DEF ColumnsFind, Ok
  <2>4. c \in Projected /\ redis[c] = k.val
    BY <1>1, <1>2, <1>3, <1>4, <1>10 DEF ColumnsFind, At, SaveKnows
  <2>5. UNCHANGED <<exists, components, columns>>
    BY <2>3 DEF row
  <2>6. Placed(c)'
    BY <1>4, <2>5 DEF Placed
  <2>7. SaveKnows(n)'
    BY <2>2, <2>3, <2>4, <2>5 DEF SaveKnows
  <2>8. n.pc \in SavePCs \cup {"emit"} /\ n.pc # "emit" /\ n \in Calls
    BY <1>6, <2>2, <2>3 DEF SavePCs
  <2>9. QED BY <1>1, <1>2, <1>3, <2>2, <2>3, <2>5, <2>6, <2>7, <2>8, SaveCloses
<1>11. CASE ColumnsUpdate(p)
  <2>1. exists /\ c \in Projected
    BY <1>1, <1>2, <1>4, <1>11 DEF ColumnsUpdate, At, SaveKnows
  <2>2. PICK n : n = AfterColumns(k)
    OBVIOUS
  <2>3. /\ call'[p] = n /\ UNCHANGED <<redis, log, batch, faults>>
        /\ columns' = [columns EXCEPT ![c] = k.val.key]
        /\ UNCHANGED <<exists, components>>
    BY <1>1, <1>2, <1>4, <1>11, <2>1, <2>2 DEF ColumnsUpdate, UpdateColumns, Ok
  <2>4. /\ columns'[c] = k.val.key
        /\ \A d \in Comps : d # c => columns'[d] = columns[d]
    BY <1>4, <1>8, <2>3
  <2>5. QED BY <1>9, <2>1, <2>2, <2>3, <2>4
<1>12. CASE ColumnsInsert(p)
  <2>1. ~exists /\ c \in Projected
    BY <1>1, <1>2, <1>4, <1>12 DEF ColumnsInsert, At, SaveKnows
  <2>2. PICK n : n = AfterColumns(k)
    OBVIOUS
  <2>3. PICK cols : cols = [DefaultColumns EXCEPT ![c] = k.val.key]
    OBVIOUS
  <2>4. ~InsertFails(cols)
    BY <1>1, <1>3, <2>1, NoRow
  <2>5. /\ call'[p] = n /\ UNCHANGED <<redis, log, batch, faults>>
        /\ exists' /\ components' = EmptyMap /\ columns' = cols
    BY <1>1, <1>2, <1>4, <1>12, <2>2, <2>3, <2>4
       DEF ColumnsInsert, InsertRow, Ok
  <2>6. /\ columns'[c] = k.val.key
        /\ \A d \in Comps : d # c => columns'[d] = columns[d]
        /\ \A d \in Comps : components'[d] = components[d]
    BY <1>1, <1>3, <1>4, <2>1, <2>3, <2>5, ColumnTypes, NoRow
  <2>7. QED BY <1>9, <2>1, <2>2, <2>5, <2>6
<1>13. CASE JsonbFind(p)
  <2>1. /\ c \in Persistent /\ (c \in Projected => columns[c] = k.val.key)
        /\ redis[c] = k.val
    BY <1>1, <1>2, <1>3, <1>4, <1>13 DEF JsonbFind, At, SaveKnows
  <2>2. PICK n : n = IF exists THEN [k EXCEPT !.pc = "jsonb.update",
                                              !.snap = components]
                     ELSE [k EXCEPT !.pc = "jsonb.insert"]
    OBVIOUS
  <2>3. /\ n.pc = IF exists THEN "jsonb.update" ELSE "jsonb.insert"
        /\ n.op = k.op /\ n.comp = c /\ n.val = k.val
        /\ exists => n.snap = components
    BY <1>2, <1>4, <2>2 DEF Calls
  <2>4. call'[p] = n /\ UNCHANGED <<row, redis, log, batch, faults>>
    BY <1>1, <1>4, <1>13, <2>2 DEF JsonbFind
  <2>5. UNCHANGED <<exists, components, columns>>
    BY <2>4 DEF row
  <2>6. Placed(c)'
    BY <1>4, <2>5 DEF Placed
  <2>7. SaveKnows(n)'
    BY <2>1, <2>3, <2>4, <2>5 DEF SaveKnows
  <2>8. n.pc \in SavePCs \cup {"emit"} /\ n.pc # "emit" /\ n \in Calls
    BY <1>6, <2>3, <2>4 DEF SavePCs
  <2>9. QED BY <1>1, <1>2, <1>3, <2>3, <2>4, <2>5, <2>6, <2>7, <2>8, SaveCloses

(* After the JSONB map.                                                    *)
<1>14. ASSUME NEW n, n.pc = "emit", n.op = k.op, n.comp = c, n.val = k.val,
              call'[p] = n, c \in Persistent,
              UNCHANGED <<redis, log, batch, faults>>, exists',
              components'[c] = k.val, c \in Projected => columns[c] = k.val.key,
              \A d \in Comps : d # c => components'[d] = components[d],
              \A d \in Comps : columns'[d] = columns[d]
       PROVE  Implements(p)
  <2>1. Placed(c)'
    BY <1>4, <1>14 DEF Placed
  <2>2. Sound(c, k.val)'
    BY <1>4, <1>14, <2>1, NullIsNoValue DEF Sound
  <2>3. SaveKnows(n)'
    BY <1>14 DEF SaveKnows, SavePCs
  <2>4. n \in Calls
    BY <1>6, <1>14
  <2>5. QED BY <1>1, <1>2, <1>3, <1>14, <2>1, <2>2, <2>3, <2>4, SaveCloses
<1>15. CASE JsonbUpdate(p)
  <2>1. /\ exists /\ c \in Persistent /\ k.snap = components
        /\ (c \in Projected => columns[c] = k.val.key)
    BY <1>1, <1>2, <1>4, <1>15 DEF JsonbUpdate, At, SaveKnows
  <2>2. PICK n : n = [k EXCEPT !.pc = "emit", !.snap = EmptyMap]
    OBVIOUS
  <2>3. n.pc = "emit" /\ n.op = k.op /\ n.comp = c /\ n.val = k.val
    BY <1>2, <1>4, <2>2 DEF Calls
  <2>4. /\ call'[p] = n /\ UNCHANGED <<redis, log, batch, faults>>
        /\ components' = [components EXCEPT ![c] = k.val]
        /\ UNCHANGED <<exists, columns>>
    BY <1>1, <1>2, <1>4, <1>15, <2>1, <2>2 DEF JsonbUpdate, UpdateComponents
  <2>5. /\ components'[c] = k.val
        /\ \A d \in Comps : d # c => components'[d] = components[d]
    BY <1>4, <1>8, <2>4
  <2>6. QED BY <1>14, <2>1, <2>3, <2>4, <2>5
<1>16. CASE JsonbInsert(p)
  <2>1. /\ ~exists /\ c \in Persistent
        /\ (c \in Projected => columns[c] = k.val.key)
    BY <1>1, <1>2, <1>4, <1>16 DEF JsonbInsert, At, SaveKnows
  <2>2. PICK n : n = [k EXCEPT !.pc = "emit"]
    OBVIOUS
  <2>3. n.pc = "emit" /\ n.op = k.op /\ n.comp = c /\ n.val = k.val
    BY <1>7, <2>2
  <2>4. /\ call'[p] = n /\ UNCHANGED <<redis, log, batch, faults>>
        /\ exists' /\ components' = [EmptyMap EXCEPT ![c] = k.val]
        /\ columns' = DefaultColumns
    <3>1. ~InsertFails(DefaultColumns)
      BY <1>1, <1>3, <2>1, NoRow
    <3>2. QED BY <1>1, <1>2, <1>4, <1>16, <2>2, <3>1 DEF JsonbInsert, InsertRow
  <2>5. /\ components'[c] = k.val
        /\ \A d \in Comps : d # c => components'[d] = components[d]
        /\ \A d \in Comps : columns'[d] = columns[d]
    BY <1>1, <1>3, <1>4, <2>1, <2>4, EmptyMapType, NoRow
  <2>6. QED BY <1>14, <2>1, <2>3, <2>4, <2>5
<1>17. QED BY <1>10, <1>11, <1>12, <1>13, <1>15, <1>16 DEF Save

(* The value has left Redis and leaves the database.                       *)
LEMMA RemoveCloses ==
    ASSUME NEW p, Undisturbed(p), TurnInv(p), NEW k, k = call[p],
           k.pc \in {"remove.columns", "remove.find", "remove.jsonb"},
           NEW c, c = k.comp, NEW n \in Calls, call'[p] = n,
           n.op = "remove", n.comp = c, n.found = k.found,
           n.pc \in {"remove.find", "remove.jsonb", "emit"},
           UNCHANGED <<redis, log, batch, faults>>, UNCHANGED exists,
           \A d \in Comps : d # c => /\ components'[d] = components[d]
                                     /\ columns'[d] = columns[d],
           components'[c] \in {components[c], Null},
           columns'[c] = Null,
           n.pc # "emit" => c \in Persistent,
           n.pc = "remove.jsonb" => n.snap = components' /\ components'[c] # Null,
           n.pc = "emit" => components'[c] = Null
    PROVE  Implements(p)
<1>1. /\ TypeOK /\ batch[p] = NoBatch /\ k \in Calls /\ CallOK(k)
      /\ c \in Comps /\ k.op = "remove"
  BY TurnFacts DEF At, AllOps, CallOK
<1>2. redis[c] = Null
  BY DEF TurnInv, Turn, Knows, RemoveKnows
<1>3. Placed(c) /\ \A d \in Comps \ {c} : Sound(d, redis[d])
  BY <1>1 DEF TurnInv, Turn, Settled, Sound, NoBatch
<1>4. \A d \in Comps : d # c => Effective(d)' = Effective(d)
  BY DEF Effective
<1>5. /\ Placed(c)' /\ \A d \in Comps \ {c} : Sound(d, redis[d])'
  BY <1>3 DEF Sound, Placed
<1>6. n.pc = "emit" => Effective(c)' = Null
  BY <1>2 DEF Effective, FromColumn
<1>7. Knows(n)'
  <2>1. ReadKnows(n)' /\ GotKnows(n)' /\ SaveKnows(n)'
    BY DEF ReadKnows, GotKnows, SaveKnows, SavePCs
  <2>2. RemoveKnows(n)'
    BY <1>2, <1>6 DEF RemoveKnows
  <2>3. QED BY <2>1, <2>2 DEF Knows
<1>8. BatchKnows(NoBatch)' /\ NoBatch.pc = "idle"
  BY DEF BatchKnows, NoBatch
<1>9. n.pc = "emit" => Settled'
  <2> SUFFICES ASSUME n.pc = "emit" PROVE Settled'
    OBVIOUS
  <2>1. Sound(c, redis[c])'
    BY <1>2, <1>5 DEF Sound
  <2>2. QED BY <1>5, <2>1 DEF Settled
<1>10. n.pc # "emit" <=> n.pc \in SavingPCs
  BY DEF SavingPCs, SavePCs
<1>11. Turn(n, NoBatch)'
  BY <1>5, <1>7, <1>8, <1>9, <1>10 DEF Turn
<1>12. Turn(call[p], batch[p])' /\ faults' = 0
  BY <1>1, <1>11 DEF TurnInv
<1>13. /\ Announcing(k) /\ Announcing(n) /\ EventOf(n) = EventOf(k)
  BY <1>1 DEF Announcing, EventOf
<1>14. \A d \in Comps : ValueAt(call[p], batch[p], d)'
                          = ValueAt(call[p], batch[p], d)
  BY <1>1, <1>4, <1>8, <1>13 DEF ValueAt
<1>15. PendingAt(call[p], batch[p])' = PendingAt(call[p], batch[p])
  BY <1>13 DEF PendingAt
<1>16. QED BY <1>12, <1>14, <1>15, StoreStutters DEF Implements

LEMMA RemoveDelTurn ==
    ASSUME NEW p, Undisturbed(p), TurnInv(p), RemoveDel(p), UNCHANGED batch
    PROVE  Implements(p)
<1>1. PICK k : k = call[p]
  OBVIOUS
<1>2. PICK c : c = k.comp
  OBVIOUS
<1>3. k.pc = "remove.del" /\ k.op = "remove" /\ ~At(p, "idle")
  BY <1>1, TurnFacts DEF RemoveDel, At, CallOK
<1>4. /\ TypeOK /\ TypeOK' /\ p \in Procs /\ k \in Calls
      /\ c \in Comps /\ batch[p] = NoBatch
      /\ k.found = redis[c] /\ Effective(c) = redis[c]
      /\ \A n : Goto(p, n) => call'[p] = n
  BY <1>1, <1>2, <1>3, TurnFacts, TypeRemove
     DEF Remove, TurnInv, Turn, Knows, GotKnows, AllOps
<1>5. Looking(k)
  BY <1>3 DEF Looking, SavingPCs, SavePCs
<1>6. Settled /\ Sound(c, redis[c])
  BY <1>1, <1>3, <1>4, <1>5, LookingFacts DEF Settled
<1>7. PICK n : n = [k EXCEPT !.pc = IF c \in Projected THEN "remove.columns"
                               ELSE IF c \in Persistent THEN "remove.find"
                               ELSE "emit"]
  OBVIOUS
<1>8. /\ n.pc = IF c \in Projected THEN "remove.columns"
                ELSE IF c \in Persistent THEN "remove.find" ELSE "emit"
      /\ n.op = "remove" /\ n.comp = c /\ n.found = k.found
  BY <1>2, <1>3, <1>4, <1>7 DEF Calls
<1>9. call'[p] = n /\ redis' = [redis EXCEPT ![c] = Null]
      /\ UNCHANGED <<row, log, batch, faults>>
  BY <1>1, <1>2, <1>4, <1>7 DEF RemoveDel, AfterRemovedColumns
<1>10. n \in Calls
  BY <1>4, <1>9 DEF TypeOK
<1>11. /\ redis'[c] = Null /\ \A d \in Comps : d # c => redis'[d] = redis[d]
       /\ UNCHANGED <<exists, components, columns>>
  BY <1>4, <1>9 DEF TypeOK, row
<1>12. \A d \in Comps : d # c => Effective(d)' = Effective(d)
  BY <1>11 DEF Effective
<1>13. \A d \in Comps : Sound(d, redis[d])'
  <2>1. Sound(c, redis[c])'
    BY <1>6, <1>11 DEF Sound, Placed
  <2>2. \A d \in Comps : d # c => Sound(d, redis[d])'
    BY <1>6, <1>11 DEF Settled, Sound, Placed
  <2>3. QED BY <2>1, <2>2
<1>14. Placed(c)'
  BY <1>4, <1>13 DEF Sound
<1>15. n.pc = "emit" => Effective(c)' = Null
  BY <1>6, <1>8, <1>11 DEF Effective, FromColumn, Sound, Placed
<1>16. Knows(n)'
  <2>1. ReadKnows(n)' /\ GotKnows(n)' /\ SaveKnows(n)'
    BY <1>8 DEF ReadKnows, GotKnows, SaveKnows, SavePCs
  <2>2. RemoveKnows(n)'
    <3>1. n.pc = "remove.find" => columns'[c] = Null
      BY <1>8, <1>14 DEF Placed
    <3>2. QED BY <1>8, <1>11, <1>15, <3>1 DEF RemoveKnows
  <2>3. QED BY <2>1, <2>2 DEF Knows
<1>17. BatchKnows(NoBatch)' /\ NoBatch.pc = "idle"
  BY DEF BatchKnows, NoBatch
<1>18. Turn(n, NoBatch)'
  BY <1>8, <1>13, <1>14, <1>16, <1>17 DEF Turn, Settled
<1>19. Turn(call[p], batch[p])' /\ faults' = 0
  BY <1>4, <1>9, <1>18 DEF TurnInv
<1>20. ~Announcing(call[p]) /\ Announcing(n)
  BY <1>1, <1>5, <1>8, LookingIsSilent DEF Announcing
<1>21. Told(EventOf(n), Effective(c),
            IF n.op = "remove" THEN Null ELSE Effective(c)')
  BY <1>4, <1>8, <1>10, EventFacts DEF Told, EventType
<1>22. [Store!Next]_Store!storeVars
  BY <1>4, <1>8, <1>9, <1>10, <1>12, <1>20, <1>21, OneChange
<1>23. QED BY <1>19, <1>22 DEF Implements

LEMMA RemoveTurn ==
    ASSUME NEW p, Undisturbed(p), TurnInv(p), Remove(p), UNCHANGED batch
    PROVE  Implements(p)
<1>1. PICK k : k = call[p]
  OBVIOUS
<1>2. PICK c : c = k.comp
  OBVIOUS
<1>3. CASE RemoveDel(p)
  BY <1>3, RemoveDelTurn
<1>4. CASE RemoveColumns(p) \/ RemoveFind(p) \/ RemoveJsonb(p)
  <2>1. k.pc \in {"remove.columns", "remove.find", "remove.jsonb"}
        /\ ~At(p, "idle")
    BY <1>1, <1>4 DEF RemoveColumns, RemoveFind, RemoveJsonb, At
  <2>2. /\ TypeOK /\ TypeOK' /\ p \in Procs /\ k \in Calls /\ c \in Comps
        /\ k.op = "remove" /\ ~Fault /\ RemoveKnows(k) /\ batch[p] = NoBatch
        /\ \A n : Goto(p, n) => call'[p] = n
    BY <1>1, <1>2, <2>1, TurnFacts, TypeRemove
       DEF TurnInv, Turn, Knows, CallOK, AllOps
  <2>3. Placed(c)
    BY <1>1, <1>2, <2>2 DEF TurnInv, Turn, Settled, Sound, NoBatch
  <2>4. \A n : call'[p] = n => n \in Calls
    BY <2>2 DEF TypeOK
  <2>5. components \in [Comps -> OptValue] /\ columns \in [Comps -> OptKey]
    BY <2>2 DEF TypeOK, RowTypeOK
  <2>6. CASE RemoveColumns(p)
    <3>1. c \in Projected
      BY <1>1, <1>2, <2>2, <2>6 DEF RemoveColumns, At, RemoveKnows
    <3>2. PICK n : n = [k EXCEPT !.pc = IF c \in Persistent
                                        THEN "remove.find" ELSE "emit"]
      OBVIOUS
    <3>3. /\ n.pc = IF c \in Persistent THEN "remove.find" ELSE "emit"
          /\ n.op = "remove" /\ n.comp = c /\ n.found = k.found
      BY <1>2, <2>2, <3>2 DEF Calls
    <3>4. /\ call'[p] = n /\ UNCHANGED <<redis, log, batch, faults>>
          /\ UNCHANGED <<exists, components>>
          /\ columns' = IF exists THEN [columns EXCEPT ![c] = Null] ELSE columns
      <4>1. \A x : ClearedKey(x) = Null
        BY DEF ClearedKey, Undisturbed
      <4>2. QED BY <1>1, <1>2, <2>2, <2>6, <3>2, <4>1
                DEF RemoveColumns, UpdateColumns, AfterRemovedColumns, Ok
    <3>5. /\ columns'[c] = Null
          /\ \A d \in Comps : d # c => columns'[d] = columns[d]
      BY <2>2, <2>3, <2>5, <3>4 DEF Placed
    <3>6. n.pc = "emit" => components'[c] = Null
      BY <2>3, <3>3, <3>4 DEF Placed
    <3>7. n.pc \in {"remove.find", "emit"} /\ n \in Calls
      BY <2>4, <3>3, <3>4
    <3>8. QED BY <1>1, <1>2, <2>1, <3>3, <3>4, <3>5, <3>6, <3>7, RemoveCloses
  <2>7. CASE RemoveFind(p)
    <3>1. c \in Persistent /\ columns[c] = Null
      BY <1>1, <1>2, <2>2, <2>7 DEF RemoveFind, At, RemoveKnows
    <3>2. PICK n : n = IF components[c] # Null
                       THEN [k EXCEPT !.pc = "remove.jsonb", !.snap = components]
                       ELSE [k EXCEPT !.pc = "emit"]
      OBVIOUS
    <3>3. /\ n.pc = IF components[c] # Null THEN "remove.jsonb" ELSE "emit"
          /\ n.op = "remove" /\ n.comp = c /\ n.found = k.found
          /\ components[c] # Null => n.snap = components
      BY <1>2, <2>2, <3>2 DEF Calls
    <3>4. call'[p] = n /\ UNCHANGED <<row, redis, log, batch, faults>>
      BY <1>1, <1>2, <2>2, <2>7, <3>2 DEF RemoveFind, Ok
    <3>5. UNCHANGED <<exists, components, columns>>
      BY <3>4 DEF row
    <3>6. n.pc \in {"remove.jsonb", "emit"} /\ n \in Calls
      BY <2>4, <3>3, <3>4
    <3>7. QED BY <1>1, <1>2, <2>1, <3>1, <3>3, <3>4, <3>5, <3>6, RemoveCloses
  <2>8. CASE RemoveJsonb(p)
    <3>1. /\ c \in Persistent /\ columns[c] = Null
          /\ k.snap = components /\ components[c] # Null
      BY <1>1, <1>2, <2>2, <2>8 DEF RemoveJsonb, At, RemoveKnows
    <3>2. PICK n : n = [k EXCEPT !.pc = "emit", !.snap = EmptyMap]
      OBVIOUS
    <3>3. n.pc = "emit" /\ n.op = "remove" /\ n.comp = c /\ n.found = k.found
      BY <1>2, <2>2, <3>2 DEF Calls
    <3>4. exists
      BY <2>3, <3>1 DEF Placed
    <3>5. /\ call'[p] = n /\ UNCHANGED <<redis, log, batch, faults>>
          /\ components' = [components EXCEPT ![c] = Null]
          /\ UNCHANGED <<exists, columns>>
      BY <1>1, <1>2, <2>2, <2>8, <3>1, <3>2, <3>4
         DEF RemoveJsonb, UpdateComponents, Ok
    <3>6. /\ components'[c] = Null
          /\ \A d \in Comps : d # c => components'[d] = components[d]
      BY <2>2, <2>5, <3>5
    <3>7. n \in Calls
      BY <2>4, <3>5
    <3>8. QED BY <1>1, <1>2, <2>1, <3>1, <3>3, <3>5, <3>6, <3>7, RemoveCloses
  <2>9. QED BY <1>4, <2>6, <2>7, <2>8
<1>5. QED BY <1>3, <1>4 DEF Remove

LEMMA GuardWriteTurn ==
    ASSUME NEW p, Undisturbed(p), TurnInv(p), GuardWrite(p), UNCHANGED batch
    PROVE  Implements(p)
<1>1. PICK k : k = call[p]
  OBVIOUS
<1>2. PICK c : c = k.comp
  OBVIOUS
<1>3. k.pc = "guard.write" /\ k.op = "guard" /\ ~At(p, "idle") /\ Looking(k)
  BY <1>1, TurnFacts DEF GuardWrite, At, CallOK, Looking, SavingPCs, SavePCs
<1>4. /\ TypeOK /\ TypeOK' /\ p \in Procs /\ k \in Calls /\ c \in Comps
      /\ c \in Projected /\ Effective(c) = redis[c] /\ k.expect \in Keys
      /\ k.val \in Values /\ batch[p] = NoBatch
      /\ \A n : Goto(p, n) => call'[p] = n
  BY <1>1, <1>2, <1>3, TurnFacts, TypeGuard
     DEF Guard, TurnInv, Turn, Knows, GotKnows, AllOps, CallOK
<1>5. Settled
  BY <1>1, <1>3, LookingFacts
<1>6. CASE ~GuardMatches(c, k.expect)
  <2>1. call'[p] = NoCall /\ UNCHANGED <<row, redis, log, batch, faults>>
    BY <1>1, <1>2, <1>4, <1>6 DEF GuardWrite, Return
  <2>2. QED BY <1>1, <1>3, <2>1, NothingKnown, LookCloses
<1>7. CASE GuardMatches(c, k.expect)
  <2>1. exists /\ columns[c] # Null
    BY <1>4, <1>7, NullIsNoValue DEF GuardMatches
  <2>2. redis[c] # Null
    <3>1. redis[c] = Null => columns[c] = Null
      BY <1>1, <1>2, <1>3, <1>4, LookingFacts
    <3>2. QED BY <2>1, <3>1
  <2>3. PICK n : n = [k EXCEPT !.pc = "guard.set"]
    OBVIOUS
  <2>4. n.pc = "guard.set" /\ n.op = "guard" /\ n.comp = c /\ n.val = k.val
        /\ n.expect = k.expect
    BY <1>2, <1>3, <1>4, <2>3 DEF Calls
  <2>5. /\ call'[p] = n /\ UNCHANGED <<redis, log, batch, faults, exists>>
        /\ columns' = [columns EXCEPT ![c] = k.val.key]
        /\ components' = IF c \in Persistent
                         THEN [components EXCEPT ![c] = k.val] ELSE components
    BY <1>1, <1>2, <1>4, <1>7, <2>3 DEF GuardWrite, GuardedUpdate
  <2>6. /\ columns'[c] = k.val.key
        /\ components'[c] = IF c \in Persistent THEN k.val ELSE components[c]
        /\ \A d \in Comps : d # c => /\ columns'[d] = columns[d]
                                     /\ components'[d] = components[d]
    BY <1>4, <2>5 DEF TypeOK, RowTypeOK
  <2>7. Placed(c)' /\ \A d \in Comps \ {c} : Sound(d, redis[d])'
    BY <1>4, <1>5, <2>1, <2>5, <2>6 DEF Settled, Sound, Placed
  <2>8. Sound(c, k.val)'
    BY <1>4, <2>6, <2>7, NullIsNoValue DEF Sound
  <2>9. \A d \in Comps : Effective(d)' = Effective(d)
    <3>1. Effective(c)' = Effective(c)
      BY <2>2, <2>5 DEF Effective
    <3>2. \A d \in Comps : d # c => Effective(d)' = Effective(d)
      BY <2>5, <2>6 DEF Effective
    <3>3. QED BY <3>1, <3>2
  <2>10. Knows(n)'
    <3>1. ReadKnows(n)' /\ GotKnows(n)' /\ RemoveKnows(n)'
      BY <1>4, <2>4 DEF ReadKnows, GotKnows, RemoveKnows
    <3>2. SaveKnows(n)'
      BY <2>2, <2>4, <2>5, <2>8 DEF SaveKnows, SavePCs
    <3>3. QED BY <3>1, <3>2 DEF Knows
  <2>11. BatchKnows(NoBatch)' /\ NoBatch.pc = "idle"
    BY DEF BatchKnows, NoBatch
  <2>12. Turn(n, NoBatch)'
    BY <2>4, <2>7, <2>10, <2>11 DEF Turn, SavingPCs
  <2>13. Turn(call[p], batch[p])' /\ faults' = 0
    BY <1>4, <2>5, <2>12 DEF TurnInv
  <2>14. ~Announcing(k) /\ ~Announcing(n)
    BY <1>3, <2>4, LookingIsSilent DEF Announcing
  <2>15. \A d \in Comps : ValueAt(call[p], batch[p], d)'
                            = ValueAt(call[p], batch[p], d)
    BY <1>1, <1>4, <2>5, <2>9, <2>11, <2>14 DEF ValueAt
  <2>16. PendingAt(call[p], batch[p])' = PendingAt(call[p], batch[p])
    BY <1>1, <2>5, <2>14 DEF PendingAt
  <2>17. QED BY <2>5, <2>13, <2>15, <2>16, StoreStutters DEF Implements
<1>8. QED BY <1>6, <1>7

LEMMA GuardSetTurn ==
    ASSUME NEW p, Undisturbed(p), TurnInv(p), GuardSet(p), UNCHANGED batch
    PROVE  Implements(p)
<1>1. PICK k : k = call[p]
  OBVIOUS
<1>2. PICK c : c = k.comp
  OBVIOUS
<1>3. k.pc = "guard.set" /\ k.op = "guard" /\ ~At(p, "idle")
  BY <1>1, TurnFacts DEF GuardSet, At, CallOK
<1>4. /\ TypeOK /\ TypeOK' /\ p \in Procs /\ k \in Calls /\ c \in Comps
      /\ k.val \in Values /\ batch[p] = NoBatch
      /\ redis[c] # Null /\ Sound(c, k.val) /\ k.expect \in Keys
      /\ \A n : Goto(p, n) => call'[p] = n
  BY <1>1, <1>2, <1>3, TurnFacts, TypeGuard
     DEF Guard, TurnInv, Turn, Knows, GotKnows, SaveKnows, AllOps, CallOK
<1>5. \A d \in Comps \ {c} : Sound(d, redis[d])
  BY <1>1, <1>2, <1>3 DEF TurnInv, Turn, SavingPCs
<1>6. PICK n : n = [k EXCEPT !.pc = "emit"]
  OBVIOUS
<1>7. n.pc = "emit" /\ n.op = "guard" /\ n.comp = c /\ n.val = k.val
      /\ n.expect = k.expect
  BY <1>2, <1>3, <1>4, <1>6 DEF Calls
<1>8. /\ call'[p] = n /\ redis' = [redis EXCEPT ![c] = k.val]
      /\ UNCHANGED <<row, log, batch, faults>>
  BY <1>1, <1>2, <1>4, <1>6 DEF GuardSet
<1>9. /\ redis'[c] = k.val /\ \A d \in Comps : d # c => redis'[d] = redis[d]
      /\ UNCHANGED <<exists, components, columns>>
  BY <1>4, <1>8 DEF TypeOK, row
<1>10. Effective(c)' = k.val /\ Effective(c) # Null
  BY <1>4, <1>9, NullIsNoValue DEF Effective
<1>11. \A d \in Comps : d # c => Effective(d)' = Effective(d)
  BY <1>9 DEF Effective
<1>12. Settled'
  <2>1. Sound(c, redis[c])'
    BY <1>4, <1>9 DEF Sound, Placed
  <2>2. \A d \in Comps : d # c => Sound(d, redis[d])'
    BY <1>5, <1>9 DEF Sound, Placed
  <2>3. QED BY <2>1, <2>2 DEF Settled
<1>13. Knows(n)'
  BY <1>4, <1>7, <1>9
     DEF Knows, ReadKnows, GotKnows, SaveKnows, RemoveKnows, SavePCs
<1>14. BatchKnows(NoBatch)' /\ NoBatch.pc = "idle"
  BY DEF BatchKnows, NoBatch
<1>15. n.pc \notin SavingPCs
  BY <1>7 DEF SavingPCs, SavePCs
<1>16. Turn(n, NoBatch)'
  BY <1>12, <1>13, <1>14, <1>15 DEF Turn
<1>17. Turn(call[p], batch[p])' /\ faults' = 0
  BY <1>4, <1>8, <1>16 DEF TurnInv
<1>18. ~Announcing(call[p]) /\ Announcing(n)
  BY <1>1, <1>3, <1>7 DEF Announcing
<1>19. n \in Calls
  BY <1>4, <1>8 DEF TypeOK
<1>20. Told(EventOf(n), Effective(c),
            IF n.op = "remove" THEN Null ELSE Effective(c)')
  BY <1>4, <1>7, <1>10, <1>19, EventFacts DEF Told, EventType
<1>21. [Store!Next]_Store!storeVars
  BY <1>4, <1>7, <1>8, <1>11, <1>18, <1>19, <1>20, OneChange
<1>22. QED BY <1>17, <1>21 DEF Implements

LEMMA EmitTurn ==
    ASSUME NEW p, Undisturbed(p), TurnInv(p), Emit(p), UNCHANGED batch
    PROVE  Implements(p)
<1>1. PICK k : k = call[p]
  OBVIOUS
<1>2. PICK c : c = k.comp
  OBVIOUS
<1>3. k.pc = "emit" /\ ~At(p, "idle")
  BY <1>1 DEF Emit, At
<1>4. /\ TypeOK /\ p \in Procs /\ k \in Calls /\ c \in Comps
      /\ k.op \in AllOps /\ batch[p] = NoBatch
      /\ k.op = "remove" => Effective(c) = Null
      /\ \A n : Goto(p, n) => call'[p] = n
  <2>1. k.op \in {"add", "update", "remove", "guard"}
    BY <1>1, <1>3, TurnFacts DEF CallOK
  <2>2. k.op \in AllOps
    BY <2>1 DEF AllOps
  <2>3. QED BY <1>1, <1>2, <1>3, <2>2, TurnFacts
            DEF TurnInv, Turn, Knows, RemoveKnows
<1>5. Settled
  BY <1>1, <1>3, <1>4 DEF TurnInv, Turn, SavingPCs, SavePCs, NoBatch
<1>6. call'[p] = NoCall /\ UNCHANGED <<row, redis, batch, faults>>
  BY <1>4 DEF Emit, Return
<1>7. UNCHANGED <<exists, components, columns>>
  BY <1>6 DEF row
<1>8. Turn(NoCall, NoBatch)
  <2>1. BatchKnows(NoBatch) /\ NoBatch.pc # "hset"
    BY DEF BatchKnows, NoBatch
  <2>2. QED BY <1>5, <2>1, NothingKnown, LookingIsSilent DEF Turn
<1>9. Turn(NoCall, NoBatch)'
  BY <1>6, <1>7, <1>8, TurnFrame
<1>10. Turn(call[p], batch[p])' /\ faults' = 0
  BY <1>4, <1>6, <1>9 DEF TurnInv
<1>11. Announcing(k) /\ ~Announcing(NoCall) /\ NoBatch.pc = "idle"
  BY <1>3 DEF Announcing, NoCall, NoBatch
<1>12. \A d \in Comps : Effective(d)' = Effective(d)
  BY <1>6, <1>7 DEF Effective
<1>13. \A d \in Comps : ValueAt(call[p], batch[p], d)'
                          = ValueAt(call[p], batch[p], d)
  BY <1>1, <1>2, <1>4, <1>6, <1>11, <1>12 DEF ValueAt
<1>14. /\ PendingAt(call[p], batch[p]) = <<EventOf(k)>>
       /\ PendingAt(call[p], batch[p])' = <<>>
  BY <1>1, <1>4, <1>6, <1>11 DEF PendingAt
<1>15. PICK e : e = [type |-> EventType(k.op), comp |-> c,
                     val |-> IF k.op = "remove" THEN k.found ELSE k.val,
                     epoch |-> k.epoch]
  OBVIOUS
<1>16. e \in Events
  <2>1. /\ EventType(k.op) \in {"ADDED", "UPDATED", "REMOVED"}
        /\ (IF k.op = "remove" THEN k.found ELSE k.val) \in OptValue
        /\ k.epoch \in Nat
    BY <1>4 DEF EventType, Calls
  <2>2. QED BY Zenon, <1>4, <1>15, <2>1 DEF Events
<1>17. log' = Append(log, e) /\ log \in Seq(Events)
  BY <1>1, <1>2, <1>4, <1>15 DEF Emit, TypeOK
<1>18. Append(log, e) = log \o <<e>> /\ <<e>> \in Seq(Events)
  BY <1>16, <1>17
<1>19. Untagged(log \o <<e>>) = Untagged(log) \o Untagged(<<e>>)
  BY <1>17, <1>18, UntaggedJoins
<1>20. Untagged(<<e>>) = <<EventOf(k)>>
  BY <1>2, <1>15, <1>16, UntaggedOne DEF EventOf
<1>21. Untagged(log)' = Untagged(log')
  BY DEF Untagged
<1>22. Untagged(log)' = Untagged(log) \o PendingAt(call[p], batch[p])
  BY <1>14, <1>17, <1>18, <1>19, <1>20, <1>21
<1>23. Store!Publish
  <2>1. Len(<<EventOf(k)>>) = 1
    OBVIOUS
  <2>2. PendingAt(call[p], batch[p]) # <<>>
    BY <1>14, <2>1
  <2>3. QED BY <1>13, <1>14, <1>22, <2>2, StorePublishes
<1>24. QED BY <1>10, <1>23 DEF Implements, Store!Next

LEMMA SingleTurn ==
    ASSUME NEW p, Undisturbed(p), TurnInv(p), SingleStep(p)
    PROVE  Implements(p)
<1>1. UNCHANGED batch
  BY DEF SingleStep
<1>2. CASE batch[p] = NoBatch /\ Start(p)
  BY <1>1, <1>2, StartTurn
<1>3. CASE batch[p] = NoBatch /\ Abort(p)
  BY <1>3, TurnFacts DEF Abort
<1>4. CASE Step(p)
  BY <1>1, <1>4, ReadTurn, ProbeTurn, UpsertCheckTurn, AddClaimTurn,
     UpdateSetTurn, SaveTurn, RemoveTurn, GuardWriteTurn, GuardSetTurn, EmitTurn
     DEF Step, Guard
<1>5. QED BY <1>2, <1>3, <1>4 DEF SingleStep

-----------------------------------------------------------------------------
(* The lookup of a batch.                                                  *)

LEMMA BatchTurnFacts ==
    ASSUME NEW p, Undisturbed(p), TurnInv(p), NEW b, b = batch[p]
    PROVE  /\ p \in Procs /\ TypeOK /\ ~Fault
           /\ b \in Batches /\ BatchKnows(b)
           /\ b.pc # "idle" => Ready(b) /\ Fits(b)
           /\ b.pc \notin {"idle", "fetch"} => call[p] = NoCall
           /\ call[p] = NoCall /\ b.pc # "hset" => Settled
           /\ \A d : BatchGoto(p, d) => batch'[p] = d
<1>1. p \in Procs /\ TypeOK /\ ~Fault /\ b \in Batches /\ BatchKnows(b)
  BY TurnFacts DEF TurnInv, Turn
<1>2. b.pc # "idle" => Ready(b) /\ Fits(b)
  BY TurnFacts DEF BatchOK
<1>3. b.pc \notin {"idle", "fetch"} => call[p] = NoCall
  BY TurnFacts DEF Paired, NoBatch
<1>4. call[p] = NoCall /\ b.pc # "hset" => Settled
  BY NothingKnown, LookingIsSilent DEF TurnInv, Turn
<1>5. \A d : BatchGoto(p, d) => batch'[p] = d
  BY <1>1 DEF TurnInv, BatchInv, BatchTypeOK, BatchGoto
<1>6. QED BY <1>1, <1>2, <1>3, <1>4, <1>5

LEMMA LookupCloses ==
    ASSUME NEW p, Undisturbed(p), TurnInv(p), NEW b, b = batch[p],
           b.pc \notin {"hset", "emit"}, Looking(call[p]), Settled,
           UNCHANGED <<row, redis, log, faults>>,
           NEW n, call'[p] = n, Looking(n), Knows(n),
           NEW d \in Batches, batch'[p] = d, BatchKnows(d), d.pc # "emit",
           d.pc = "hset" =>
             Prepared(d) /\ Listed(d) \cap (Persistent \cup Projected) = {}
    PROVE  Implements(p)
<1>1. UNCHANGED <<exists, components, columns, redis>>
  BY DEF row
<1>2. d.pc = "hset" => \A c \in Listed(d) : Sound(c, ValueIn(d, c))
  BY ListFacts DEF Settled, Sound
<1>3. Turn(n, d)
  BY <1>2, LookingIsSilent DEF Turn, Settled
<1>4. Turn(n, d)'
  BY <1>1, <1>3, TurnFrame
<1>5. Turn(call[p], batch[p])' /\ faults' = 0
  BY <1>4 DEF TurnInv
<1>6. ~Announcing(call[p]) /\ ~Announcing(n)
  BY LookingIsSilent
<1>7. \A c : Effective(c)' = Effective(c)
  BY <1>1 DEF Effective
<1>8. \A c \in Comps : ValueAt(call[p], batch[p], c)'
                         = ValueAt(call[p], batch[p], c)
  BY <1>6, <1>7 DEF ValueAt, Prepared
<1>9. PendingAt(call[p], batch[p])' = PendingAt(call[p], batch[p])
  BY <1>6 DEF PendingAt
<1>10. QED BY <1>5, <1>8, <1>9, StoreStutters DEF Implements

(* A batch that goes on, or writes, after a lookup.                        *)
LookedUp(d) ==
    /\ BatchKnows(d) /\ d.pc # "emit"
    /\ d.pc = "hset" =>
         Prepared(d) /\ Listed(d) \cap (Persistent \cup Projected) = {}

LEMMA NothingLookedUp == LookedUp(NoBatch)
BY DEF LookedUp, BatchKnows, NoBatch

LEMMA AfterLookupKnows ==
    ASSUME NEW b \in Batches, Prepared(b), b.snap = EmptyMap
    PROVE  LookedUp(AfterLookup(b))
<1>1. CASE AfterLookup(b) = NoBatch
  BY <1>1, NothingLookedUp
<1>2. ASSUME NEW q \in {"done", "find", "hset"},
             q = "hset" => Listed(b) \cap (Persistent \cup Projected) = {}
      PROVE  LookedUp([b EXCEPT !.pc = q])
  <2>1. PICK d : d = [b EXCEPT !.pc = q]
    OBVIOUS
  <2>2. /\ d.pc = q /\ d.list = b.list /\ d.found = b.found
        /\ d.snap = EmptyMap
    BY <2>1 DEF Batches
  <2>3. Listed(d) = Listed(b)
    BY <2>2, SameList
  <2>4. LookedUp(d)
    BY <1>2, <2>2, <2>3 DEF LookedUp, BatchKnows, Prepared
  <2>5. QED BY <2>1, <2>4
<1>3. QED BY <1>1, <1>2, AfterLookupCases

LEMMA AfterCachedKnows ==
    ASSUME TypeOK, Settled, NEW b \in Batches, Looked(b), b.snap = EmptyMap,
           b.op = "adds" =>
             \A c \in b.todo : b.found[c] = Null /\ redis[c] = Null
    PROVE  LookedUp(AfterCached(b))
<1>1. ASSUME NEW q \in {"names", "columns", "fetch"},
             q # "fetch" => b.op = "adds",
             q = "columns" => b.todo \cap Persistent = {}
      PROVE  LookedUp([b EXCEPT !.pc = q])
  <2>1. PICK d : d = [b EXCEPT !.pc = q]
    OBVIOUS
  <2>2. /\ d.pc = q /\ d.list = b.list /\ d.found = b.found
        /\ d.snap = EmptyMap /\ d.todo = b.todo
    BY <2>1 DEF Batches
  <2>3. Listed(d) = Listed(b)
    BY <2>2, SameList
  <2>4. LookedUp(d)
    BY <1>1, <2>2, <2>3 DEF LookedUp, BatchKnows, Looked
  <2>5. QED BY <2>1, <2>4
<1>2. CASE b.op = "adds" /\ b.todo \cap Persistent # {}
  BY <1>1, <1>2 DEF AfterCached
<1>3. CASE b.op = "adds" /\ b.todo \cap Persistent = {} /\ b.todo \cap Projected # {}
  BY <1>1, <1>3 DEF AfterCached
<1>4. CASE b.op = "adds" /\ b.todo \cap Persistent = {} /\ b.todo \cap Projected = {}
  <2>1. ASSUME NEW c \in Listed(b) PROVE b.found[c] = Effective(c)
    <3>1. c \in Comps
      BY ListFacts
    <3>2. CASE c \in b.todo
      BY <1>4, <3>1, <3>2, SoundFacts DEF Settled
    <3>3. CASE c \notin b.todo
      BY <3>3 DEF Looked
    <3>4. QED BY <3>2, <3>3
  <2>2. LookedUp(AfterLookup(b))
    BY <2>1, AfterLookupKnows DEF Prepared
  <2>3. QED BY <1>4, <2>2 DEF AfterCached
<1>5. CASE b.op # "adds" /\ b.todo # {}
  BY <1>1, <1>5 DEF AfterCached
<1>6. CASE b.op # "adds" /\ b.todo = {}
  <2>1. Prepared(b)
    BY <1>6 DEF Looked, Prepared
  <2>2. CASE b.op # "upserts"
    BY <1>6, <2>1, <2>2, AfterLookupKnows DEF AfterCached
  <2>3. CASE b.op = "upserts"
    <3>1. PICK t : t = {c \in Listed(b) : b.found[c] # Null}
      OBVIOUS
    <3>2. PICK d : d = [b EXCEPT !.pc = "check", !.todo = t]
      OBVIOUS
    <3>3. /\ d.pc = "check" /\ d.list = b.list /\ d.found = b.found
          /\ d.snap = EmptyMap
      BY <3>2 DEF Batches
    <3>4. Listed(d) = Listed(b)
      BY <3>3, SameList
    <3>5. LookedUp(d)
      BY <2>1, <3>3, <3>4 DEF LookedUp, BatchKnows, Prepared
    <3>6. QED BY <1>6, <2>3, <3>1, <3>2, <3>5 DEF AfterCached
  <2>4. QED BY <2>2, <2>3
<1>7. QED BY <1>2, <1>3, <1>4, <1>5, <1>6

(* A lookup of a caller that awaits nothing else.                          *)
LEMMA LookupGoes ==
    ASSUME NEW p, Undisturbed(p), TurnInv(p), BatchInv', NEW b, b = batch[p],
           b.pc \notin {"hset", "emit"}, Looking(call[p]), Settled,
           UNCHANGED <<row, redis, log, faults>>, call'[p] = NoCall,
           NEW d, BatchGoto(p, d), LookedUp(d)
    PROVE  Implements(p)
<1>1. batch'[p] = d /\ p \in Procs
  BY BatchTurnFacts
<1>2. d \in Batches
  BY <1>1 DEF BatchInv, BatchTypeOK
<1>3. QED BY <1>1, <1>2, NothingKnown, LookupCloses DEF LookedUp

LEMMA BatchStartTurn ==
    ASSUME NEW p, Undisturbed(p), TurnInv(p), BatchStart(p), BatchInv'
    PROVE  Implements(p)
<1>1. /\ p \in Procs /\ BatchInv /\ call[p] = NoCall /\ batch[p] = NoBatch
      /\ call'[p] = NoCall /\ UNCHANGED <<row, redis, log, faults>>
  BY TheCaller DEF BatchStart, TurnInv
<1>2. Settled /\ NoBatch.pc = "idle"
  BY <1>1, BatchTurnFacts DEF NoBatch
<1>3. PICK b \in Batches :
             /\ Ready(b) /\ b.list # <<>> /\ b.todo = {}
             /\ b.found = EmptyMap /\ b.snap = EmptyMap
             /\ \/ BatchGoto(p, [b EXCEPT !.pc = "cache"])
                \/ /\ b.op = "adds"
                   /\ \A c \in Listed(b) : Effective(c) = Null
                   /\ BatchGoto(p, AfterLookup(b))
  BY <1>1, BatchStarts
<1>4. CASE BatchGoto(p, [b EXCEPT !.pc = "cache"])
  <2>1. PICK d : d = [b EXCEPT !.pc = "cache"]
    OBVIOUS
  <2>2. d.pc = "cache" /\ d.snap = EmptyMap
    BY <1>3, <2>1 DEF Batches
  <2>3. LookedUp(d)
    BY <2>2 DEF LookedUp, BatchKnows
  <2>4. QED BY <1>1, <1>2, <1>4, <2>1, <2>3, NothingKnown, LookupGoes
<1>5. CASE /\ \A c \in Listed(b) : Effective(c) = Null
           /\ BatchGoto(p, AfterLookup(b))
  <2>1. Prepared(b)
    BY <1>3, <1>5, ListFacts DEF Prepared, EmptyMap
  <2>2. LookedUp(AfterLookup(b))
    BY <1>3, <2>1, AfterLookupKnows
  <2>3. QED BY <1>1, <1>2, <1>5, <2>2, NothingKnown, LookupGoes
<1>6. QED BY <1>3, <1>4, <1>5

LEMMA BatchLookupTurn ==
    ASSUME NEW p, Undisturbed(p), TurnInv(p), BatchInv',
           BatchCache(p) \/ BatchFetch(p) \/ BatchFetched(p)
    PROVE  Implements(p)
<1>1. PICK b : b = batch[p]
  OBVIOUS
<1>2. /\ b.pc \in {"cache", "fetch"} /\ UNCHANGED <<row, redis, log, faults>>
  BY <1>1 DEF BatchCache, BatchFetch, BatchFetched, BatchAt, vars, row
<1>3. /\ p \in Procs /\ TypeOK /\ b \in Batches /\ BatchKnows(b)
      /\ Ready(b) /\ Fits(b) /\ b.snap = EmptyMap
      /\ b.pc # "fetch" => call[p] = NoCall
  BY <1>1, <1>2, BatchTurnFacts DEF BatchKnows
<1>4. CASE BatchCache(p)
  <2>1. call[p] = NoCall /\ call'[p] = NoCall /\ b.pc = "cache"
    BY <1>1, <1>3, <1>4 DEF BatchCache, BatchAt, vars
  <2>2. Settled
    BY <1>1, <2>1, BatchTurnFacts
  <2>3. PICK f : f = [c \in Comps |-> IF c \in Listed(b) THEN redis[c] ELSE Null]
    OBVIOUS
  <2>4. PICK t : t = {c \in Listed(b) : redis[c] = Null}
    OBVIOUS
  <2>5. PICK d : d = [b EXCEPT !.found = f, !.todo = t]
    OBVIOUS
  <2>6. BatchGoto(p, AfterCached(d))
    BY <1>1, <1>4, <2>3, <2>4, <2>5 DEF BatchCache
  <2>7. f \in [Comps -> OptValue] /\ t \subseteq Listed(b)
    BY <1>3, <2>3, <2>4 DEF TypeOK, OptValue
  <2>8. /\ d \in Batches /\ d.op = b.op /\ d.snap = EmptyMap
        /\ d.found = f /\ d.todo = t /\ Listed(d) = Listed(b)
    <3>1. d \in Batches
      BY <1>3, <2>5, <2>7, Judged
    <3>2. /\ d.op = b.op /\ d.list = b.list /\ d.found = f /\ d.todo = t
          /\ d.snap = EmptyMap
      BY <1>3, <2>5 DEF Batches
    <3>3. QED BY <3>1, <3>2, SameList
  <2>9. Looked(d)
    BY <1>3, <2>3, <2>4, <2>8, ListFacts DEF Looked, Effective
  <2>10. \A c \in d.todo : d.found[c] = Null /\ redis[c] = Null
    BY <1>3, <2>3, <2>4, <2>8, ListFacts
  <2>11. LookedUp(AfterCached(d))
    BY <1>3, <2>2, <2>8, <2>9, <2>10, AfterCachedKnows
  <2>12. QED BY <1>1, <1>2, <2>1, <2>2, <2>6, <2>11, NothingKnown, LookupGoes
<1>5. CASE BatchFetch(p)
  <2>1. call[p] = NoCall /\ b.pc = "fetch" /\ UNCHANGED batch
    BY <1>1, <1>5 DEF BatchFetch, BatchAt
  <2>2. Settled
    BY <1>1, <2>1, BatchTurnFacts
  <2>3. PICK c \in b.todo : call' = [call EXCEPT ![p] =
            [NoCall EXCEPT !.op = "fetch", !.comp = c, !.pc = "get.redis"]]
    BY <1>1, <1>5 DEF BatchFetch
  <2>4. PICK n : n = [NoCall EXCEPT !.op = "fetch", !.comp = c,
                                    !.pc = "get.redis"]
    OBVIOUS
  <2>5. n.op = "fetch" /\ n.pc = "get.redis"
    BY <2>4 DEF NoCall
  <2>6. Knows(n) /\ Looking(n)
    BY <2>5 DEF Knows, ReadKnows, GotKnows, SaveKnows, RemoveKnows,
                SavePCs, SavingPCs, Looking
  <2>7. call'[p] = n
    BY <1>3, <2>3, <2>4 DEF TypeOK
  <2>8. batch'[p] = b
    BY <1>1, <2>1
  <2>9. QED BY <1>1, <1>2, <1>3, <2>1, <2>2, <2>6, <2>7, <2>8, NothingKnown,
               LookupCloses
<1>6. CASE BatchFetched(p)
  <2>1. PICK k : k = call[p]
    OBVIOUS
  <2>2. /\ k.pc = "fetched" /\ b.pc = "fetch" /\ Return(p)
    BY <1>1, <1>6, <2>1 DEF BatchFetched, BatchAt
  <2>3. /\ call'[p] = NoCall /\ Looking(k) /\ k \in Calls
    BY <2>1, <2>2, TurnFacts DEF Return, Looking, SavingPCs, SavePCs
  <2>4. k.comp \in Comps /\ k.found \in OptValue /\ k.found = Effective(k.comp)
        /\ ~At(p, "idle")
    <3>1. ~At(p, "idle") /\ k.found = redis[k.comp]
          /\ Effective(k.comp) = redis[k.comp]
      BY <2>1, <2>2 DEF At, TurnInv, Turn, Knows, GotKnows
    <3>2. QED BY <2>1, <2>3, <3>1, TurnFacts DEF Calls
  <2>5. Settled
    BY <2>1, <2>3, <2>4, LookingFacts
  <2>6. PICK f : f = [b.found EXCEPT ![k.comp] = k.found]
    OBVIOUS
  <2>7. PICK t : t = b.todo \ {k.comp}
    OBVIOUS
  <2>8. PICK d : d = [b EXCEPT !.found = f, !.todo = t]
    OBVIOUS
  <2>9. BatchGoto(p, AfterCached(d))
    <3>1. [b EXCEPT !.found[k.comp] = k.found, !.todo = @ \ {k.comp}] = d
      BY <2>6, <2>7, <2>8
    <3>2. QED BY <1>1, <1>6, <2>1, <3>1 DEF BatchFetched
  <2>10. b.found \in [Comps -> OptValue]
    BY <1>3 DEF Batches
  <2>11. f \in [Comps -> OptValue] /\ t \subseteq Listed(b)
    BY <1>3, <2>4, <2>6, <2>7, <2>10 DEF Ready
  <2>12. /\ d \in Batches /\ d.op = b.op /\ d.snap = EmptyMap
         /\ d.found = f /\ d.todo = t /\ Listed(d) = Listed(b)
    <3>1. d \in Batches
      BY <1>3, <2>8, <2>11, Judged
    <3>2. /\ d.op = b.op /\ d.list = b.list /\ d.found = f /\ d.todo = t
          /\ d.snap = EmptyMap
      BY <1>3, <2>8 DEF Batches
    <3>3. QED BY <3>1, <3>2, SameList
  <2>13. Looked(d)
    <3> SUFFICES ASSUME NEW c \in Listed(b) \ t PROVE f[c] = Effective(c)
      BY <2>12 DEF Looked
    <3>1. c \in Comps
      BY <1>3, ListFacts
    <3>2. CASE c = k.comp
      BY <2>4, <2>6, <2>10, <3>1, <3>2
    <3>3. CASE c # k.comp
      BY <1>3, <2>2, <2>6, <2>7, <2>10, <3>1, <3>3 DEF BatchKnows, Looked
    <3>4. QED BY <3>2, <3>3
  <2>14. d.op # "adds"
    BY <1>3, <2>2, <2>12 DEF Fits
  <2>15. LookedUp(AfterCached(d))
    BY <1>3, <2>5, <2>12, <2>13, <2>14, AfterCachedKnows
  <2>16. QED BY <1>1, <1>2, <2>1, <2>3, <2>5, <2>9, <2>15, LookupGoes
<1>7. QED BY <1>4, <1>5, <1>6

LEMMA BatchProbeTurn ==
    ASSUME NEW p, Undisturbed(p), TurnInv(p), BatchInv',
           BatchNames(p) \/ BatchColumns(p)
    PROVE  Implements(p)
<1>1. PICK b : b = batch[p]
  OBVIOUS
<1>2. /\ b.pc \in {"names", "columns"} /\ call' = call /\ ~Fault
      /\ UNCHANGED <<row, redis, log, faults>>
  BY <1>1, BatchTurnFacts
     DEF BatchNames, BatchColumns, BatchAt, vars, row, Ok
<1>3. /\ p \in Procs /\ TypeOK /\ b \in Batches /\ BatchKnows(b)
      /\ Ready(b) /\ Fits(b) /\ b.snap = EmptyMap /\ b.op = "adds"
      /\ call[p] = NoCall /\ call'[p] = NoCall
  BY <1>1, <1>2, BatchTurnFacts DEF BatchKnows, Fits
<1>4. Settled
  BY <1>1, <1>2, <1>3, BatchTurnFacts
<1>5. /\ Looked(b) /\ \A c \in b.todo : b.found[c] = Null /\ redis[c] = Null
      /\ b.found \in [Comps -> OptValue]
  BY <1>2, <1>3 DEF BatchKnows, Batches
<1>6. /\ components \in [Comps -> OptValue] /\ columns \in [Comps -> OptKey]
      /\ \A c \in Listed(b) : c \in Comps
  BY <1>3, ListFacts DEF TypeOK, RowTypeOK
<1>7. CASE BatchNames(p)
  <2>1. PICK f : f = [c \in Comps |-> IF c \in b.todo \cap Persistent
                                      THEN components[c] ELSE b.found[c]]
    OBVIOUS
  <2>2. PICK t : t = b.todo \ Persistent
    OBVIOUS
  <2>3. PICK d : d = [b EXCEPT !.found = f, !.todo = t]
    OBVIOUS
  <2>4. BatchGoto(p, AfterCached(d))
    BY <1>1, <1>7, <2>1, <2>2, <2>3 DEF BatchNames
  <2>5. f \in [Comps -> OptValue] /\ t \subseteq Listed(b)
    BY <1>3, <1>5, <1>6, <2>1, <2>2 DEF Ready
  <2>6. /\ d \in Batches /\ d.op = b.op /\ d.snap = EmptyMap
        /\ d.found = f /\ d.todo = t /\ Listed(d) = Listed(b)
    <3>1. d \in Batches
      BY <1>3, <2>3, <2>5, Judged
    <3>2. /\ d.op = b.op /\ d.list = b.list /\ d.found = f /\ d.todo = t
          /\ d.snap = EmptyMap
      BY <1>3, <2>3 DEF Batches
    <3>3. QED BY <3>1, <3>2, SameList
  <2>7. Looked(d)
    <3> SUFFICES ASSUME NEW c \in Listed(b) \ t PROVE f[c] = Effective(c)
      BY <2>6 DEF Looked
    <3>1. CASE c \in b.todo \cap Persistent
      <4>1. c \in Comps /\ redis[c] = Null /\ f[c] = components[c]
        BY <1>5, <1>6, <2>1, <3>1
      <4>2. components[c] # Null => Effective(c) = components[c]
        BY <4>1 DEF Effective
      <4>3. components[c] = Null => Effective(c) = Null
        BY <1>3, <1>4, <3>1, <4>1, SoundFacts DEF Settled
      <4>4. QED BY <4>1, <4>2, <4>3
    <3>2. CASE c \notin b.todo
      BY <1>5, <1>6, <2>1, <3>2 DEF Looked
    <3>3. QED BY <2>2, <3>1, <3>2
  <2>8. \A c \in d.todo : d.found[c] = Null /\ redis[c] = Null
    BY <1>3, <1>5, <1>6, <2>1, <2>2, <2>6 DEF Ready
  <2>9. LookedUp(AfterCached(d))
    BY <1>3, <1>4, <2>6, <2>7, <2>8, AfterCachedKnows
  <2>10. QED BY <1>1, <1>2, <1>3, <1>4, <2>4, <2>9, NothingKnown, LookupGoes
<1>8. CASE BatchColumns(p)
  <2>1. PICK e \in b.todo \cap Projected :
          BatchGoto(p, AfterCached([b EXCEPT !.found[e] = FromColumn(columns[e]),
                                             !.todo = @ \ {e}]))
    BY <1>1, <1>2, <1>8 DEF BatchColumns, LoadPersistentProperties
  <2>2. PICK f : f = [b.found EXCEPT ![e] = FromColumn(columns[e])]
    OBVIOUS
  <2>3. PICK t : t = b.todo \ {e}
    OBVIOUS
  <2>4. PICK d : d = [b EXCEPT !.found = f, !.todo = t]
    OBVIOUS
  <2>5. BatchGoto(p, AfterCached(d))
    <3>1. [b EXCEPT !.found[e] = FromColumn(columns[e]), !.todo = @ \ {e}] = d
      BY <2>2, <2>3, <2>4
    <3>2. QED BY <2>1, <3>1
  <2>6. e \in Comps /\ redis[e] = Null /\ e \notin Persistent
    BY <1>1, <1>3, <1>5, <1>6, <1>8, <2>1
       DEF Ready, BatchColumns, BatchAt, BatchKnows
  <2>7. Effective(e) = FromColumn(columns[e])
    <3>1. components[e] = Null
      BY <1>3, <1>4, <2>6, SoundFacts DEF Settled
    <3>2. QED BY <2>6, <3>1 DEF Effective
  <2>8. f \in [Comps -> OptValue] /\ t \subseteq Listed(b)
    <3>1. Effective(e) \in OptValue
      BY <1>3, <2>6, EffectiveType
    <3>2. QED BY <1>3, <1>5, <2>2, <2>3, <2>6, <2>7, <3>1 DEF Ready
  <2>9. /\ d \in Batches /\ d.op = b.op /\ d.snap = EmptyMap
        /\ d.found = f /\ d.todo = t /\ Listed(d) = Listed(b)
    <3>1. d \in Batches
      BY <1>3, <2>4, <2>8, Judged
    <3>2. /\ d.op = b.op /\ d.list = b.list /\ d.found = f /\ d.todo = t
          /\ d.snap = EmptyMap
      BY <1>3, <2>4 DEF Batches
    <3>3. QED BY <3>1, <3>2, SameList
  <2>10. Looked(d)
    <3> SUFFICES ASSUME NEW c \in Listed(b) \ t PROVE f[c] = Effective(c)
      BY <2>9 DEF Looked
    <3>1. CASE c = e
      BY <1>5, <2>2, <2>6, <2>7, <3>1
    <3>2. CASE c # e
      BY <1>5, <1>6, <2>2, <2>3, <3>2 DEF Looked
    <3>3. QED BY <3>1, <3>2
  <2>11. \A c \in d.todo : d.found[c] = Null /\ redis[c] = Null
    BY <1>3, <1>5, <1>6, <2>2, <2>3, <2>9 DEF Ready
  <2>12. LookedUp(AfterCached(d))
    BY <1>3, <1>4, <2>9, <2>10, <2>11, AfterCachedKnows
  <2>13. QED BY <1>1, <1>2, <1>3, <1>4, <2>5, <2>12, NothingKnown, LookupGoes
<1>9. QED BY <1>7, <1>8

LEMMA BatchCheckTurn ==
    ASSUME NEW p, Undisturbed(p), TurnInv(p), BatchInv',
           BatchCheck(p) \/ BatchFind(p) \/ BatchReturn(p)
    PROVE  Implements(p)
<1>1. PICK b : b = batch[p]
  OBVIOUS
<1>2. /\ b.pc \in {"check", "find", "done"} /\ call' = call /\ ~Fault
      /\ UNCHANGED <<row, redis, log, faults>>
  BY <1>1, BatchTurnFacts
     DEF BatchCheck, BatchFind, BatchReturn, BatchAt, vars, row, Ok
<1>3. /\ p \in Procs /\ TypeOK /\ b \in Batches /\ BatchKnows(b)
      /\ Ready(b) /\ Fits(b) /\ b.snap = EmptyMap
      /\ call[p] = NoCall /\ call'[p] = NoCall
  BY <1>1, <1>2, BatchTurnFacts DEF BatchKnows
<1>4. Settled
  BY <1>1, <1>2, <1>3, BatchTurnFacts
<1>5. CASE BatchCheck(p)
  <2>1. b.pc = "check" /\ Prepared(b)
    BY <1>1, <1>3, <1>5 DEF BatchCheck, BatchAt, BatchKnows
  <2>2. CASE b.todo = {}
    <3>1. BatchGoto(p, AfterLookup(b))
      BY <1>1, <1>5, <2>2 DEF BatchCheck
    <3>2. LookedUp(AfterLookup(b))
      BY <1>3, <2>1, AfterLookupKnows
    <3>3. QED BY <1>1, <1>2, <1>3, <1>4, <3>1, <3>2, NothingKnown, LookupGoes
  <2>3. CASE b.todo # {}
    <3>1. PICK i \in 1..Len(b.list), x \in OptValue :
            /\ b.list[i][1] \in b.todo
            /\ BatchGoto(p, [b EXCEPT !.todo = @ \ {b.list[i][1]},
                   !.list = IF x # Null /\ b.found[b.list[i][1]] = b.list[i][2]
                            THEN Lists!RemoveAt(@, i) ELSE @])
      BY <1>1, <1>5, <2>3 DEF BatchCheck
    <3>2. PICK l \in {b.list, Lists!RemoveAt(b.list, i)} :
            l = IF x # Null /\ b.found[b.list[i][1]] = b.list[i][2]
                THEN Lists!RemoveAt(b.list, i) ELSE b.list
      OBVIOUS
    <3>3. PICK d : d = [b EXCEPT !.todo = @ \ {b.list[i][1]}, !.list = l]
      OBVIOUS
    <3>4. BatchGoto(p, d)
      BY <3>1, <3>2, <3>3
    <3>5. d.pc = b.pc /\ d.snap = b.snap /\ d.found = b.found
      BY <1>3, <3>3 DEF Batches
    <3>6. Listed(d) \subseteq Listed(b)
      <4>1. d.list = b.list \/ d.list = Lists!RemoveAt(b.list, i)
        BY <1>3, <3>3 DEF Batches
      <4>2. Listed(d) = IF d.list = b.list THEN Listed(b)
                        ELSE Listed(b) \ {b.list[i][1]}
        BY <1>3, <4>1, CheckedList DEF Ready
      <4>3. QED BY <4>2
    <3>7. LookedUp(d)
      BY <2>1, <3>5, <3>6, <1>3 DEF LookedUp, BatchKnows, Prepared
    <3>8. QED BY <1>1, <1>2, <1>3, <1>4, <3>4, <3>7, NothingKnown, LookupGoes
  <2>4. QED BY <2>2, <2>3
<1>6. CASE BatchFind(p)
  <2>1. b.pc = "find" /\ Prepared(b)
    BY <1>1, <1>3, <1>6 DEF BatchFind, BatchAt, BatchKnows
  <2>2. PICK d : d = IF exists
                     THEN [b EXCEPT !.pc = "update", !.snap = components]
                     ELSE [b EXCEPT !.pc = "insert"]
    OBVIOUS
  <2>3. BatchGoto(p, d)
    BY <1>1, <1>6, <2>2 DEF BatchFind
  <2>4. /\ d.pc = IF exists THEN "update" ELSE "insert"
        /\ d.list = b.list /\ d.found = b.found
        /\ d.snap = IF exists THEN components ELSE EmptyMap
    BY <1>3, <2>2 DEF Batches
  <2>5. Listed(d) = Listed(b)
    BY <2>4, SameList
  <2>6. LookedUp(d)
    BY <2>1, <2>4, <2>5 DEF LookedUp, BatchKnows, Prepared
  <2>7. QED BY <1>1, <1>2, <1>3, <1>4, <2>3, <2>6, NothingKnown, LookupGoes
<1>7. CASE BatchReturn(p)
  <2>1. BatchGoto(p, NoBatch)
    BY <1>7 DEF BatchReturn
  <2>2. QED BY <1>1, <1>2, <1>3, <1>4, <2>1, NothingKnown, NothingLookedUp,
               LookupGoes
<1>8. QED BY <1>5, <1>6, <1>7

-----------------------------------------------------------------------------
(* The writes of a batch.                                                  *)

(* The row holds what the batch lists; Redis is still to be written.       *)
LEMMA RowWritten ==
    ASSUME TypeOK, Settled, NEW b \in Batches, exists',
           components' = [c \in Comps |-> IF c \in Listed(b) \cap Persistent
                                          THEN ValueIn(b, c) ELSE components[c]],
           columns' = [c \in Comps |-> IF c \in Listed(b) \cap Projected
                                       THEN ValueIn(b, c).key ELSE columns[c]],
           redis' = redis
    PROVE  \A c \in Comps :
             /\ Sound(c, IF c \in Listed(b) THEN ValueIn(b, c) ELSE redis[c])'
             /\ c \notin Listed(b) => Effective(c)' = Effective(c)
<1> SUFFICES ASSUME NEW c \in Comps
             PROVE  /\ Sound(c, IF c \in Listed(b) THEN ValueIn(b, c)
                                ELSE redis[c])'
                    /\ c \notin Listed(b) => Effective(c)' = Effective(c)
  OBVIOUS
<1>1. Sound(c, redis[c])
  BY DEF Settled
<1>2. CASE c \notin Listed(b)
  <2>1. components'[c] = components[c] /\ columns'[c] = columns[c]
    BY <1>2
  <2>2. Sound(c, redis[c])'
    BY <1>1, <2>1 DEF Sound, Placed
  <2>3. Effective(c)' = Effective(c)
    BY <2>1 DEF Effective
  <2>4. QED BY <1>2, <2>2, <2>3
<1>3. CASE c \in Listed(b)
  <2>1. PICK v \in Values : v = ValueIn(b, c)
    BY <1>3, ListFacts
  <2>2. v # Null
    BY NullIsNoValue
  <2>3. /\ components'[c] = IF c \in Persistent THEN v ELSE components[c]
        /\ columns'[c] = IF c \in Projected THEN v.key ELSE columns[c]
    BY <1>3, <2>1
  <2>4. Sound(c, v)'
    BY <1>1, <2>2, <2>3 DEF Sound, Placed
  <2>5. QED BY <1>3, <2>1, <2>4
<1>4. QED BY <1>2, <1>3

LEMMA RowWrittenTurn ==
    ASSUME NEW p, Undisturbed(p), TurnInv(p), NEW b, b = batch[p],
           b.pc \in {"update", "insert"}, exists',
           components' = [c \in Comps |-> IF c \in Listed(b) \cap Persistent
                                          THEN ValueIn(b, c) ELSE components[c]],
           columns' = [c \in Comps |-> IF c \in Listed(b) \cap Projected
                                       THEN ValueIn(b, c).key ELSE columns[c]],
           UNCHANGED <<redis, call, log, faults>>,
           NEW d, batch'[p] = d, d.pc = "hset", d.snap = EmptyMap,
           d.list = b.list, d.found = b.found
    PROVE  Implements(p)
<1>1. /\ p \in Procs /\ TypeOK /\ b \in Batches /\ Prepared(b)
      /\ call[p] = NoCall /\ call'[p] = NoCall /\ Settled
  BY BatchTurnFacts DEF BatchKnows
<1>2. Listed(d) = Listed(b) /\ \A c : ValueIn(d, c) = ValueIn(b, c)
  BY SameList
<1>3. \A c \in Comps :
        /\ Sound(c, IF c \in Listed(b) THEN ValueIn(b, c) ELSE redis[c])'
        /\ c \notin Listed(b) => Effective(c)' = Effective(c)
  BY <1>1, RowWritten
<1>4. Knows(NoCall)' /\ NoCall.pc \notin SavingPCs /\ ~Announcing(NoCall)
  BY DEF NoCall, Knows, ReadKnows, GotKnows, SaveKnows, RemoveKnows,
         SavePCs, SavingPCs, Announcing
<1>5. BatchKnows(d)'
  BY DEF BatchKnows
<1>6. Turn(NoCall, d)'
  BY <1>2, <1>3, <1>4, <1>5 DEF Turn
<1>7. Turn(call[p], batch[p])' /\ faults' = 0
  BY <1>1, <1>6 DEF TurnInv
<1>8. \A c \in Comps : ValueAt(call[p], batch[p], c)'
                         = ValueAt(call[p], batch[p], c)
  BY <1>1, <1>2, <1>3, <1>4 DEF ValueAt, Prepared
<1>9. PendingAt(call[p], batch[p])' = PendingAt(call[p], batch[p])
  BY <1>1, <1>4 DEF PendingAt
<1>10. QED BY <1>7, <1>8, <1>9, StoreStutters DEF Implements

LEMMA BatchUpdateTurn ==
    ASSUME NEW p, Undisturbed(p), TurnInv(p), BatchUpdate(p)
    PROVE  Implements(p)
<1>1. PICK b : b = batch[p]
  OBVIOUS
<1>2. b.pc = "update"
  BY <1>1 DEF BatchUpdate, BatchAt
<1>3. b \in Batches /\ exists /\ b.snap = components
  BY <1>1, <1>2, BatchTurnFacts DEF BatchKnows
<1>4. PICK d : d = [b EXCEPT !.pc = "hset", !.snap = EmptyMap]
  OBVIOUS
<1>5. batch'[p] = d
  BY <1>1, <1>4, BatchTurnFacts DEF BatchUpdate
<1>6. /\ d.pc = "hset" /\ d.snap = EmptyMap
      /\ d.list = b.list /\ d.found = b.found
  BY <1>3, <1>4 DEF Batches
<1>7. /\ exists' /\ UNCHANGED <<redis, call, log, faults>>
      /\ components' = [c \in Comps |-> IF c \in Listed(b) \cap Persistent
                                        THEN ValueIn(b, c) ELSE components[c]]
      /\ columns' = [c \in Comps |-> IF c \in Listed(b) \cap Projected
                                     THEN ValueIn(b, c).key ELSE columns[c]]
  BY <1>1, <1>3 DEF BatchUpdate, NextComponents, NextColumns
<1>8. QED BY <1>1, <1>2, <1>5, <1>6, <1>7, RowWrittenTurn

(* Of an entity that has no row the stores hold nothing.                   *)
LEMMA NothingStored ==
    ASSUME NEW p, Undisturbed(p), Settled, ~exists, NEW c \in Comps
    PROVE  components[c] = Null /\ columns[c] = Null /\ DefaultColumns[c] = Null
<1>1. components[c] = Null /\ columns[c] = Null
  BY DEF Settled, Sound, Placed
<1>2. DefaultColumns[c] = Null
  BY DEF DefaultColumns, Undisturbed
<1>3. QED BY <1>1, <1>2

LEMMA BatchInsertTurn ==
    ASSUME NEW p, Undisturbed(p), TurnInv(p), BatchInsert(p)
    PROVE  Implements(p)
<1>1. PICK b : b = batch[p]
  OBVIOUS
<1>2. b.pc = "insert"
  BY <1>1 DEF BatchInsert, BatchAt
<1>3. /\ b \in Batches /\ ~exists /\ b.snap = EmptyMap
      /\ call[p] = NoCall /\ Settled
  BY <1>1, <1>2, BatchTurnFacts DEF BatchKnows
<1>4. PICK d : d = [b EXCEPT !.pc = "hset"]
  OBVIOUS
<1>5. PICK cols : cols = NextColumns(b, DefaultColumns)
  OBVIOUS
<1>6. ~InsertFails(cols)
  BY <1>3 DEF InsertFails, Undisturbed
<1>7. /\ InsertRow(NextComponents(b), cols) /\ BatchGoto(p, d)
      /\ UNCHANGED <<redis, call, log, faults>>
  BY <1>1, <1>4, <1>5, <1>6 DEF BatchInsert
<1>8. batch'[p] = d
  BY <1>1, <1>7, BatchTurnFacts
<1>9. /\ d.pc = "hset" /\ d.snap = EmptyMap
      /\ d.list = b.list /\ d.found = b.found
  BY <1>3, <1>4 DEF Batches
<1>10. \A c \in Comps : /\ EmptyMap[c] = components[c]
                        /\ DefaultColumns[c] = columns[c]
  BY <1>3, NothingStored DEF EmptyMap
<1>11. components' = [c \in Comps |-> IF c \in Listed(b) \cap Persistent
                                      THEN ValueIn(b, c) ELSE components[c]]
  BY <1>3, <1>7, <1>10 DEF InsertRow, NextComponents
<1>12. columns' = [c \in Comps |-> IF c \in Listed(b) \cap Projected
                                   THEN ValueIn(b, c).key ELSE columns[c]]
  BY <1>5, <1>7, <1>10 DEF InsertRow, NextColumns
<1>13. exists'
  BY <1>7 DEF InsertRow
<1>14. QED BY <1>1, <1>2, <1>7, <1>8, <1>9, <1>11, <1>12, <1>13,
              RowWrittenTurn

(* The hSet of a batch is its change, and its events tell it.              *)
LEMMA BatchTold ==
    ASSUME NEW b \in Batches, Ready(b), Fits(b), b.pc \in WritePCs,
           NEW c \in Listed(b), NEW e, e.val = ValueIn(b, c),
           e.type = BatchEventType(b, c)
    PROVE  Told(e, b.found[c], ValueIn(b, c))
<1>1. ~BatchRefused(b) /\ b.op \in {"adds", "updates", "upserts"}
  BY DEF Ready, Fits, AllBatchOps
<1>2. CASE b.op = "adds"
  BY <1>1, <1>2 DEF BatchRefused, BatchEventType, Told
<1>3. CASE b.op = "updates"
  BY <1>1, <1>3 DEF BatchRefused, BatchEventType, Told
<1>4. CASE b.op = "upserts"
  BY <1>4 DEF BatchEventType, Told
<1>5. QED BY <1>1, <1>2, <1>3, <1>4

LEMMA BatchHSetTurn ==
    ASSUME NEW p, Undisturbed(p), TurnInv(p), BatchHSet(p), BatchInv'
    PROVE  Implements(p)
<1>1. PICK b : b = batch[p]
  OBVIOUS
<1>2. b.pc = "hset"
  BY <1>1 DEF BatchHSet, BatchAt
<1>3. /\ p \in Procs /\ TypeOK /\ b \in Batches /\ Ready(b) /\ Fits(b)
      /\ b.snap = EmptyMap /\ call[p] = NoCall
  BY <1>1, <1>2, BatchTurnFacts DEF BatchKnows
<1>4. /\ call'[p] = NoCall /\ UNCHANGED <<exists, components, columns>>
      /\ UNCHANGED <<row, log, faults>>
      /\ redis' = [c \in Comps |-> IF c \in Listed(b) THEN ValueIn(b, c)
                                   ELSE redis[c]]
  BY <1>1, <1>3 DEF BatchHSet, row
<1>5. PICK d : d = [b EXCEPT !.pc = "emit"]
  OBVIOUS
<1>6. batch'[p] = d
  BY <1>1, <1>5, BatchTurnFacts DEF BatchHSet
<1>7. d \in Batches
  BY <1>3, <1>6 DEF BatchInv, BatchTypeOK
<1>8. /\ d.pc = "emit" /\ d.op = b.op /\ d.list = b.list
      /\ d.found = b.found /\ d.snap = EmptyMap
  BY <1>3, <1>5 DEF Batches
<1>9. /\ NoCall.pc \notin SavingPCs /\ Knows(NoCall)' /\ ~Announcing(NoCall)
  BY DEF NoCall, Knows, ReadKnows, GotKnows, SaveKnows, RemoveKnows,
         SavePCs, SavingPCs, Announcing
<1>10. \A c \in Comps : Sound(c, IF c \in Listed(b) THEN ValueIn(b, c)
                                 ELSE redis[c])
  BY <1>1, <1>2, <1>3, <1>9 DEF TurnInv, Turn
<1>11. Settled'
  BY <1>4, <1>10 DEF Settled, Sound, Placed
<1>12. BatchKnows(d)'
  BY <1>8 DEF BatchKnows
<1>13. Turn(NoCall, d)'
  BY <1>8, <1>9, <1>11, <1>12 DEF Turn
<1>14. Turn(call[p], batch[p])' /\ faults' = 0
  BY <1>4, <1>6, <1>13 DEF TurnInv
<1>15. ASSUME NEW c \in Comps
       PROVE  /\ ValueAt(call[p], batch[p], c)
                   = IF c \in Listed(b) THEN b.found[c] ELSE Effective(c)
              /\ ValueAt(call[p], batch[p], c)'
                   = IF c \in Listed(b) THEN ValueIn(b, c) ELSE Effective(c)
  <2>1. c \in Listed(b) => ValueIn(b, c) \in Values
    BY <1>3, ListFacts
  <2>2. Effective(c)' = IF c \in Listed(b) THEN ValueIn(b, c) ELSE Effective(c)
    BY <1>4, <2>1, NullIsNoValue DEF Effective
  <2>3. QED BY <1>1, <1>2, <1>3, <1>4, <1>6, <1>8, <1>9, <2>2 DEF ValueAt
<1>16. PICK t \in Seq(Events) : t = BatchEvents(d)
  BY <1>7, BatchEventsOK
<1>17. PICK s \in Seq(Store!Events) : s = Untagged(t)
  BY <1>16, UntaggedFacts
<1>18. PICK n \in Nat : n = Len(b.list) /\ n > 0
  BY <1>2, <1>3, ListFacts DEF Fits, WritePCs
<1>19. Len(t) = n /\ Len(s) = n
  BY <1>7, <1>8, <1>16, <1>17, <1>18, BatchEventsOK, UntaggedFacts
<1>20. ASSUME NEW i \in 1..n
       PROVE  /\ s[i].comp = b.list[i][1] /\ s[i].val = b.list[i][2]
              /\ s[i].type = BatchEventType(b, b.list[i][1])
  <2>1. s[i] = [type |-> t[i].type, comp |-> t[i].comp, val |-> t[i].val]
    BY <1>16, <1>17, <1>19, UntaggedFacts
  <2>2. /\ t[i].comp = b.list[i][1] /\ t[i].val = b.list[i][2]
        /\ t[i].type = BatchEventType(d, b.list[i][1])
    BY <1>7, <1>8, <1>16, <1>18, BatchEventsOK
  <2>3. BatchEventType(d, b.list[i][1]) = BatchEventType(b, b.list[i][1])
    BY <1>8 DEF BatchEventType
  <2>4. QED BY <2>1, <2>2, <2>3
<1>21. ASSUME NEW i \in 1..n
       PROVE  /\ s[i].comp \in Comps
              /\ Told(s[i], ValueAt(call[p], batch[p], s[i].comp),
                      ValueAt(call[p], batch[p], s[i].comp)')
  <2>1. PICK c \in Listed(b) : c = b.list[i][1]
    BY <1>3, <1>18, ListFacts
  <2>2. c \in Comps /\ s[i].comp = c
    BY <1>3, <1>20, <2>1, ListFacts
  <2>3. ValueIn(b, c) = b.list[i][2]
    BY <1>3, <1>18, <2>1, ListedValue DEF Ready
  <2>4. Told(s[i], b.found[c], ValueIn(b, c))
    BY <1>2, <1>3, <1>20, <2>1, <2>3, BatchTold DEF WritePCs
  <2>5. Told(s[i], ValueAt(call[p], batch[p], c), ValueAt(call[p], batch[p], c)')
    BY <1>15, <2>2, <2>4
  <2>6. QED BY <2>2, <2>5
<1>22. \A i, j \in 1..n : i # j => s[i].comp # s[j].comp
  BY <1>3, <1>18, <1>20 DEF Ready, Distinct
<1>23. ASSUME NEW c \in Comps, \A i \in 1..n : s[i].comp # c
       PROVE  ValueAt(call[p], batch[p], c)' = ValueAt(call[p], batch[p], c)
  <2>1. c \notin Listed(b)
    BY <1>18, <1>20, <1>23 DEF Listed
  <2>2. QED BY <1>15, <2>1
<1>24. s # <<>>
  BY <1>18, <1>19
<1>25. /\ PendingAt(call[p], batch[p]) = <<>>
       /\ PendingAt(call[p], batch[p])' = s
  BY <1>1, <1>2, <1>3, <1>4, <1>6, <1>8, <1>9, <1>16, <1>17 DEF PendingAt
<1>26. Store!Change
  <2>1. \A i, j \in 1..Len(s) : i # j => s[i].comp # s[j].comp
    BY <1>19, <1>22
  <2>2. \A i \in 1..Len(s) :
          /\ s[i].comp \in Comps
          /\ Told(s[i], ValueAt(call[p], batch[p], s[i].comp),
                  ValueAt(call[p], batch[p], s[i].comp)')
    BY <1>19, <1>21
  <2>3. \A c \in Comps : (\A i \in 1..Len(s) : s[i].comp # c)
          => ValueAt(call[p], batch[p], c)' = ValueAt(call[p], batch[p], c)
    BY <1>19, <1>23
  <2>4. QED BY <1>4, <1>24, <1>25, <2>1, <2>2, <2>3, StoreChanges
<1>27. QED BY <1>14, <1>26 DEF Implements, Store!Next

LEMMA BatchEmitTurn ==
    ASSUME NEW p, Undisturbed(p), TurnInv(p), BatchEmit(p)
    PROVE  Implements(p)
<1>1. PICK b : b = batch[p]
  OBVIOUS
<1>2. b.pc = "emit"
  BY <1>1 DEF BatchEmit, BatchAt
<1>3. /\ p \in Procs /\ TypeOK /\ b \in Batches /\ Fits(b)
      /\ call[p] = NoCall /\ Settled
  BY <1>1, <1>2, BatchTurnFacts
<1>4. /\ call'[p] = NoCall /\ batch'[p] = NoBatch
      /\ UNCHANGED <<row, redis, faults>>
  BY <1>1, <1>3, BatchTurnFacts DEF BatchEmit
<1>5. UNCHANGED <<exists, components, columns>>
  BY <1>4 DEF row
<1>6. Turn(NoCall, NoBatch)
  <2>1. BatchKnows(NoBatch) /\ NoBatch.pc # "hset"
    BY DEF BatchKnows, NoBatch
  <2>2. QED BY <1>3, <2>1, NothingKnown, LookingIsSilent DEF Turn
<1>7. Turn(NoCall, NoBatch)'
  BY <1>4, <1>5, <1>6, TurnFrame
<1>8. Turn(call[p], batch[p])' /\ faults' = 0
  BY <1>4, <1>7 DEF TurnInv
<1>9. ~Announcing(NoCall) /\ NoBatch.pc = "idle"
  BY DEF Announcing, NoCall, NoBatch
<1>10. \A c \in Comps : Effective(c)' = Effective(c)
  BY <1>4, <1>5 DEF Effective
<1>11. \A c \in Comps : ValueAt(call[p], batch[p], c)'
                          = ValueAt(call[p], batch[p], c)
  BY <1>1, <1>2, <1>3, <1>4, <1>9, <1>10 DEF ValueAt
<1>12. PICK t \in Seq(Events) : t = BatchEvents(b)
  BY <1>3, BatchEventsOK
<1>13. /\ PendingAt(call[p], batch[p]) = Untagged(t)
       /\ PendingAt(call[p], batch[p])' = <<>>
  BY <1>1, <1>2, <1>3, <1>4, <1>9, <1>12 DEF PendingAt
<1>14. Len(Untagged(t)) # 0
  <2>1. Len(b.list) # 0
    BY <1>2, <1>3, ListFacts DEF Fits, WritePCs
  <2>2. QED BY <1>3, <1>12, <2>1, BatchEventsOK, UntaggedFacts
<1>15. PendingAt(call[p], batch[p]) # <<>>
  BY <1>13, <1>14
<1>16. log' = log \o t /\ log \in Seq(Events)
  BY <1>1, <1>3, <1>12 DEF BatchEmit, TypeOK
<1>17. Untagged(log)' = Untagged(log')
  BY DEF Untagged
<1>18. Untagged(log)' = Untagged(log) \o PendingAt(call[p], batch[p])
  BY <1>13, <1>16, <1>17, UntaggedJoins
<1>19. Store!Publish
  BY <1>11, <1>13, <1>15, <1>18, StorePublishes
<1>20. QED BY <1>8, <1>19 DEF Implements, Store!Next

-----------------------------------------------------------------------------
(* The implementation.                                                     *)

LEMMA BatchTurn ==
    ASSUME NEW p, Undisturbed(p), TurnInv(p), BatchStep(p), BatchInv'
    PROVE  Implements(p)
<1>1. CASE BatchCache(p) \/ BatchFetch(p) \/ BatchFetched(p)
  BY <1>1, BatchLookupTurn
<1>2. CASE BatchNames(p) \/ BatchColumns(p)
  BY <1>2, BatchProbeTurn
<1>3. CASE BatchCheck(p) \/ BatchFind(p) \/ BatchReturn(p)
  BY <1>3, BatchCheckTurn
<1>4. CASE BatchUpdate(p) \/ BatchInsert(p) \/ BatchHSet(p) \/ BatchEmit(p)
  BY <1>4, BatchUpdateTurn, BatchInsertTurn, BatchHSetTurn, BatchEmitTurn
<1>5. QED BY <1>1, <1>2, <1>3, <1>4 DEF BatchStep

LEMMA TurnInvInit ==
    ASSUME NEW p, Undisturbed(p), TurnsInit PROVE TurnInv(p) /\ Store!Init
<1>1. BatchInit /\ p \in Procs
  BY TheCaller DEF TurnsInit
<1>2. BatchInv /\ TypeOK
  BY <1>1, BatchInvInit DEF BatchInv, BatchTypeOK
<1>3. /\ call[p] = NoCall /\ batch[p] = NoBatch /\ faults = 0 /\ log = <<>>
      /\ \A c \in Comps : StoresAgree(c)
  BY <1>1 DEF BatchInit, Init
<1>4. Settled
  BY <1>2, <1>3, SettledAgrees
<1>5. BatchKnows(NoBatch) /\ NoBatch.pc = "idle" /\ ~Announcing(NoCall)
  BY DEF BatchKnows, NoBatch, Announcing, NoCall
<1>6. Turn(NoCall, NoBatch)
  BY <1>4, <1>5, NothingKnown, LookingIsSilent DEF Turn
<1>7. TurnInv(p)
  BY <1>2, <1>3, <1>6 DEF TurnInv
<1>8. \A c \in Comps : AbstractValue(Caller, c) = Effective(c)
  BY <1>3, <1>5, TheCaller DEF AbstractValue, BatchAt
<1>9. [c \in Comps |-> AbstractValue(Caller, c)]
        \in [Comps -> Values \cup {Null}]
  BY <1>2, <1>8, EffectiveType DEF OptValue
<1>10. AbstractPending(Caller) = <<>>
  BY <1>3, <1>5, TheCaller DEF AbstractPending, BatchAt
<1>11. Untagged(log) = <<>>
  <2>1. Len(log) = 0
    BY <1>3
  <2>2. QED BY <2>1 DEF Untagged
<1>12. Store!Init
  BY <1>9, <1>10, <1>11
  DEF Store!Init, Contents, Unpublished, Published
<1>13. QED BY <1>7, <1>12

LEMMA TurnInvNext ==
    ASSUME NEW p, Undisturbed(p), TurnInv(p), [TurnsNext]_batchVars
    PROVE  TurnInv(p)' /\ [Store!Next]_Store!storeVars
<1>1. BatchInv'
  <2>1. [BatchNext]_batchVars
    BY DEF TurnsNext, BatchNext
  <2>2. QED BY <2>1, BatchInvNext DEF TurnInv
<1>2. CASE TurnsNext
  <2>1. SingleStep(p) \/ BatchStart(p) \/ BatchStep(p)
    BY <1>2, TheCaller DEF TurnsNext
  <2>2. Implements(p)
    BY <1>1, <2>1, SingleTurn, BatchStartTurn, BatchTurn
  <2>3. QED BY <1>1, <2>2 DEF Implements, TurnInv
<1>3. CASE UNCHANGED batchVars
  <2>1. UNCHANGED <<exists, components, columns, redis, call, batch, log, faults>>
    BY <1>3 DEF batchVars, vars, row
  <2>2. PICK k : k = call[p]
    OBVIOUS
  <2>3. PICK b : b = batch[p]
    OBVIOUS
  <2>4. Turn(k, b) /\ call'[p] = k /\ batch'[p] = b
    BY <2>1, <2>2, <2>3 DEF TurnInv
  <2>5. Turn(k, b)'
    BY <2>1, <2>4, TurnFrame
  <2>6. TurnInv(p)'
    BY <1>1, <2>1, <2>4, <2>5 DEF TurnInv
  <2>7. \A c : Effective(c)' = Effective(c)
    BY <2>1 DEF Effective
  <2>8. \A c \in Comps : ValueAt(call[p], batch[p], c)'
                           = ValueAt(call[p], batch[p], c)
    BY <2>1, <2>7 DEF ValueAt
  <2>9. PendingAt(call[p], batch[p])' = PendingAt(call[p], batch[p])
    BY <2>1 DEF PendingAt
  <2>10. QED BY <2>1, <2>6, <2>8, <2>9, StoreStutters
<1>4. QED BY <1>2, <1>3

(* To a caller that nobody disturbs the manager - single calls and batches *)
(* over Redis, the JSONB map and the projected columns - is the map of     *)
(* module ComponentStore: add creates, update changes, remove deletes,     *)
(* every change is published once and before the next, a batch is one      *)
(* change.  Of any size, for any number of calls, components and values.   *)
THEOREM TurnsImplementStore ==
    ASSUME NEW p, Undisturbed(p) PROVE TurnsSpec => ImplementsStore
<1>1. TurnsInit => TurnInv(p) /\ Store!Init
  BY TurnInvInit
<1>2. TurnInv(p) /\ [TurnsNext]_batchVars
        => TurnInv(p)' /\ [Store!Next]_Store!storeVars
  BY TurnInvNext
<1>3. QED BY <1>1, <1>2, PTL DEF TurnsSpec, ImplementsStore, Store!Spec

(* After any sequence of undisturbed calls and batches Redis, the JSONB    *)
(* map and the projected columns tell the same: whichever of them the next *)
(* getComponent has to ask, it returns the same value.                     *)
THEOREM StoresAgreeAfterTurns ==
    ASSUME NEW p, Undisturbed(p) PROVE TurnsSpec => []StoresAgreeWhenQuiet
<1>1. TurnsInit => TurnInv(p)
  BY TurnInvInit
<1>2. TurnInv(p) /\ [TurnsNext]_batchVars => TurnInv(p)'
  BY TurnInvNext
<1>3. TurnInv(p) => StoresAgreeWhenQuiet
  <2> SUFFICES ASSUME TurnInv(p), Quiet, batch = [q \in Procs |-> NoBatch]
               PROVE  \A c \in Comps : StoresAgree(c)
    BY DEF StoresAgreeWhenQuiet
  <2>1. call[p].pc = "idle" /\ batch[p] = NoBatch
    BY TurnFacts DEF Quiet, At
  <2>2. NoBatch.pc # "hset"
    BY DEF NoBatch
  <2>3. Settled
    BY <2>1, <2>2 DEF TurnInv, Turn, SavingPCs, SavePCs
  <2>4. QED BY <2>3, TurnFacts, SettledAgrees
<1>4. QED BY <1>1, <1>2, <1>3, PTL DEF TurnsSpec
=============================================================================
