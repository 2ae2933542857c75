----------------------- MODULE ComponentManagerProofs -----------------------
(***************************************************************************)
(* What holds of ComponentManager for any number of callers, components,   *)
(* values, calls and failures.                                             *)
(***************************************************************************)
EXTENDS ComponentManager, TLAPS

-----------------------------------------------------------------------------
(* Facts about the data.                                                   *)

(* The absent value is no component instance and no key.                   *)
LEMMA NullIsNoValue == Null \notin Values /\ Null \notin Keys
BY StorageAssumption DEF StorageAssumption, Values

(* A component rebuilt from a column is an instance, an empty column none. *)
LEMMA FromColumnType ==
    ASSUME NEW k \in OptKey
    PROVE  /\ FromColumn(k) \in OptValue
           /\ k # Null => FromColumn(k) \in Values
BY StorageAssumption DEF StorageAssumption, FromColumn, OptKey, OptValue, Values

LEMMA EmptyMapType == EmptyMap \in [Comps -> OptValue]
BY DEF EmptyMap, OptValue

LEMMA ColumnTypes ==
    /\ DefaultColumns \in [Comps -> OptKey]
    /\ \A k \in OptKey : ClearedKey(k) \in OptKey
BY StorageAssumption DEF StorageAssumption, DefaultColumns, ClearedKey, OptKey

LEMMA NoCallOK == NoCall \in Calls /\ CallOK(NoCall)
BY EmptyMapType DEF NoCall, Calls, CallOK, OptValue, OptKey, AllOps, PCs, SavePCs

-----------------------------------------------------------------------------
(* The next call record of every request is well formed.                   *)

LEMMA AfterGetOK ==
    ASSUME NEW k \in Calls, CallOK(k), NEW x \in OptValue,
           k.pc \in {"get.redis", "get.jsonb", "get.columns", "get.warm"}
    PROVE  AfterGet(k, x) \in Calls /\ CallOK(AfterGet(k, x))
<1>1. \/ AfterGet(k, x) = NoCall
      \/ /\ k.op = "update"
         /\ AfterGet(k, x) = [k EXCEPT !.pc = "update.set", !.found = x]
      \/ /\ k.op = "upsert"
         /\ \/ AfterGet(k, x) = [k EXCEPT !.op = "add", !.pc = "has.redis",
                                          !.found = Null]
            \/ AfterGet(k, x) = [k EXCEPT !.pc = "upsert.check", !.found = x]
            \/ AfterGet(k, x) = [k EXCEPT !.op = "update", !.pc = "get.redis",
                                          !.found = Null]
      \/ /\ k.op = "remove"
         /\ AfterGet(k, x) = [k EXCEPT !.pc = "remove.del", !.found = x]
      \/ /\ k.op = "guard"
         /\ AfterGet(k, x) = [k EXCEPT !.pc = "guard.write", !.found = Null]
      \/ /\ k.op = "fetch"
         /\ AfterGet(k, x) = [k EXCEPT !.pc = "fetched", !.found = x]
  BY Zenon DEF AfterGet
<1>2. Null \in OptValue
  BY DEF OptValue
<1>3. ASSUME NEW q \in PCs, NEW f \in OptValue, NEW o \in AllOps
      PROVE  /\ [k EXCEPT !.pc = q, !.found = f] \in Calls
             /\ [k EXCEPT !.op = o, !.pc = q, !.found = f] \in Calls
  BY Zenon DEF Calls
<1>4. /\ "update.set" \in PCs /\ "has.redis" \in PCs /\ "upsert.check" \in PCs
      /\ "get.redis" \in PCs /\ "remove.del" \in PCs /\ "guard.write" \in PCs
      /\ "fetched" \in PCs
      /\ "add" \in AllOps /\ "update" \in AllOps
  BY DEF PCs, AllOps
<1>5. AfterGet(k, x) \in Calls
  <2>1. /\ [k EXCEPT !.pc = "update.set", !.found = x] \in Calls
        /\ [k EXCEPT !.pc = "upsert.check", !.found = x] \in Calls
        /\ [k EXCEPT !.pc = "remove.del", !.found = x] \in Calls
        /\ [k EXCEPT !.pc = "guard.write", !.found = Null] \in Calls
        /\ [k EXCEPT !.pc = "fetched", !.found = x] \in Calls
    BY Zenon, <1>2, <1>3, <1>4
  <2>2. /\ [k EXCEPT !.op = "add", !.pc = "has.redis", !.found = Null] \in Calls
        /\ [k EXCEPT !.op = "update", !.pc = "get.redis", !.found = Null]
             \in Calls
    BY Zenon, <1>2, <1>3, <1>4
  <2>3. QED BY Zenon, <1>1, <2>1, <2>2, NoCallOK
<1>6. CASE k.op = "upsert"
  <2>1. CallOK([k EXCEPT !.op = "add", !.pc = "has.redis", !.found = Null])
    BY <1>6 DEF Calls, CallOK, SavePCs
  <2>2. CallOK([k EXCEPT !.pc = "upsert.check", !.found = x])
    BY <1>6 DEF Calls, CallOK, SavePCs
  <2>3. CallOK([k EXCEPT !.op = "update", !.pc = "get.redis", !.found = Null])
    BY <1>6 DEF Calls, CallOK, SavePCs
  <2>4. QED BY <1>1, <1>5, <1>6, <2>1, <2>2, <2>3, NoCallOK
<1>7. CASE k.op # "upsert"
  <2>1. CASE k.op = "update"
    <3>1. CallOK([k EXCEPT !.pc = "update.set", !.found = x])
      BY <2>1 DEF Calls, CallOK, SavePCs
    <3>2. \/ AfterGet(k, x) = NoCall
          \/ AfterGet(k, x) = [k EXCEPT !.pc = "update.set", !.found = x]
      BY <2>1, <1>1
    <3>3. QED BY <1>5, <3>1, <3>2, NoCallOK
  <2>2. CASE k.op = "remove"
    <3>1. CallOK([k EXCEPT !.pc = "remove.del", !.found = x])
      BY <2>2 DEF Calls, CallOK, SavePCs
    <3>2. \/ AfterGet(k, x) = NoCall
          \/ AfterGet(k, x) = [k EXCEPT !.pc = "remove.del", !.found = x]
      BY <2>2, <1>1
    <3>3. QED BY <1>5, <3>1, <3>2, NoCallOK
  <2>3. CASE k.op = "guard"
    <3>1. CallOK([k EXCEPT !.pc = "guard.write", !.found = Null])
      BY <2>3 DEF Calls, CallOK, SavePCs
    <3>2. \/ AfterGet(k, x) = NoCall
          \/ AfterGet(k, x) = [k EXCEPT !.pc = "guard.write", !.found = Null]
      BY <2>3, <1>1
    <3>3. QED BY <1>5, <3>1, <3>2, NoCallOK
  <2>4. CASE k.op = "fetch"
    <3>1. CallOK([k EXCEPT !.pc = "fetched", !.found = x])
      BY <2>4 DEF Calls, CallOK, SavePCs
    <3>2. \/ AfterGet(k, x) = NoCall
          \/ AfterGet(k, x) = [k EXCEPT !.pc = "fetched", !.found = x]
      BY <2>4, <1>1
    <3>3. QED BY <1>5, <3>1, <3>2, NoCallOK
  <2>5. CASE k.op \notin {"update", "remove", "guard", "fetch"}
    BY Zenon, <1>1, <1>7, <2>5, NoCallOK DEF AfterGet
  <2>6. QED BY <2>1, <2>2, <2>3, <2>4, <2>5
<1>8. QED BY <1>6, <1>7

LEMMA AfterAbsentOK ==
    ASSUME NEW k \in Calls, CallOK(k),
           k.pc \in {"has.redis", "has.jsonb", "has.columns"}
    PROVE  AfterAbsent(k) \in Calls /\ CallOK(AfterAbsent(k))
BY NoCallOK DEF AfterAbsent, Calls, CallOK, PCs, SavePCs

LEMMA AfterColumnsOK ==
    ASSUME NEW k \in Calls, CallOK(k), k.op \in {"add", "update"}
    PROVE  /\ AfterColumns(k) \in Calls /\ CallOK(AfterColumns(k))
           /\ AfterCacheWrite(k) \in Calls /\ CallOK(AfterCacheWrite(k))
BY DEF AfterColumns, AfterCacheWrite, Calls, CallOK, PCs, SavePCs

LEMMA AfterRemovedColumnsOK ==
    ASSUME NEW k \in Calls, CallOK(k), k.op = "remove"
    PROVE  AfterRemovedColumns(k) \in Calls /\ CallOK(AfterRemovedColumns(k))
BY DEF AfterRemovedColumns, Calls, CallOK, PCs, SavePCs

-----------------------------------------------------------------------------
(* The records a step leaves behind.                                       *)

LEMMA CallFields ==
    ASSUME NEW k \in Calls, NEW q \in PCs
    PROVE  /\ [k EXCEPT !.pc = q] \in Calls
           /\ \A f \in OptValue :
                /\ [k EXCEPT !.pc = q, !.found = f] \in Calls
                /\ \A o \in AllOps :
                     [k EXCEPT !.op = o, !.pc = q, !.found = f] \in Calls
           /\ \A m \in [Comps -> OptValue] :
                [k EXCEPT !.pc = q, !.snap = m] \in Calls
           /\ \A n \in Nat : [k EXCEPT !.pc = q, !.epoch = n] \in Calls
BY Zenon DEF Calls

(* What a caller at a request has at hand.                                 *)
LEMMA CallFacts ==
    ASSUME TypeOK, NEW p \in Procs
    PROVE  /\ call[p] \in Calls /\ CallOK(call[p])
           /\ call[p].op \in AllOps \cup {"idle", "fetch"}
           /\ call[p].comp \in Comps \cup {Null}
           /\ call[p].val \in OptValue /\ call[p].found \in OptValue
           /\ call[p].snap \in [Comps -> OptValue]
           /\ call[p].epoch \in Nat
           /\ ~At(p, "idle") => call[p].comp \in Comps
BY DEF TypeOK, Calls, CallOK, At

LEMMA GotoOK ==
    ASSUME TypeOK, NEW p \in Procs, NEW k \in Calls, CallOK(k), Goto(p, k)
    PROVE  call' \in [Procs -> Calls] /\ \A q \in Procs : CallOK(call'[q])
BY DEF TypeOK, Goto

LEMMA ReturnOK ==
    ASSUME TypeOK, NEW p \in Procs, Return(p)
    PROVE  call' \in [Procs -> Calls] /\ \A q \in Procs : CallOK(call'[q])
BY GotoOK, NoCallOK DEF Return

LEMMA FaultsOK ==
    ASSUME TypeOK, Ok \/ Fault
    PROVE  faults' \in Nat
BY DEF TypeOK, Ok, Fault

LEMMA RowOK ==
    ASSUME TypeOK, UNCHANGED row
    PROVE  RowTypeOK'
BY DEF TypeOK, RowTypeOK, row

-----------------------------------------------------------------------------
(* Type correctness, one step per action.                                  *)

LEMMA TypeStart ==
    ASSUME TypeOK, NEW p \in Procs, Start(p) PROVE TypeOK'
<1>1. PICK op \in Ops, c \in Comps, v \in Values, e \in Keys :
         Goto(p, [op |-> op, comp |-> c,
                  val |-> IF op \in {"get", "has", "remove"} THEN Null ELSE v,
                  expect |-> IF op = "guard" THEN e ELSE Null,
                  pc |-> IF op \in {"add", "has"} THEN "has.redis"
                         ELSE "get.redis",
                  found |-> Null, snap |-> EmptyMap, epoch |-> 0])
  BY DEF Start
<1> DEFINE w == IF op \in {"get", "has", "remove"} THEN Null ELSE v
           x == IF op = "guard" THEN e ELSE Null
           q == IF op \in {"add", "has"} THEN "has.redis" ELSE "get.redis"
           k == [op |-> op, comp |-> c, val |-> w, expect |-> x, pc |-> q,
                 found |-> Null, snap |-> EmptyMap, epoch |-> 0]
<1>2. w \in OptValue /\ x \in OptKey /\ q \in PCs /\ op \in AllOps
  BY CallerAssumption DEF CallerAssumption, OptValue, OptKey, PCs
<1>3. /\ op \in {"add", "update", "upsert", "guard"} => w \in Values
      /\ \/ q = "has.redis" /\ op \in {"add", "has"}
         \/ q = "get.redis" /\ op \in {"get", "update", "upsert", "remove",
                                       "guard"}
  BY <1>2 DEF AllOps
<1>4. k.op = op /\ k.pc = q /\ k.comp = c /\ k.val = w
  OBVIOUS
<1>5. Goto(p, k)
  BY <1>1
<1> HIDE DEF w, x, q
<1>6. k \in Calls
  <2>1. /\ op \in AllOps \cup {"idle", "fetch"} /\ c \in Comps \cup {Null}
        /\ Null \in OptValue /\ 0 \in Nat
    BY <1>2 DEF OptValue
  <2>2. QED BY Zenon, <1>2, <1>4, <2>1, EmptyMapType DEF Calls
<1> HIDE DEF k
<1>7. CallOK(k)
  BY <1>3, <1>4 DEF CallOK, SavePCs
<1>8. call' \in [Procs -> Calls] /\ \A r \in Procs : CallOK(call'[r])
  BY <1>6, <1>7, <1>5, GotoOK
<1>9. QED BY <1>8, RowOK DEF Start, TypeOK

LEMMA TypeProbe ==
    ASSUME TypeOK, NEW p \in Procs, Probe(p) PROVE TypeOK'
<1> DEFINE k == call[p]
<1>1. k \in Calls /\ CallOK(k)
  BY CallFacts
<1>2. CASE HasRedis(p)
  <2>1. k.pc = "has.redis"
    BY <1>2 DEF HasRedis, At
  <2>2. /\ [k EXCEPT !.pc = "has.jsonb"] \in Calls
        /\ [k EXCEPT !.pc = "has.columns"] \in Calls
        /\ CallOK([k EXCEPT !.pc = "has.jsonb"])
        /\ CallOK([k EXCEPT !.pc = "has.columns"])
    BY <1>1, <2>1 DEF Calls, CallOK, PCs, SavePCs
  <2>3. QED BY <1>1, <1>2, <2>1, <2>2, AfterAbsentOK, NoCallOK, GotoOK, RowOK
            DEF HasRedis, TypeOK
<1>3. CASE HasJsonb(p)
  <2>1. k.pc = "has.jsonb"
    BY <1>3 DEF HasJsonb, At
  <2>2. ASSUME NEW x \in OptValue, x # Null
        PROVE  /\ [k EXCEPT !.pc = "has.warm", !.found = x] \in Calls
               /\ CallOK([k EXCEPT !.pc = "has.warm", !.found = x])
    <3>1. [k EXCEPT !.pc = "has.warm", !.found = x] \in Calls
      BY Zenon, <1>1, CallFields, "has.warm" \in PCs DEF PCs
    <3>2. QED BY <1>1, <2>1, <2>2, <3>1 DEF Calls, CallOK, SavePCs
  <2>3. PICK x \in OptValue :
             /\ Ok \/ Fault
             /\ Goto(p, IF x # Null THEN [k EXCEPT !.pc = "has.warm", !.found = x]
                        ELSE AfterAbsent(k))
    BY <1>3 DEF HasJsonb
  <2>4. AfterAbsent(k) \in Calls /\ CallOK(AfterAbsent(k))
    BY <1>1, <2>1, AfterAbsentOK
  <2>5. call' \in [Procs -> Calls] /\ \A r \in Procs : CallOK(call'[r])
    <3>1. CASE x # Null
      BY <2>2, <2>3, <3>1, GotoOK
    <3>2. CASE x = Null
      BY <2>3, <2>4, <3>2, GotoOK
    <3>3. QED BY <3>1, <3>2
  <2>6. UNCHANGED <<row, redis, log, calls, epoch, committed>>
    BY <1>3 DEF HasJsonb
  <2>7. faults' \in Nat /\ RowTypeOK'
    BY <2>3, <2>6, RowOK, FaultsOK
  <2>8. QED BY <2>5, <2>6, <2>7 DEF TypeOK
<1>4. CASE HasWarm(p)
  BY <1>4, CallFacts, ReturnOK, RowOK DEF HasWarm, TypeOK, At
<1>5. CASE HasColumns(p)
  BY <1>1, <1>5, AfterAbsentOK, NoCallOK, GotoOK, RowOK, FaultsOK
     DEF HasColumns, At, TypeOK
<1>6. QED BY <1>2, <1>3, <1>4, <1>5 DEF Probe

LEMMA TypeRead ==
    ASSUME TypeOK, NEW p \in Procs, Read(p) PROVE TypeOK'
<1> DEFINE k == call[p]
<1>1. /\ k \in Calls /\ CallOK(k)
      /\ k.pc \in {"get.redis", "get.jsonb", "get.columns", "get.warm"}
  BY CallFacts DEF Read, GetRedis, GetJsonb, GetColumns, GetWarm, At
<1>2. k.comp \in Comps
  BY <1>1 DEF CallOK
<1>3. \A x \in OptValue : AfterGet(k, x) \in Calls /\ CallOK(AfterGet(k, x))
  BY <1>1, AfterGetOK
<1>4. /\ [k EXCEPT !.pc = "get.jsonb"] \in Calls
      /\ [k EXCEPT !.pc = "get.columns"] \in Calls
      /\ CallOK([k EXCEPT !.pc = "get.jsonb"])
      /\ CallOK([k EXCEPT !.pc = "get.columns"])
  BY <1>1 DEF Calls, CallOK, PCs, SavePCs
<1>5. ASSUME NEW x \in OptValue, x # Null
      PROVE  /\ [k EXCEPT !.pc = "get.warm", !.found = x] \in Calls
             /\ CallOK([k EXCEPT !.pc = "get.warm", !.found = x])
  <2>1. [k EXCEPT !.pc = "get.warm", !.found = x] \in Calls
    BY Zenon, <1>1, CallFields, "get.warm" \in PCs DEF PCs
  <2>2. QED BY <1>1, <1>5, <2>1 DEF Calls, CallOK, SavePCs
<1>6. Null \in OptValue
  BY DEF OptValue
<1>7. CASE GetRedis(p)
  <2>1. redis[k.comp] \in OptValue
    BY <1>2 DEF TypeOK
  <2>2. PICK n \in Calls : CallOK(n) /\ Goto(p, n)
    BY <1>3, <1>4, <1>6, <1>7, <2>1 DEF GetRedis
  <2>3. call' \in [Procs -> Calls] /\ \A r \in Procs : CallOK(call'[r])
    BY <2>2, GotoOK
  <2>4. QED BY <1>7, <2>3, RowOK DEF GetRedis, TypeOK
<1>8. CASE GetJsonb(p)
  <2>1. PICK x \in OptValue :
          /\ Ok \/ Fault
          /\ Goto(p, IF x # Null THEN [k EXCEPT !.pc = "get.warm", !.found = x]
                     ELSE IF k.comp \in Projected
                          THEN [k EXCEPT !.pc = "get.columns"]
                     ELSE AfterGet(k, Null))
    BY <1>8 DEF GetJsonb
  <2>2. PICK n \in Calls : CallOK(n) /\ Goto(p, n)
    BY <1>3, <1>4, <1>5, <1>6, <2>1
  <2>3. call' \in [Procs -> Calls] /\ \A r \in Procs : CallOK(call'[r])
    BY <2>2, GotoOK
  <2>4. UNCHANGED <<row, redis, log, calls, epoch, committed>>
    BY <1>8 DEF GetJsonb
  <2>5. faults' \in Nat
    BY <2>1, FaultsOK
  <2>6. QED BY <2>3, <2>4, <2>5, RowOK DEF TypeOK
<1>9. CASE GetColumns(p)
  <2>1. PICK x \in OptKey :
          /\ Ok \/ Fault
          /\ Goto(p, IF x # Null
                     THEN [k EXCEPT !.pc = "get.warm", !.found = FromColumn(x)]
                     ELSE AfterGet(k, Null))
    BY <1>9 DEF GetColumns
  <2>2. x # Null => FromColumn(x) \in OptValue /\ FromColumn(x) # Null
    BY FromColumnType, NullIsNoValue
  <2>3. PICK n \in Calls : CallOK(n) /\ Goto(p, n)
    BY <1>3, <1>5, <1>6, <2>1, <2>2
  <2>4. call' \in [Procs -> Calls] /\ \A r \in Procs : CallOK(call'[r])
    BY <2>3, GotoOK
  <2>5. UNCHANGED <<row, redis, log, calls, epoch, committed>>
    BY <1>9 DEF GetColumns
  <2>6. faults' \in Nat
    BY <2>1, FaultsOK
  <2>7. QED BY <2>4, <2>5, <2>6, RowOK DEF TypeOK
<1>10. CASE GetWarm(p)
  <2>1. k.found \in OptValue
    BY CallFacts
  <2>2. call' \in [Procs -> Calls] /\ \A r \in Procs : CallOK(call'[r])
    BY <1>3, <1>10, <2>1, GotoOK DEF GetWarm
  <2>3. redis' \in [Comps -> OptValue]
    BY <1>10, <2>1 DEF GetWarm, TypeOK
  <2>4. QED BY <1>10, <2>2, <2>3, RowOK DEF GetWarm, TypeOK
<1>11. QED BY <1>7, <1>8, <1>9, <1>10 DEF Read

(* An add or update that has a Redis answer carries a value.               *)
LEMMA CacheWriteOK ==
    ASSUME NEW k \in Calls, CallOK(k), k.op \in {"add", "update"},
           NEW n \in Nat
    PROVE  /\ [AfterCacheWrite(k) EXCEPT !.epoch = n] \in Calls
           /\ CallOK([AfterCacheWrite(k) EXCEPT !.epoch = n])
           /\ [AfterCacheWrite(k) EXCEPT !.found = Null] \in Calls
           /\ CallOK([AfterCacheWrite(k) EXCEPT !.found = Null])
<1> DEFINE m == AfterCacheWrite(k)
<1>1. m \in Calls /\ CallOK(m) /\ m.pc \in SavePCs \cup {"emit"}
  <2>1. m \in Calls /\ CallOK(m)
    BY AfterColumnsOK
  <2>2. \/ m = [k EXCEPT !.pc = "columns.find"]
        \/ m = [k EXCEPT !.pc = "jsonb.find"]
        \/ m = [k EXCEPT !.pc = "emit"]
    BY Zenon DEF AfterCacheWrite, AfterColumns
  <2>3. m.pc = "columns.find" \/ m.pc = "jsonb.find" \/ m.pc = "emit"
    <3> HIDE DEF m
    <3>1. QED BY <2>2 DEF Calls
  <2>4. m.pc \in SavePCs \cup {"emit"}
    <3> HIDE DEF m
    <3>1. QED BY <2>3 DEF SavePCs
  <2>5. QED BY Zenon, <2>1, <2>4
<1> HIDE DEF m
<1>2. Null \in OptValue
  BY DEF OptValue
<1>3. /\ [m EXCEPT !.epoch = n] \in Calls /\ [m EXCEPT !.found = Null] \in Calls
  BY Zenon, <1>1, <1>2 DEF Calls
<1>4. CallOK([m EXCEPT !.epoch = n]) /\ CallOK([m EXCEPT !.found = Null])
  BY <1>1 DEF Calls, CallOK, SavePCs
<1>5. QED BY <1>3, <1>4 DEF m

LEMMA TypeUpsertCheck ==
    ASSUME TypeOK, NEW p \in Procs, UpsertCheck(p) PROVE TypeOK'
<1> DEFINE k == call[p]
           n == [k EXCEPT !.op = "update", !.pc = "get.redis", !.found = Null]
<1>1. k \in Calls /\ CallOK(k) /\ k.pc = "upsert.check"
  BY CallFacts DEF UpsertCheck, At
<1>2. n \in Calls
  <2>1. "update" \in AllOps /\ "get.redis" \in PCs /\ Null \in OptValue
    BY DEF AllOps, PCs, OptValue
  <2>2. QED BY Zenon, <1>1, <2>1, CallFields
<1>3. CallOK(n)
  BY <1>1 DEF Calls, CallOK, SavePCs
<1>4. /\ Ok \/ Fault
      /\ Goto(p, NoCall) \/ Goto(p, n)
  BY DEF UpsertCheck
<1>5. call' \in [Procs -> Calls] /\ \A r \in Procs : CallOK(call'[r])
  BY <1>2, <1>3, <1>4, NoCallOK, GotoOK
<1>6. UNCHANGED <<row, redis, log, calls, epoch, committed>>
  BY DEF UpsertCheck
<1>7. faults' \in Nat
  BY <1>4, FaultsOK
<1>8. QED BY <1>5, <1>6, <1>7, RowOK DEF TypeOK

LEMMA TypeAddClaim ==
    ASSUME TypeOK, NEW p \in Procs, AddClaim(p) PROVE TypeOK'
<1> DEFINE k == call[p]
<1>1. /\ k \in Calls /\ CallOK(k) /\ k.val \in OptValue /\ k.comp \in Comps
      /\ k.op = "add"
  BY CallFacts DEF AddClaim, At, CallOK
<1>2. epoch[k.comp] \in Nat
  BY <1>1 DEF TypeOK
<1>3. PICK n \in Calls : CallOK(n) /\ Goto(p, n)
  BY <1>1, <1>2, NoCallOK, CacheWriteOK DEF AddClaim, Return
<1>4. call' \in [Procs -> Calls] /\ \A r \in Procs : CallOK(call'[r])
  BY <1>3, GotoOK
<1>5. redis' \in [Comps -> OptValue]
  BY <1>1 DEF AddClaim, TypeOK
<1>6. UNCHANGED <<row, log, calls, faults, epoch, committed>>
  BY DEF AddClaim
<1>7. QED BY <1>4, <1>5, <1>6, RowOK DEF TypeOK

LEMMA TypeUpdateSet ==
    ASSUME TypeOK, NEW p \in Procs, UpdateSet(p) PROVE TypeOK'
<1> DEFINE k == call[p]
<1>1. /\ k \in Calls /\ CallOK(k) /\ k.val \in OptValue /\ k.comp \in Comps
      /\ k.op = "update" /\ k.epoch \in Nat
  BY CallFacts DEF UpdateSet, At, CallOK
<1>2. call' \in [Procs -> Calls] /\ \A r \in Procs : CallOK(call'[r])
  BY <1>1, CacheWriteOK, GotoOK DEF UpdateSet
<1>3. redis' \in [Comps -> OptValue]
  BY <1>1 DEF UpdateSet, TypeOK
<1>4. QED BY <1>2, <1>3, RowOK DEF UpdateSet, TypeOK

LEMMA TypeSave ==
    ASSUME TypeOK, NEW p \in Procs, Save(p) PROVE TypeOK'
<1> DEFINE k == call[p]
<1>1. /\ k \in Calls /\ CallOK(k) /\ k.comp \in Comps
      /\ k.op \in {"add", "update"} /\ k.val \in Values
      /\ k.pc \in SavePCs
      /\ k.snap \in [Comps -> OptValue]
  BY CallFacts DEF Save, ColumnsFind, ColumnsUpdate, ColumnsInsert, JsonbFind,
                   JsonbUpdate, JsonbInsert, At, CallOK, SavePCs
<1>2. k.val.key \in OptKey
  BY <1>1 DEF Values, OptKey
<1>3. AfterColumns(k) \in Calls /\ CallOK(AfterColumns(k))
  BY <1>1, AfterColumnsOK
<1>4. ASSUME NEW q \in SavePCs \cup {"emit"}
      PROVE  /\ [k EXCEPT !.pc = q] \in Calls /\ CallOK([k EXCEPT !.pc = q])
             /\ \A m \in [Comps -> OptValue] :
                  /\ [k EXCEPT !.pc = q, !.snap = m] \in Calls
                  /\ CallOK([k EXCEPT !.pc = q, !.snap = m])
  <2>1. q \in PCs
    BY <1>4 DEF PCs, SavePCs
  <2>2. /\ [k EXCEPT !.pc = q] \in Calls
        /\ \A m \in [Comps -> OptValue] : [k EXCEPT !.pc = q, !.snap = m] \in Calls
    BY Zenon, <1>1, <2>1, CallFields
  <2>3. CallOK([k EXCEPT !.pc = q])
    BY <1>1, <1>4 DEF Calls, CallOK, SavePCs
  <2>4. ASSUME NEW m \in [Comps -> OptValue]
        PROVE  CallOK([k EXCEPT !.pc = q, !.snap = m])
    BY <1>1, <1>4 DEF Calls, CallOK, SavePCs
  <2>5. QED BY <2>2, <2>3, <2>4
<1>5. PICK n \in Calls : CallOK(n) /\ Goto(p, n)
  <2>1. components \in [Comps -> OptValue]
    BY DEF TypeOK, RowTypeOK
  <2>2. CASE ColumnsFind(p)
    BY <1>3, <1>4, <2>2 DEF ColumnsFind, SavePCs
  <2>3. CASE ColumnsUpdate(p) \/ ColumnsInsert(p)
    BY <1>3, <2>3 DEF ColumnsUpdate, ColumnsInsert
  <2>4. CASE JsonbFind(p)
    BY <1>4, <2>1, <2>4 DEF JsonbFind, SavePCs
  <2>5. CASE JsonbUpdate(p)
    BY <1>4, <2>5, EmptyMapType DEF JsonbUpdate, SavePCs
  <2>6. CASE JsonbInsert(p)
    BY <1>4, <2>6, NoCallOK DEF JsonbInsert, Return
  <2>7. QED BY <2>2, <2>3, <2>4, <2>5, <2>6 DEF Save
<1>6. call' \in [Procs -> Calls] /\ \A r \in Procs : CallOK(call'[r])
  BY <1>5, GotoOK
<1>7. RowTypeOK'
  <2>1. CASE UNCHANGED row
    BY <2>1, RowOK
  <2>2. CASE ColumnsUpdate(p) /\ ~UNCHANGED row
    BY <1>1, <1>2, <2>2 DEF ColumnsUpdate, UpdateColumns, TypeOK, RowTypeOK
  <2>3. CASE ColumnsInsert(p) /\ ~UNCHANGED row
    BY <1>1, <1>2, <2>3, ColumnTypes, EmptyMapType
       DEF ColumnsInsert, InsertRow, RowTypeOK
  <2>4. CASE JsonbUpdate(p)
    BY <1>1, <2>4
       DEF JsonbUpdate, UpdateComponents, TypeOK, RowTypeOK, OptValue
  <2>5. CASE JsonbInsert(p) /\ ~UNCHANGED row
    BY <1>1, <2>5, ColumnTypes, EmptyMapType
       DEF JsonbInsert, InsertRow, RowTypeOK, OptValue
  <2>6. QED BY <2>1, <2>2, <2>3, <2>4, <2>5 DEF Save, ColumnsFind, JsonbFind
<1>8. committed' \subseteq Comps \X Values
  BY <1>1 DEF TypeOK, Save, ColumnsFind, ColumnsUpdate, ColumnsInsert, JsonbFind,
              JsonbUpdate, JsonbInsert
<1>9. /\ Ok \/ Fault
      /\ UNCHANGED <<redis, log, calls, epoch>>
  BY DEF Save, ColumnsFind, ColumnsUpdate, ColumnsInsert, JsonbFind,
         JsonbUpdate, JsonbInsert, Ok
<1>10. QED BY <1>6, <1>7, <1>8, <1>9, FaultsOK DEF TypeOK

LEMMA TypeRemove ==
    ASSUME TypeOK, NEW p \in Procs, Remove(p) PROVE TypeOK'
<1> DEFINE k == call[p]
<1>1. /\ k \in Calls /\ CallOK(k) /\ k.comp \in Comps /\ k.op = "remove"
      /\ k.snap \in [Comps -> OptValue]
  BY CallFacts DEF Remove, RemoveDel, RemoveColumns, RemoveFind, RemoveJsonb,
                   At, CallOK
<1>2. AfterRemovedColumns(k) \in Calls /\ CallOK(AfterRemovedColumns(k))
  BY <1>1, AfterRemovedColumnsOK
<1>3. ASSUME NEW q \in {"remove.columns", "remove.jsonb", "emit"}
      PROVE  /\ [k EXCEPT !.pc = q] \in Calls /\ CallOK([k EXCEPT !.pc = q])
             /\ \A m \in [Comps -> OptValue] :
                  /\ [k EXCEPT !.pc = q, !.snap = m] \in Calls
                  /\ CallOK([k EXCEPT !.pc = q, !.snap = m])
  <2>1. q \in PCs
    BY <1>3 DEF PCs
  <2>2. /\ [k EXCEPT !.pc = q] \in Calls
        /\ \A m \in [Comps -> OptValue] : [k EXCEPT !.pc = q, !.snap = m] \in Calls
    BY Zenon, <1>1, <2>1, CallFields
  <2>3. CallOK([k EXCEPT !.pc = q])
    BY <1>1, <1>3 DEF Calls, CallOK, SavePCs
  <2>4. ASSUME NEW m \in [Comps -> OptValue]
        PROVE  CallOK([k EXCEPT !.pc = q, !.snap = m])
    BY <1>1, <1>3 DEF Calls, CallOK, SavePCs
  <2>5. QED BY <2>2, <2>3, <2>4
<1>4. PICK n \in Calls : CallOK(n) /\ Goto(p, n)
  <2>1. components \in [Comps -> OptValue]
    BY DEF TypeOK, RowTypeOK
  <2>2. CASE RemoveDel(p)
    BY <1>2, <1>3, <2>2 DEF RemoveDel
  <2>3. CASE RemoveColumns(p)
    BY <1>2, <2>3 DEF RemoveColumns
  <2>4. CASE RemoveFind(p)
    BY <1>3, <2>1, <2>4 DEF RemoveFind
  <2>5. CASE RemoveJsonb(p)
    BY <1>3, <2>5, EmptyMapType DEF RemoveJsonb
  <2>6. QED BY <2>2, <2>3, <2>4, <2>5 DEF Remove
<1>5. call' \in [Procs -> Calls] /\ \A r \in Procs : CallOK(call'[r])
  BY <1>4, GotoOK
<1>6. RowTypeOK'
  <2>1. CASE UNCHANGED row
    BY <2>1, RowOK
  <2>2. CASE RemoveColumns(p) /\ ~UNCHANGED row
    <3>1. columns[k.comp] \in OptKey
      BY <1>1 DEF TypeOK, RowTypeOK
    <3>2. ClearedKey(columns[k.comp]) \in OptKey
      BY <3>1, ColumnTypes
    <3>3. QED BY <1>1, <2>2, <3>2 DEF RemoveColumns, UpdateColumns, TypeOK, RowTypeOK
  <2>3. CASE RemoveJsonb(p) /\ ~UNCHANGED row
    BY <1>1, <2>3 DEF RemoveJsonb, UpdateComponents, TypeOK, RowTypeOK, OptValue
  <2>4. QED BY <2>1, <2>2, <2>3 DEF Remove, RemoveDel, RemoveFind
<1>7. redis' \in [Comps -> OptValue] /\ epoch' \in [Comps -> Nat]
  <2>1. CASE RemoveDel(p)
    <3>1. redis' \in [Comps -> OptValue]
      BY <1>1, <2>1 DEF TypeOK, OptValue, RemoveDel
    <3>2. epoch[k.comp] \in Nat
      BY <1>1 DEF TypeOK
    <3>3. epoch' \in [Comps -> Nat]
      BY <1>1, <2>1, <3>2 DEF TypeOK, RemoveDel
    <3>4. QED BY <3>1, <3>3
  <2>2. CASE ~RemoveDel(p)
    BY <2>2 DEF TypeOK, Remove, RemoveColumns, RemoveFind, RemoveJsonb
  <2>3. QED BY <2>1, <2>2
<1>8. /\ Ok \/ Fault
      /\ UNCHANGED <<log, calls, committed>>
  BY DEF Remove, RemoveDel, RemoveColumns, RemoveFind, RemoveJsonb, Ok
<1>9. QED BY <1>5, <1>6, <1>7, <1>8, FaultsOK DEF TypeOK

LEMMA TypeGuard ==
    ASSUME TypeOK, NEW p \in Procs, Guard(p) PROVE TypeOK'
<1> DEFINE k == call[p]
<1>1. /\ k \in Calls /\ CallOK(k) /\ k.comp \in Comps /\ k.op = "guard"
      /\ k.val \in Values
  BY CallFacts DEF Guard, GuardWrite, GuardSet, At, CallOK
<1>2. ASSUME NEW q \in {"guard.set", "emit"}
      PROVE  [k EXCEPT !.pc = q] \in Calls /\ CallOK([k EXCEPT !.pc = q])
  BY <1>1 DEF Calls, CallOK, PCs, SavePCs
<1>3. PICK n \in Calls : CallOK(n) /\ Goto(p, n)
  BY <1>2, NoCallOK DEF Guard, GuardWrite, GuardSet, Return
<1>4. call' \in [Procs -> Calls] /\ \A r \in Procs : CallOK(call'[r])
  BY <1>3, GotoOK
<1>5. RowTypeOK'
  <2>1. CASE UNCHANGED row
    BY <2>1, RowOK
  <2>2. CASE ~UNCHANGED row
    <3>1. GuardedUpdate(k.comp, k.val)
      BY <2>2 DEF Guard, GuardWrite, GuardSet
    <3>2. k.val.key \in OptKey
      BY <1>1 DEF Values, OptKey
    <3>3. columns' \in [Comps -> OptKey]
      BY <3>1, <3>2 DEF GuardedUpdate, TypeOK, RowTypeOK
    <3>4. components' \in [Comps -> OptValue]
      BY <1>1, <3>1 DEF GuardedUpdate, TypeOK, RowTypeOK, OptValue
    <3>5. QED BY <3>1, <3>3, <3>4 DEF GuardedUpdate, TypeOK, RowTypeOK
  <2>3. QED BY <2>1, <2>2
<1>6. redis' \in [Comps -> OptValue] /\ committed' \subseteq Comps \X Values
  <2>1. CASE GuardWrite(p)
    BY <1>1, <2>1 DEF TypeOK, GuardWrite
  <2>2. CASE GuardSet(p)
    BY <1>1, <2>2 DEF TypeOK, OptValue, GuardSet
  <2>3. QED BY <2>1, <2>2 DEF Guard
<1>7. UNCHANGED <<log, calls, faults, epoch>>
  BY DEF Guard, GuardWrite, GuardSet
<1>8. QED BY <1>4, <1>5, <1>6, <1>7 DEF TypeOK

LEMMA TypeEmit ==
    ASSUME TypeOK, NEW p \in Procs, Emit(p) PROVE TypeOK'
<1> DEFINE k == call[p]
           ev == [type |-> EventType(k.op), comp |-> k.comp,
                  val |-> IF k.op = "remove" THEN k.found ELSE k.val,
                  epoch |-> k.epoch]
<1>1. /\ k.comp \in Comps /\ k.epoch \in Nat
      /\ k.found \in OptValue /\ k.val \in OptValue
  BY CallFacts DEF Emit, At
<1>2. EventType(k.op) \in {"ADDED", "UPDATED", "REMOVED"}
  BY DEF EventType
<1>3. ev \in Events
  BY <1>1, <1>2 DEF Events
<1>4. log' = Append(log, ev)
  BY DEF Emit
<1>5. log' \in Seq(Events)
  <2> HIDE DEF ev
  <2>1. QED BY <1>3, <1>4 DEF TypeOK
<1>6. call' \in [Procs -> Calls] /\ \A r \in Procs : CallOK(call'[r])
  BY ReturnOK DEF Emit
<1>7. UNCHANGED <<row, redis, calls, faults, epoch, committed>>
  BY DEF Emit
<1>8. QED BY <1>5, <1>6, <1>7, RowOK DEF TypeOK

LEMMA TypeAbort ==
    ASSUME TypeOK, NEW p \in Procs, Abort(p) PROVE TypeOK'
BY ReturnOK, FaultsOK, RowOK DEF Abort, TypeOK

LEMMA TypeInit == Init => TypeOK
<1> SUFFICES ASSUME Init PROVE TypeOK
  OBVIOUS
<1>1. call \in [Procs -> Calls] /\ \A p \in Procs : CallOK(call[p])
  BY NoCallOK DEF Init
<1>2. epoch \in [Comps -> Nat] /\ log \in Seq(Events)
      /\ committed \subseteq Comps \X Values
  BY DEF Init
<1>3. QED BY <1>1, <1>2 DEF Init, TypeOK

LEMMA TypeNext == TypeOK /\ [Next]_vars => TypeOK'
<1> SUFFICES ASSUME TypeOK, [Next]_vars PROVE TypeOK'
  OBVIOUS
<1>1. CASE Next
  <2>1. PICK p \in Procs : Start(p) \/ Step(p) \/ Abort(p)
    BY <1>1 DEF Next
  <2>2. QED BY <2>1, TypeStart, TypeProbe, TypeRead, TypeUpsertCheck,
               TypeAddClaim, TypeUpdateSet, TypeSave, TypeRemove, TypeGuard,
               TypeEmit, TypeAbort DEF Step
<1>2. CASE UNCHANGED vars
  BY <1>2, RowOK DEF vars, TypeOK, row
<1>3. QED BY <1>1, <1>2

(* Every reachable state is well typed: a caller at a request belongs to   *)
(* an operation that issues it and carries what the request needs.         *)
THEOREM TypeCorrect == Spec => []TypeOK
BY TypeInit, TypeNext, PTL DEF Spec

-----------------------------------------------------------------------------
(* Durable events.  What a call is about to publish has been committed:    *)
(* the promise EventsAreDurable makes of the log, made of the calls too.   *)

Announces(k) == k.pc = "guard.set" \/ (k.pc = "emit" /\ k.op # "remove")

Stored(k) == k.comp \in Persistent => <<k.comp, k.val>> \in committed

DurableInv ==
    /\ \A p \in Procs : Announces(call[p]) => Stored(call[p])
    /\ EventsAreDurable

-----------------------------------------------------------------------------
(* Announcing once.  An addComponent that won hSetNX holds a claim on the  *)
(* life of the component it won until it published; a claim on the current *)
(* life means that the Redis field is taken, so nobody can win it again.   *)

Adds(k) == k.op = "add" /\ k.pc \in SavePCs \cup {"emit"}
Adding(p) == Adds(call[p])

Claimed(c, n) == n <= epoch[c] /\ (n = epoch[c] => redis[c] # Null)

ClaimInv ==
    /\ \A p \in Procs : Adding(p) => Claimed(call[p].comp, call[p].epoch)
    /\ \A i \in 1..Len(log) :
         log[i].type = "ADDED" => Claimed(log[i].comp, log[i].epoch)
    /\ \A p, q \in Procs :
         Adding(p) /\ Adding(q) /\ p # q /\ call[p].comp = call[q].comp
         => call[p].epoch # call[q].epoch
    /\ \A p \in Procs, i \in 1..Len(log) :
         /\ Adding(p) /\ log[i].type = "ADDED" /\ log[i].comp = call[p].comp
         => log[i].epoch # call[p].epoch
    /\ AnnouncedOnce

-----------------------------------------------------------------------------
(* The steps of a call before it wrote anything: they publish and commit   *)
(* nothing, delete nothing, and do not lead into a save.                   *)

Saving(n) == n.pc \in SavePCs \cup {"emit", "guard.set"}

KeepsFields ==
    \A c \in Comps : redis[c] # Null => redis'[c] # Null

LEMMA AfterGetEarly ==
    ASSUME NEW k \in Calls, NEW x \in OptValue
    PROVE  ~Saving(AfterGet(k, x))
<1>1. ~Saving(NoCall)
  BY DEF Saving, NoCall, SavePCs
<1>2. ASSUME NEW f, NEW o, NEW q \in {"update.set", "has.redis",
                 "upsert.check", "get.redis", "remove.del", "guard.write",
                 "fetched"}
      PROVE  /\ ~Saving([k EXCEPT !.pc = q, !.found = f])
             /\ ~Saving([k EXCEPT !.op = o, !.pc = q, !.found = f])
  BY <1>2 DEF Saving, SavePCs, Calls
<1>3. QED BY <1>1, <1>2 DEF AfterGet

LEMMA EarlyStep ==
    ASSUME TypeOK, NEW p \in Procs,
           Start(p) \/ Probe(p) \/ Read(p) \/ UpsertCheck(p) \/ Abort(p)
    PROVE  /\ \E n : Goto(p, n) /\ ~Saving(n)
           /\ UNCHANGED <<log, committed, epoch>>
           /\ KeepsFields
<1> DEFINE k == call[p]
<1>1. k \in Calls /\ CallOK(k) /\ k.found \in OptValue
  BY CallFacts
<1>2. ~Saving(NoCall)
  BY DEF Saving, NoCall, SavePCs
<1>3. CASE Start(p)
  <2>1. \E n : Goto(p, n) /\ ~Saving(n)
    BY <1>3 DEF Start, Saving, SavePCs
  <2>2. QED BY <1>3, <2>1 DEF Start, KeepsFields
<1>4. CASE Abort(p)
  BY <1>2, <1>4 DEF Abort, Return, KeepsFields
<1>5. CASE UpsertCheck(p)
  <2>1. ~Saving([k EXCEPT !.op = "update", !.pc = "get.redis", !.found = Null])
    BY <1>1 DEF Saving, SavePCs, Calls
  <2>2. QED BY <1>2, <1>5, <2>1 DEF UpsertCheck, KeepsFields
<1>6. CASE Probe(p)
  <2>1. k.pc \in {"has.redis", "has.jsonb", "has.columns"}
        => ~Saving(AfterAbsent(k))
    BY <1>1, <1>2 DEF AfterAbsent, Saving, SavePCs, Calls
  <2>2. /\ ~Saving([k EXCEPT !.pc = "has.jsonb"])
        /\ ~Saving([k EXCEPT !.pc = "has.columns"])
        /\ \A x : ~Saving([k EXCEPT !.pc = "has.warm", !.found = x])
    BY <1>1 DEF Saving, SavePCs, Calls
  <2>3. \E n : Goto(p, n) /\ ~Saving(n)
    <3>1. CASE HasRedis(p)
      BY <1>2, <2>1, <2>2, <3>1 DEF HasRedis, At
    <3>2. CASE HasJsonb(p)
      BY <1>2, <2>1, <2>2, <3>2 DEF HasJsonb, At
    <3>3. CASE HasWarm(p)
      BY <1>2, <3>3 DEF HasWarm, Return
    <3>4. CASE HasColumns(p)
      BY <1>2, <2>1, <2>2, <3>4 DEF HasColumns, At
    <3>5. QED BY <1>6, <3>1, <3>2, <3>3, <3>4 DEF Probe
  <2>4. KeepsFields
    BY <1>1, <1>6 DEF KeepsFields, Probe, HasRedis, HasJsonb, HasWarm, HasColumns,
                      CallOK, At, TypeOK
  <2>5. QED BY <1>6, <2>3, <2>4 DEF Probe, HasRedis, HasJsonb, HasWarm, HasColumns
<1>7. CASE Read(p)
  <2>1. \A x \in OptValue : ~Saving(AfterGet(k, x))
    BY <1>1, AfterGetEarly
  <2>2. /\ ~Saving([k EXCEPT !.pc = "get.jsonb"])
        /\ ~Saving([k EXCEPT !.pc = "get.columns"])
        /\ \A x : ~Saving([k EXCEPT !.pc = "get.warm", !.found = x])
    BY <1>1 DEF Saving, SavePCs, Calls
  <2>3. Null \in OptValue
    BY DEF OptValue
  <2>4. \E n : Goto(p, n) /\ ~Saving(n)
    <3>1. CASE GetRedis(p)
      <4>1. redis[k.comp] \in OptValue
        BY <1>1, <3>1 DEF TypeOK, CallOK, GetRedis, At
      <4>2. QED BY <2>1, <2>2, <2>3, <3>1, <4>1 DEF GetRedis
    <3>2. CASE GetJsonb(p)
      BY <2>1, <2>2, <2>3, <3>2 DEF GetJsonb
    <3>3. CASE GetColumns(p)
      BY <2>1, <2>2, <2>3, <3>3 DEF GetColumns
    <3>4. CASE GetWarm(p)
      BY <1>1, <2>1, <3>4 DEF GetWarm
    <3>5. QED BY <1>7, <3>1, <3>2, <3>3, <3>4 DEF Read
  <2>5. KeepsFields
    BY <1>1, <1>7 DEF KeepsFields, Read, GetRedis, GetJsonb, GetColumns, GetWarm,
                      CallOK, At, TypeOK
  <2>6. QED BY <1>7, <2>4, <2>5 DEF Read, GetRedis, GetJsonb, GetColumns, GetWarm
<1>8. QED BY <1>3, <1>4, <1>5, <1>6, <1>7

-----------------------------------------------------------------------------
(* Events are durable.                                                     *)

LEMMA DurableFrame ==
    ASSUME TypeOK, DurableInv, NEW p \in Procs, NEW n, Goto(p, n),
           UNCHANGED log, committed \subseteq committed',
           Announces(n) =>
             (n.comp \in Persistent => <<n.comp, n.val>> \in committed')
    PROVE  DurableInv'
<1>1. EventsAreDurable'
  BY DEF DurableInv, EventsAreDurable
<1>2. ASSUME NEW q \in Procs, Announces(call'[q])
      PROVE  Stored(call[q])'
  <2>1. CASE q = p
    <3>1. call'[q] = n
      BY <2>1 DEF Goto, TypeOK
    <3>2. QED BY <1>2, <3>1 DEF Stored
  <2>2. CASE q # p
    <3>1. call'[q] = call[q]
      BY <2>2 DEF Goto, TypeOK
    <3>2. Stored(call[q])
      BY <1>2, <3>1 DEF DurableInv
    <3>3. QED BY <3>1, <3>2 DEF Stored
  <2>3. QED BY <2>1, <2>2
<1>3. QED BY <1>1, <1>2 DEF DurableInv, Announces

(* What is left to publish of a call that has not stored its component yet *)
(* is nothing, unless the component is not persistent.                     *)
LEMMA UnstoredCall ==
    ASSUME NEW k \in Calls, k.op \in {"add", "update"}, NEW e \in Nat
    PROVE  /\ Announces(AfterColumns(k)) => k.comp \notin Persistent
           /\ AfterColumns(k).comp = k.comp
           /\ Announces([AfterCacheWrite(k) EXCEPT !.epoch = e]) =>
                k.comp \notin Persistent
           /\ [AfterCacheWrite(k) EXCEPT !.epoch = e].comp = k.comp
           /\ Announces([AfterCacheWrite(k) EXCEPT !.found = Null]) =>
                k.comp \notin Persistent
           /\ [AfterCacheWrite(k) EXCEPT !.found = Null].comp = k.comp
BY DEF AfterColumns, AfterCacheWrite, Announces, Calls

LEMMA DurableSave ==
    ASSUME TypeOK, DurableInv, NEW p \in Procs, Save(p)
    PROVE  DurableInv'
<1> DEFINE k == call[p]
<1>1. k \in Calls /\ k.op \in {"add", "update"}
  BY CallFacts DEF CallOK, Save, ColumnsFind, ColumnsUpdate, ColumnsInsert,
                   JsonbFind, JsonbUpdate, JsonbInsert, At, SavePCs
<1>2. /\ Announces(AfterColumns(k)) => k.comp \notin Persistent
      /\ AfterColumns(k).comp = k.comp
  BY <1>1, UnstoredCall
<1>3. ASSUME NEW q \in {"columns.update", "columns.insert", "jsonb.insert"}
      PROVE  ~Announces([k EXCEPT !.pc = q])
  BY <1>1 DEF Announces, Calls
<1>4. CASE ColumnsFind(p)
  BY <1>2, <1>3, <1>4, DurableFrame DEF ColumnsFind
<1>5. CASE ColumnsUpdate(p) \/ ColumnsInsert(p)
  BY <1>2, <1>5, DurableFrame DEF ColumnsUpdate, ColumnsInsert
<1>6. CASE JsonbFind(p)
  <2>1. ~Announces([k EXCEPT !.pc = "jsonb.update", !.snap = components])
    BY <1>1 DEF Announces, Calls
  <2>2. QED BY <1>3, <1>6, <2>1, DurableFrame DEF JsonbFind
<1>7. CASE JsonbUpdate(p)
  <2>1. /\ [k EXCEPT !.pc = "emit", !.snap = EmptyMap].comp = k.comp
        /\ [k EXCEPT !.pc = "emit", !.snap = EmptyMap].val = k.val
    BY <1>1 DEF Calls
  <2>2. /\ Goto(p, [k EXCEPT !.pc = "emit", !.snap = EmptyMap])
        /\ committed' = committed \cup {<<k.comp, k.val>>}
        /\ UNCHANGED log
    BY <1>7 DEF JsonbUpdate
  <2>3. /\ committed \subseteq committed'
        /\ <<k.comp, k.val>> \in committed'
    BY <2>2
  <2>4. QED BY <2>1, <2>2, <2>3, DurableFrame
<1>8. CASE JsonbInsert(p)
  <2>1. /\ [k EXCEPT !.pc = "emit"].comp = k.comp
        /\ [k EXCEPT !.pc = "emit"].val = k.val
        /\ ~Announces(NoCall)
    BY <1>1 DEF Calls, Announces, NoCall
  <2>2. QED BY <1>8, <2>1, DurableFrame DEF JsonbInsert, Return
<1>9. QED BY <1>4, <1>5, <1>6, <1>7, <1>8 DEF Save

LEMMA DurableEmit ==
    ASSUME TypeOK, DurableInv, NEW p \in Procs, Emit(p)
    PROVE  DurableInv'
<1> DEFINE k == call[p]
           ev == [type |-> EventType(k.op), comp |-> k.comp,
                  val |-> IF k.op = "remove" THEN k.found ELSE k.val,
                  epoch |-> k.epoch]
<1>1. ev.type # "REMOVED" /\ ev.comp \in Persistent
      => <<ev.comp, ev.val>> \in committed
  BY DEF Emit, At, DurableInv, Announces, Stored, EventType
<1>2. log' = Append(log, ev) /\ log \in Seq(Events)
  BY DEF Emit, TypeOK
<1>3. UNCHANGED committed
  BY DEF Emit
<1>4. EventsAreDurable'
  <2> HIDE DEF ev
  <2>1. ASSUME NEW i \in 1..Len(log')
        PROVE  log'[i] = ev \/ (i \in 1..Len(log) /\ log'[i] = log[i])
    BY <1>2
  <2>2. QED BY <1>1, <1>3, <2>1 DEF EventsAreDurable, DurableInv
<1>5. ASSUME NEW q \in Procs, Announces(call'[q])
      PROVE  Stored(call[q])'
  <2>1. call'[q] = call[q] \/ call'[q] = NoCall
    BY DEF Emit, Return, Goto, TypeOK
  <2>2. ~Announces(NoCall)
    BY DEF Announces, NoCall
  <2>3. QED BY <1>3, <1>5, <2>1, <2>2 DEF DurableInv, Stored
<1>6. QED BY <1>4, <1>5 DEF DurableInv, Announces

LEMMA DurableStep ==
    ASSUME TypeOK, DurableInv, NEW p \in Procs, Start(p) \/ Step(p) \/ Abort(p)
    PROVE  DurableInv'
<1> DEFINE k == call[p]
<1>1. k \in Calls /\ CallOK(k)
  BY CallFacts
<1>2. ~Announces(NoCall)
  BY DEF Announces, NoCall
<1>3. CASE Start(p) \/ Probe(p) \/ Read(p) \/ UpsertCheck(p) \/ Abort(p)
  BY <1>3, EarlyStep, DurableFrame DEF Saving, Announces
<1>4. CASE AddClaim(p)
  <2>1. k.op = "add" /\ epoch[k.comp] \in Nat
    BY <1>1, <1>4 DEF AddClaim, At, CallOK, TypeOK
  <2>2. QED BY <1>1, <1>2, <1>4, <2>1, UnstoredCall, DurableFrame
            DEF AddClaim, Return
<1>5. CASE UpdateSet(p)
  <2>1. k.op = "update"
    BY <1>1, <1>5 DEF UpdateSet, At, CallOK
  <2>2. QED BY <1>1, <1>5, <2>1, UnstoredCall, DurableFrame DEF UpdateSet
<1>6. CASE Remove(p)
  <2>1. k.op = "remove"
    BY <1>1, <1>6 DEF Remove, RemoveDel, RemoveColumns, RemoveFind, RemoveJsonb,
                      At, CallOK
  <2>2. ~Announces(AfterRemovedColumns(k))
    BY <1>1, <2>1 DEF AfterRemovedColumns, Announces, Calls
  <2>3. ASSUME NEW q \in {"remove.columns", "remove.jsonb", "emit"}, NEW m
        PROVE  /\ ~Announces([k EXCEPT !.pc = q])
               /\ ~Announces([k EXCEPT !.pc = q, !.snap = m])
    BY <1>1, <2>1 DEF Announces, Calls
  <2>4. \E n : Goto(p, n) /\ ~Announces(n)
    BY <1>6, <2>2, <2>3 DEF Remove, RemoveDel, RemoveColumns, RemoveFind,
                            RemoveJsonb
  <2>5. UNCHANGED <<log, committed>>
    BY <1>6 DEF Remove, RemoveDel, RemoveColumns, RemoveFind, RemoveJsonb
  <2>6. QED BY <2>4, <2>5, DurableFrame
<1>7. CASE GuardWrite(p)
  <2>1. /\ [k EXCEPT !.pc = "guard.set"].comp = k.comp
        /\ [k EXCEPT !.pc = "guard.set"].val = k.val
    BY <1>1 DEF Calls
  <2>2. QED BY <1>2, <1>7, <2>1, DurableFrame DEF GuardWrite, Return
<1>8. CASE GuardSet(p)
  <2>1. /\ [k EXCEPT !.pc = "emit"].comp = k.comp
        /\ [k EXCEPT !.pc = "emit"].val = k.val
    BY <1>1 DEF Calls
  <2>2. Stored(k)
    BY <1>8 DEF GuardSet, At, DurableInv, Announces
  <2>3. /\ Goto(p, [k EXCEPT !.pc = "emit"])
        /\ UNCHANGED <<log, committed>>
    BY <1>8 DEF GuardSet
  <2>4. k.comp \in Persistent => <<k.comp, k.val>> \in committed'
    BY <2>2, <2>3 DEF Stored
  <2>5. QED BY <2>1, <2>3, <2>4, DurableFrame
<1>9. QED BY <1>3, <1>4, <1>5, <1>6, <1>7, <1>8, DurableSave, DurableEmit
          DEF Step, Guard

(* Nothing that failed or raced makes a subscriber hear of a value of a    *)
(* persistent component that its row never held.                           *)
THEOREM DurableEvents == Spec => []EventsAreDurable
<1>1. Init => DurableInv
  BY DEF Init, DurableInv, Announces, NoCall, EventsAreDurable
<1>2. TypeOK /\ DurableInv /\ [Next]_vars => DurableInv'
  <2> SUFFICES ASSUME TypeOK, DurableInv, [Next]_vars PROVE DurableInv'
    OBVIOUS
  <2>1. CASE Next
    BY <2>1, DurableStep DEF Next
  <2>2. CASE UNCHANGED vars
    BY <2>2 DEF vars, DurableInv, Stored, Announces, EventsAreDurable
  <2>3. QED BY <2>1, <2>2
<1>3. DurableInv => EventsAreDurable
  BY DEF DurableInv
<1>4. QED BY <1>1, <1>2, <1>3, TypeCorrect, PTL DEF Spec

-----------------------------------------------------------------------------
(* A component is announced as created once per life.                      *)

(* No step gives up the Redis field of a component except by ending its    *)
(* life.                                                                   *)
KeepsClaims ==
    \A c \in Comps : /\ epoch[c] <= epoch'[c]
                     /\ epoch'[c] = epoch[c] /\ redis[c] # Null
                        => redis'[c] # Null

LEMMA ClaimKept ==
    ASSUME TypeOK, TypeOK', KeepsClaims, NEW c \in Comps, NEW n \in Nat,
           Claimed(c, n)
    PROVE  Claimed(c, n)'
<1>1. epoch[c] \in Nat /\ epoch'[c] \in Nat
  BY DEF TypeOK
<1>2. QED BY <1>1 DEF Claimed, KeepsClaims

LEMMA LogFacts ==
    ASSUME TypeOK, NEW i \in 1..Len(log)
    PROVE  log[i].comp \in Comps /\ log[i].epoch \in Nat
<1>1. log[i] \in Events
  BY DEF TypeOK
<1>2. QED BY <1>1 DEF Events

(* A step that publishes nothing and claims nothing.                       *)
LEMMA ClaimFrame ==
    ASSUME TypeOK, TypeOK', ClaimInv, KeepsClaims, UNCHANGED log,
           NEW p \in Procs, NEW n, Goto(p, n),
           Adds(n) => /\ Adding(p)
                      /\ n.comp = call[p].comp
                      /\ n.epoch = call[p].epoch
    PROVE  ClaimInv'
<1>1. ASSUME NEW q \in Procs, Adding(q)'
      PROVE  /\ Adding(q)
             /\ call'[q].comp = call[q].comp /\ call'[q].epoch = call[q].epoch
             /\ call[q].comp \in Comps /\ call[q].epoch \in Nat
  <2>1. call'[q] = IF q = p THEN n ELSE call[q]
    BY DEF Goto, TypeOK
  <2>2. Adding(q)
    BY <1>1, <2>1 DEF Adding, Adds
  <2>3. call'[q].comp = call[q].comp /\ call'[q].epoch = call[q].epoch
    BY <1>1, <2>1 DEF Adding, Adds
  <2>4. ~At(q, "idle")
    BY <2>2 DEF Adding, Adds, At, SavePCs
  <2>5. QED BY <2>2, <2>3, <2>4, CallFacts
<1>2. \A i \in 1..Len(log) : log[i].comp \in Comps /\ log[i].epoch \in Nat
  BY LogFacts
<1>3. \A q \in Procs : Adding(q)' => Claimed(call[q].comp, call[q].epoch)'
  BY <1>1, ClaimKept DEF ClaimInv, Claimed
<1>4. \A i \in 1..Len(log) :
         log[i].type = "ADDED" => Claimed(log[i].comp, log[i].epoch)'
  BY <1>2, ClaimKept DEF ClaimInv
<1>5. AnnouncedOnce'
  BY DEF ClaimInv, AnnouncedOnce
<1>6. QED BY <1>1, <1>3, <1>4, <1>5 DEF ClaimInv, Claimed

(* hSetNX won: the field was free, so every claim was on an earlier life.  *)
LEMMA ClaimWon ==
    ASSUME TypeOK, TypeOK', ClaimInv, NEW p \in Procs, AddClaim(p),
           redis[call[p].comp] = Null
    PROVE  ClaimInv'
<1> DEFINE k == call[p]
           n == [AfterCacheWrite(k) EXCEPT !.epoch = epoch[k.comp]]
<1>1. /\ k \in Calls /\ k.op = "add" /\ k.comp \in Comps /\ k.val \in Values
      /\ epoch[k.comp] \in Nat
  BY CallFacts DEF AddClaim, At, CallOK, TypeOK
<1>2. n.comp = k.comp /\ n.epoch = epoch[k.comp]
  BY <1>1 DEF AfterCacheWrite, AfterColumns, Calls
<1>3. /\ redis' = [redis EXCEPT ![k.comp] = k.val]
      /\ call' = [call EXCEPT ![p] = n]
      /\ UNCHANGED <<log, epoch>>
  BY DEF AddClaim, Goto
<1> HIDE DEF n
<1>4. /\ call'[p] = n
      /\ \A q \in Procs : q # p => call'[q] = call[q]
  BY <1>3 DEF TypeOK
<1>5. redis'[k.comp] # Null
  BY <1>1, <1>3, NullIsNoValue DEF TypeOK
<1>6. KeepsClaims
  BY <1>1, <1>3, <1>5 DEF KeepsClaims, TypeOK
<1>7. ASSUME NEW e \in Nat, Claimed(k.comp, e)
      PROVE  e # epoch[k.comp]
  BY <1>7 DEF Claimed
<1>8. ASSUME NEW q \in Procs, q # p, Adding(q)'
      PROVE  /\ Adding(q)
             /\ call[q].comp \in Comps /\ call[q].epoch \in Nat
             /\ Claimed(call[q].comp, call[q].epoch)
  <2>1. Adding(q)
    BY <1>4, <1>8 DEF Adding
  <2>2. ~At(q, "idle")
    BY <2>1 DEF Adding, Adds, At, SavePCs
  <2>3. QED BY <2>1, <2>2, CallFacts DEF ClaimInv
<1>9. ASSUME NEW i \in 1..Len(log), log[i].type = "ADDED"
      PROVE  /\ log[i].comp \in Comps /\ log[i].epoch \in Nat
             /\ Claimed(log[i].comp, log[i].epoch)
  BY <1>9, LogFacts DEF ClaimInv
<1>10. \A q \in Procs : Adding(q)' => Claimed(call[q].comp, call[q].epoch)'
  <2>1. SUFFICES ASSUME NEW q \in Procs, Adding(q)'
                 PROVE  Claimed(call[q].comp, call[q].epoch)'
    OBVIOUS
  <2>2. CASE q = p
    BY <1>1, <1>2, <1>3, <1>4, <1>5, <2>2 DEF Claimed
  <2>3. CASE q # p
    <3>1. /\ call[q].comp \in Comps /\ call[q].epoch \in Nat
          /\ Claimed(call[q].comp, call[q].epoch)
      BY <1>8, <2>1, <2>3
    <3>2. QED BY <1>3, <1>4, <1>5, <2>3, <3>1 DEF Claimed, TypeOK
  <2>4. QED BY <2>2, <2>3
<1>11. \A i \in 1..Len(log) :
          log[i].type = "ADDED" => Claimed(log[i].comp, log[i].epoch)'
  BY <1>3, <1>5, <1>9 DEF Claimed, TypeOK
<1>12. \A q, r \in Procs :
          Adding(q)' /\ Adding(r)' /\ q # r /\ call'[q].comp = call'[r].comp
          => call'[q].epoch # call'[r].epoch
  BY <1>2, <1>4, <1>7, <1>8 DEF ClaimInv
<1>13. \A q \in Procs, i \in 1..Len(log) :
          /\ Adding(q)' /\ log[i].type = "ADDED" /\ log[i].comp = call'[q].comp
          => log[i].epoch # call'[q].epoch
  BY <1>2, <1>4, <1>7, <1>8, <1>9 DEF ClaimInv
<1>14. AnnouncedOnce'
  BY <1>3 DEF ClaimInv, AnnouncedOnce
<1>15. QED BY <1>3, <1>10, <1>11, <1>12, <1>13, <1>14 DEF ClaimInv, Claimed

(* A publication turns the claim of a call into one of the log.            *)
LEMMA ClaimPublished ==
    ASSUME TypeOK, TypeOK', ClaimInv, NEW p \in Procs, Emit(p)
    PROVE  ClaimInv'
<1> DEFINE k == call[p]
           ev == [type |-> EventType(k.op), comp |-> k.comp,
                  val |-> IF k.op = "remove" THEN k.found ELSE k.val,
                  epoch |-> k.epoch]
<1>1. ev.comp = k.comp /\ ev.epoch = k.epoch
  OBVIOUS
<1>2. ev.type = "ADDED" => Adding(p)
  BY DEF Emit, At, EventType, Adding, Adds
<1>3. log' = Append(log, ev) /\ UNCHANGED <<redis, epoch>>
  BY DEF Emit
<1>4. \A q \in Procs : call'[q] = IF q = p THEN NoCall ELSE call[q]
  BY DEF Emit, Return, Goto, TypeOK
<1> HIDE DEF ev
<1>5. /\ \A i \in 1..Len(log) : i \in 1..Len(log') /\ log'[i] = log[i]
      /\ \A i \in 1..Len(log') :
           i \in 1..Len(log) \/ (i = Len(log) + 1 /\ log'[i] = ev)
  BY <1>3 DEF TypeOK
<1>6. \A q \in Procs : Adding(q)' => q # p /\ Adding(q) /\ call'[q] = call[q]
  BY <1>4 DEF Adding, Adds, NoCall
<1>7. \A q \in Procs : Adding(q)' => Claimed(call[q].comp, call[q].epoch)'
  BY <1>3, <1>6 DEF ClaimInv, Claimed
<1>8. \A i \in 1..Len(log') :
         log'[i].type = "ADDED" => Claimed(log[i].comp, log[i].epoch)'
  BY <1>1, <1>2, <1>3, <1>5 DEF ClaimInv, Claimed
<1>9. \A q, r \in Procs :
         Adding(q)' /\ Adding(r)' /\ q # r /\ call'[q].comp = call'[r].comp
         => call'[q].epoch # call'[r].epoch
  BY <1>6 DEF ClaimInv
<1>10. \A q \in Procs, i \in 1..Len(log') :
          /\ Adding(q)' /\ log'[i].type = "ADDED"
          /\ log'[i].comp = call'[q].comp
          => log'[i].epoch # call'[q].epoch
  BY <1>1, <1>2, <1>5, <1>6 DEF ClaimInv
<1>11. AnnouncedOnce'
  BY <1>1, <1>2, <1>5 DEF ClaimInv, AnnouncedOnce
<1>12. QED BY <1>7, <1>8, <1>9, <1>10, <1>11 DEF ClaimInv, Claimed

(* A save goes on with the claim of the call that saves.                   *)
LEMMA ClaimSave ==
    ASSUME TypeOK, NEW p \in Procs, Save(p)
    PROVE  \E n : /\ Goto(p, n)
                  /\ Adds(n) => /\ Adding(p)
                                /\ n.comp = call[p].comp
                                /\ n.epoch = call[p].epoch
<1> DEFINE k == call[p]
           OK(n) == Adds(n) => /\ Adding(p)
                               /\ n.comp = k.comp
                               /\ n.epoch = k.epoch
<1>1. k \in Calls /\ k.pc \in SavePCs
  BY CallFacts DEF Save, ColumnsFind, ColumnsUpdate, ColumnsInsert, JsonbFind,
                   JsonbUpdate, JsonbInsert, At, SavePCs
<1>2. ASSUME NEW q, NEW m
      PROVE  OK([k EXCEPT !.pc = q]) /\ OK([k EXCEPT !.pc = q, !.snap = m])
  BY <1>1 DEF Adds, Adding, Calls
<1>3. OK(NoCall)
  BY DEF NoCall, Adds
<1> HIDE DEF OK
<1>4. OK(AfterColumns(k))
  BY <1>2, Zenon DEF AfterColumns
<1>5. \E n : Goto(p, n) /\ OK(n)
  <2>1. CASE ColumnsFind(p)
    BY <1>2, <1>4, <2>1 DEF ColumnsFind
  <2>2. CASE ColumnsUpdate(p) \/ ColumnsInsert(p)
    BY <1>4, <2>2 DEF ColumnsUpdate, ColumnsInsert
  <2>3. CASE JsonbFind(p)
    BY <1>2, <2>3 DEF JsonbFind
  <2>4. CASE JsonbUpdate(p)
    BY <1>2, <2>4 DEF JsonbUpdate
  <2>5. CASE JsonbInsert(p)
    BY <1>2, <1>3, <2>5 DEF JsonbInsert, Return
  <2>6. QED BY <2>1, <2>2, <2>3, <2>4, <2>5 DEF Save
<1>6. QED BY <1>5 DEF OK

LEMMA ClaimStep ==
    ASSUME TypeOK, TypeOK', ClaimInv, NEW p \in Procs,
           Start(p) \/ Step(p) \/ Abort(p)
    PROVE  ClaimInv'
<1> DEFINE k == call[p]
<1>1. k \in Calls /\ CallOK(k)
  BY CallFacts
<1>2. UNCHANGED <<redis, epoch>> => KeepsClaims
  BY DEF KeepsClaims, TypeOK
<1>3. ~Adds(NoCall)
  BY DEF Adds, NoCall
<1>4. CASE Start(p) \/ Probe(p) \/ Read(p) \/ UpsertCheck(p) \/ Abort(p)
  <2>1. KeepsClaims
    BY <1>4, EarlyStep DEF KeepsClaims, KeepsFields, TypeOK
  <2>2. QED BY <1>4, <2>1, EarlyStep, ClaimFrame DEF Saving, Adds
<1>5. CASE AddClaim(p)
  <2>1. CASE redis[k.comp] = Null
    BY <1>5, <2>1, ClaimWon
  <2>2. CASE redis[k.comp] # Null
    <3>1. Goto(p, NoCall) /\ UNCHANGED <<redis, epoch, log>>
      BY <1>5, <2>2 DEF AddClaim, Return
    <3>2. QED BY <1>2, <1>3, <3>1, ClaimFrame
  <2>3. QED BY <2>1, <2>2
<1>6. CASE UpdateSet(p)
  <2>1. k.op = "update" /\ k.val \in Values
    BY <1>1, <1>6 DEF UpdateSet, At, CallOK
  <2>2. ~Adds([AfterCacheWrite(k) EXCEPT !.found = Null])
    BY <1>1, <2>1 DEF AfterCacheWrite, AfterColumns, Adds, Calls
  <2>3. KeepsClaims
    BY <1>6, <2>1, NullIsNoValue DEF UpdateSet, KeepsClaims, TypeOK
  <2>4. QED BY <1>6, <2>2, <2>3, ClaimFrame DEF UpdateSet
<1>7. CASE Save(p)
  <2>1. UNCHANGED <<redis, epoch, log>>
    BY <1>7 DEF Save, ColumnsFind, ColumnsUpdate, ColumnsInsert, JsonbFind,
                JsonbUpdate, JsonbInsert
  <2>2. QED BY <1>2, <1>7, <2>1, ClaimSave, ClaimFrame
<1>8. CASE Remove(p)
  <2>1. k.op = "remove" /\ k.comp \in Comps
    BY <1>1, <1>8 DEF Remove, RemoveDel, RemoveColumns, RemoveFind, RemoveJsonb,
                      At, CallOK
  <2>2. ~Adds(AfterRemovedColumns(k))
    BY <1>1, <2>1 DEF AfterRemovedColumns, Adds, Calls
  <2>3. ASSUME NEW q, NEW m
        PROVE  /\ ~Adds([k EXCEPT !.pc = q])
               /\ ~Adds([k EXCEPT !.pc = q, !.snap = m])
    BY <1>1, <2>1 DEF Adds, Calls
  <2>4. \E n : Goto(p, n) /\ ~Adds(n)
    BY <1>8, <2>2, <2>3 DEF Remove, RemoveDel, RemoveColumns, RemoveFind,
                            RemoveJsonb
  <2>5. KeepsClaims /\ UNCHANGED log
    <3>1. CASE RemoveDel(p)
      BY <2>1, <3>1 DEF RemoveDel, KeepsClaims, TypeOK
    <3>2. CASE ~RemoveDel(p)
      BY <1>2, <1>8, <3>2 DEF Remove, RemoveColumns, RemoveFind, RemoveJsonb
    <3>3. QED BY <3>1, <3>2
  <2>6. QED BY <2>4, <2>5, ClaimFrame
<1>9. CASE Guard(p)
  <2>1. k.op = "guard" /\ k.val \in Values
    BY <1>1, <1>9 DEF Guard, GuardWrite, GuardSet, At, CallOK
  <2>2. \A q : ~Adds([k EXCEPT !.pc = q])
    BY <1>1, <2>1 DEF Adds, Calls
  <2>3. \E n : Goto(p, n) /\ ~Adds(n)
    BY <1>3, <1>9, <2>2 DEF Guard, GuardWrite, GuardSet, Return
  <2>4. KeepsClaims /\ UNCHANGED log
    <3>1. CASE GuardWrite(p)
      BY <1>2, <3>1 DEF GuardWrite
    <3>2. CASE GuardSet(p)
      BY <2>1, <3>2, NullIsNoValue DEF GuardSet, KeepsClaims, TypeOK
    <3>3. QED BY <1>9, <3>1, <3>2 DEF Guard
  <2>5. QED BY <2>3, <2>4, ClaimFrame
<1>10. CASE Emit(p)
  BY <1>10, ClaimPublished
<1>11. QED BY <1>4, <1>5, <1>6, <1>7, <1>8, <1>9, <1>10 DEF Step

(* However many callers race to create a component, it is announced once   *)
(* per life.                                                               *)
THEOREM OneAnnouncement == Spec => []AnnouncedOnce
<1>1. Init => ClaimInv
  BY DEF Init, ClaimInv, Adding, Adds, NoCall, AnnouncedOnce
<1>2. TypeOK /\ TypeOK' /\ ClaimInv /\ [Next]_vars => ClaimInv'
  <2> SUFFICES ASSUME TypeOK, TypeOK', ClaimInv, [Next]_vars PROVE ClaimInv'
    OBVIOUS
  <2>1. CASE Next
    BY <2>1, ClaimStep DEF Next
  <2>2. CASE UNCHANGED vars
    BY <2>2 DEF vars, ClaimInv, Adding, Claimed, AnnouncedOnce
  <2>3. QED BY <2>1, <2>2
<1>3. ClaimInv => AnnouncedOnce
  BY DEF ClaimInv
<1>4. QED BY <1>1, <1>2, <1>3, TypeCorrect, PTL DEF Spec
=============================================================================
