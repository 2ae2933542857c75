------------------------ MODULE ComponentBatchProofs ------------------------
(***************************************************************************)
(* What holds of ComponentManager's single and batch operations together,  *)
(* for any number of callers, components, values, calls and failures.      *)
(***************************************************************************)
EXTENDS Workloads, ComponentManagerProofs, FiniteSetTheorems

-----------------------------------------------------------------------------
(* Facts about lists and batches.                                          *)

(* Removing an element of a list leaves the others, in their order.        *)
LEMMA RemoveAtFacts ==
    ASSUME NEW T, NEW s \in Seq(T), NEW i \in 1..Len(s)
    PROVE  /\ Lists!RemoveAt(s, i) \in Seq(T)
           /\ Len(Lists!RemoveAt(s, i)) = Len(s) - 1
           /\ \A j \in 1..(Len(s) - 1) :
                Lists!RemoveAt(s, i)[j] = s[IF j < i THEN j ELSE j + 1]
<1>1. PICK a : a = SubSeq(s, 1, i - 1)
  OBVIOUS
<1>2. PICK b : b = SubSeq(s, i + 1, Len(s))
  OBVIOUS
<1>3. Lists!RemoveAt(s, i) = a \o b
  BY <1>1, <1>2 DEF Lists!RemoveAt
<1>4. /\ a \in Seq(T) /\ Len(a) = i - 1
      /\ \A j \in 1..(i - 1) : a[j] = s[j]
  BY <1>1
<1>5. /\ b \in Seq(T) /\ Len(b) = Len(s) - i
      /\ \A j \in 1..(Len(s) - i) : b[j] = s[i + j]
  BY <1>2
<1>6. /\ a \o b \in Seq(T) /\ Len(a \o b) = Len(s) - 1
  BY <1>4, <1>5
<1>7. ASSUME NEW j \in 1..(Len(s) - 1)
      PROVE  (a \o b)[j] = s[IF j < i THEN j ELSE j + 1]
  BY <1>4, <1>5
<1>8. QED BY <1>3, <1>6, <1>7

(* A list names no component twice.                                        *)
Distinct(list) ==
    \A i \in DOMAIN list : \A j \in DOMAIN list :
        i # j => list[i][1] # list[j][1]

LEMMA RemoveAtNames ==
    ASSUME NEW a, a.list \in Seq(Comps \X Values), Distinct(a.list),
           NEW n \in 1..Len(a.list),
           NEW e, e.list = Lists!RemoveAt(a.list, n)
    PROVE  /\ e.list \in Seq(Comps \X Values) /\ Distinct(e.list)
           /\ Listed(e) = Listed(a) \ {a.list[n][1]}
           /\ \A j \in 1..Len(e.list) : \E h \in 1..Len(a.list) :
                e.list[j] = a.list[h] /\ h # n
<1> DEFINE s == e.list  list == a.list  T == Comps \X Values
<1>1. /\ s \in Seq(T) /\ Len(s) = Len(list) - 1
      /\ \A j \in 1..(Len(list) - 1) : s[j] = list[IF j < n THEN j ELSE j + 1]
  <2> HIDE DEF T
  <2>1. list \in Seq(T)
    BY DEF T
  <2>2. QED BY <2>1, RemoveAtFacts
<1>2. ASSUME NEW j \in 1..Len(s)
      PROVE  \E h \in 1..Len(list) : s[j] = list[h] /\ h # n
  <2>1. s[j] = list[IF j < n THEN j ELSE j + 1]
    BY <1>1
  <2>2. CASE j < n
    BY <1>1, <2>1, <2>2
  <2>3. CASE ~(j < n)
    BY <1>1, <2>1, <2>3
  <2>4. QED BY <2>2, <2>3
<1>3. ASSUME NEW h \in 1..Len(list), h # n
      PROVE  \E j \in 1..Len(s) : s[j] = list[h]
  <2>1. CASE h < n
    <3>1. h \in 1..Len(s) /\ h \in 1..(Len(list) - 1)
      BY <1>1, <2>1
    <3>2. s[h] = list[h]
      BY <1>1, <2>1, <3>1
    <3>3. QED BY <3>1, <3>2
  <2>2. CASE ~(h < n)
    <3>1. h - 1 \in 1..Len(s) /\ ~(h - 1 < n) /\ h - 1 + 1 = h
      BY <1>1, <1>3, <2>2
    <3>2. s[h - 1] = list[h]
      BY <1>1, <3>1
    <3>3. QED BY <3>1, <3>2
  <2>3. QED BY <2>1, <2>2
<1>4. Distinct(s)
  <2>1. DOMAIN s = 1..Len(s) /\ DOMAIN list = 1..Len(list)
    BY <1>1
  <2>2. SUFFICES ASSUME NEW j \in 1..Len(s), NEW h \in 1..Len(s), j # h
                 PROVE  s[j][1] # s[h][1]
    BY <2>1 DEF Distinct
  <2> DEFINE up(x) == IF x < n THEN x ELSE x + 1
  <2>3. /\ up(j) \in 1..Len(list) /\ up(h) \in 1..Len(list) /\ up(j) # up(h)
    BY <1>1, <2>2
  <2>4. s[j] = list[up(j)] /\ s[h] = list[up(h)]
    BY <1>1
  <2> HIDE DEF up
  <2>5. QED BY <2>1, <2>3, <2>4 DEF Distinct
<1>5. Listed(e) = {s[j][1] : j \in 1..Len(s)} /\ Listed(a) = {list[h][1] : h \in 1..Len(list)}
  BY DEF Listed
<1>6. \A h \in 1..Len(list) : h # n => list[h][1] # list[n][1]
  <2>1. DOMAIN list = 1..Len(list)
    OBVIOUS
  <2>2. QED BY <2>1 DEF Distinct
<1>7. ASSUME NEW c PROVE c \in Listed(e) <=> c \in Listed(a) \ {list[n][1]}
  <2>1. ASSUME c \in Listed(e) PROVE c \in Listed(a) \ {list[n][1]}
    <3>1. PICK j \in 1..Len(s) : c = s[j][1]
      BY <1>5, <2>1
    <3>2. PICK h \in 1..Len(list) : s[j] = list[h] /\ h # n
      BY <1>2
    <3>3. QED BY <1>5, <1>6, <3>1, <3>2
  <2>2. ASSUME c \in Listed(a) \ {list[n][1]} PROVE c \in Listed(e)
    <3>1. PICK h \in 1..Len(list) : c = list[h][1]
      BY <1>5, <2>2
    <3>2. h # n
      BY <2>2, <3>1
    <3>3. PICK j \in 1..Len(s) : s[j] = list[h]
      BY <1>3, <3>2
    <3>4. QED BY <1>5, <3>1, <3>3
  <2>3. QED BY <2>1, <2>2
<1>8. Listed(e) = Listed(a) \ {list[n][1]}
  BY <1>7
<1>9. QED BY <1>1, <1>2, <1>4, <1>8

(* What a batch lists, and the value it has for what it lists.             *)
LEMMA ListFacts ==
    ASSUME NEW b \in Batches
    PROVE  /\ b.list \in Seq(Comps \X Values)
           /\ Listed(b) \subseteq Comps
           /\ \A i \in 1..Len(b.list) : b.list[i][1] \in Listed(b)
           /\ \A c \in Listed(b) :
                /\ ValueIn(b, c) \in Values
                /\ \E i \in 1..Len(b.list) :
                     b.list[i][1] = c /\ b.list[i][2] = ValueIn(b, c)
<1>1. b.list \in Seq(Comps \X Values)
  BY DEF Batches
<1>2. \A i \in 1..Len(b.list) : b.list[i] \in Comps \X Values
  BY <1>1
<1>3. ASSUME NEW c \in Listed(b)
      PROVE  /\ ValueIn(b, c) \in Values
             /\ \E i \in 1..Len(b.list) :
                  b.list[i][1] = c /\ b.list[i][2] = ValueIn(b, c)
  <2>1. PICK h : h = CHOOSE i \in 1..Len(b.list) : b.list[i][1] = c
    OBVIOUS
  <2>2. \E i \in 1..Len(b.list) : b.list[i][1] = c
    BY DEF Listed
  <2>3. h \in 1..Len(b.list) /\ b.list[h][1] = c
    BY <2>1, <2>2
  <2>4. ValueIn(b, c) = b.list[h][2]
    BY <2>1 DEF ValueIn
  <2>5. QED BY <1>2, <2>3, <2>4
<1>4. Listed(b) \subseteq Comps /\ \A i \in 1..Len(b.list) : b.list[i][1] \in Listed(b)
  BY <1>2 DEF Listed
<1>5. QED BY <1>1, <1>3, <1>4

(* In a list without duplicates that value is the one next to the name.    *)
LEMMA ListedValue ==
    ASSUME NEW b \in Batches, Distinct(b.list), NEW i \in 1..Len(b.list)
    PROVE  ValueIn(b, b.list[i][1]) = b.list[i][2]
<1>1. PICK h \in 1..Len(b.list) : /\ b.list[h][1] = b.list[i][1]
                                  /\ b.list[h][2] = ValueIn(b, b.list[i][1])
  BY ListFacts
<1>2. DOMAIN b.list = 1..Len(b.list)
  BY ListFacts
<1>3. h = i
  BY <1>1, <1>2 DEF Distinct
<1>4. QED BY <1>1, <1>3

(* A batch record that differs from another in a few fields.               *)
LEMMA BatchFields ==
    ASSUME NEW b \in Batches, NEW q \in BatchPCs
    PROVE  /\ [b EXCEPT !.pc = q] \in Batches
           /\ \A t \in SUBSET Comps : \A f \in [Comps -> OptValue] :
                /\ [b EXCEPT !.todo = t] \in Batches
                /\ [b EXCEPT !.pc = q, !.todo = t] \in Batches
                /\ [b EXCEPT !.found = f, !.todo = t] \in Batches
           /\ \A t \in SUBSET Comps : \A l \in Seq(Comps \X Values) :
                [b EXCEPT !.todo = t, !.list = l] \in Batches
           /\ \A m \in [Comps -> OptValue] :
                [b EXCEPT !.pc = q, !.snap = m] \in Batches
BY Zenon DEF Batches

LEMMA SameList ==
    ASSUME NEW b, NEW d, d.list = b.list
    PROVE  /\ Listed(d) = Listed(b)
           /\ \A c : ValueIn(d, c) = ValueIn(b, c)
BY DEF Listed, ValueIn

LEMMA NoBatchOK == NoBatch \in Batches
<1>1. /\ "idle" \in AllBatchOps \cup {"idle"} /\ "idle" \in BatchPCs
      /\ <<>> \in Seq(Comps \X Values) /\ {} \in SUBSET Comps
  BY DEF BatchPCs
<1>2. QED BY Zenon, <1>1, EmptyMapType DEF NoBatch, Batches

-----------------------------------------------------------------------------
(* Which batch issues which request, and what it has at hand then.         *)

WritePCs == {"find", "update", "insert", "hset", "emit"}

Ready(b) == /\ b.op \in AllBatchOps
            /\ Distinct(b.list)
            /\ b.todo \subseteq Listed(b)

Fits(b) == /\ b.pc \in {"names", "columns"} => b.op = "adds"
           /\ b.pc = "fetch" => b.op # "adds"
           /\ b.pc = "check" => b.op = "upserts"
           /\ b.pc = "done" => b.op = "reads"
           /\ b.pc \in WritePCs => /\ b.op # "reads" /\ b.list # <<>>
                                   /\ ~BatchRefused(b)

BatchOK(b) == /\ b.pc = "idle" => b = NoBatch
              /\ b.pc # "idle" => Ready(b) /\ Fits(b)

LEMMA NoBatchFits == BatchOK(NoBatch)
BY DEF BatchOK, NoBatch

(* A lookup leads past the transaction only if nothing is to be stored.    *)
Unwritten(b) == /\ b.pc \notin {"update", "insert", "emit"}
                /\ b.pc = "hset" =>
                     Listed(b) \cap (Persistent \cup Projected) = {}

(* AfterLookup and AfterCached choose a pc, and a list of what to judge.   *)
LEMMA AfterLookupCases ==
    ASSUME NEW b
    PROVE  \/ AfterLookup(b) = NoBatch
           \/ b.op = "reads" /\ AfterLookup(b) = [b EXCEPT !.pc = "done"]
           \/ /\ b.op # "reads" /\ ~BatchRefused(b) /\ b.list # <<>>
              /\ \E q \in {"find", "hset"} :
                   /\ AfterLookup(b) = [b EXCEPT !.pc = q]
                   /\ q = "hset" =>
                        Listed(b) \cap (Persistent \cup Projected) = {}
BY DEF AfterLookup

LEMMA AfterCachedCases ==
    ASSUME NEW b
    PROVE  \/ AfterCached(b) = AfterLookup(b)
           \/ b.op = "adds" /\ \E q \in {"names", "columns"} :
                AfterCached(b) = [b EXCEPT !.pc = q]
           \/ b.op # "adds" /\ AfterCached(b) = [b EXCEPT !.pc = "fetch"]
           \/ /\ b.op = "upserts" /\ b.todo = {}
              /\ AfterCached(b) = [b EXCEPT !.pc = "check",
                      !.todo = {c \in Listed(b) : b.found[c] # Null}]
BY DEF AfterCached

LEMMA AfterLookupOK ==
    ASSUME NEW b \in Batches, Ready(b)
    PROVE  /\ AfterLookup(b) \in Batches /\ BatchOK(AfterLookup(b))
           /\ Unwritten(AfterLookup(b))
<1>1. ASSUME NEW q \in {"done", "find", "hset"},
             q = "done" => b.op = "reads",
             q # "done" =>
               b.op # "reads" /\ ~BatchRefused(b) /\ b.list # <<>>,
             q = "hset" => Listed(b) \cap (Persistent \cup Projected) = {}
      PROVE  /\ [b EXCEPT !.pc = q] \in Batches
             /\ BatchOK([b EXCEPT !.pc = q])
             /\ Unwritten([b EXCEPT !.pc = q])
  <2>1. PICK d : d = [b EXCEPT !.pc = q]
    OBVIOUS
  <2>2. d \in Batches
    BY Zenon, <2>1, BatchFields, q \in BatchPCs DEF BatchPCs
  <2>3. /\ d.pc = q /\ d.op = b.op /\ d.list = b.list /\ d.todo = b.todo
        /\ d.found = b.found
    BY <2>1 DEF Batches
  <2>4. Listed(d) = Listed(b)
    BY <2>3, SameList
  <2>5. BatchRefused(d) = BatchRefused(b)
    BY <2>3, <2>4 DEF BatchRefused
  <2>6. QED BY <1>1, <2>1, <2>2, <2>3, <2>4, <2>5
            DEF BatchOK, Ready, Fits, WritePCs, Unwritten
<1>2. Unwritten(NoBatch)
  BY DEF Unwritten, NoBatch
<1>3. QED BY <1>1, <1>2, AfterLookupCases, NoBatchOK, NoBatchFits

LEMMA AfterCachedOK ==
    ASSUME NEW b \in Batches, Ready(b)
    PROVE  /\ AfterCached(b) \in Batches /\ BatchOK(AfterCached(b))
           /\ Unwritten(AfterCached(b))
<1>1. ASSUME NEW q \in {"names", "columns", "fetch", "check"},
             NEW t \in SUBSET Comps, t \subseteq Listed(b),
             q \in {"names", "columns"} => b.op = "adds",
             q = "fetch" => b.op # "adds",
             q = "check" => b.op = "upserts"
      PROVE  /\ [b EXCEPT !.pc = q, !.todo = t] \in Batches
             /\ BatchOK([b EXCEPT !.pc = q, !.todo = t])
             /\ Unwritten([b EXCEPT !.pc = q, !.todo = t])
  <2>1. PICK d : d = [b EXCEPT !.pc = q, !.todo = t]
    OBVIOUS
  <2>2. d \in Batches
    <3>1. q \in BatchPCs /\ b.found \in [Comps -> OptValue]
      BY DEF BatchPCs, Batches
    <3>2. QED BY Zenon, <2>1, <3>1, BatchFields
  <2>3. d.pc = q /\ d.op = b.op /\ d.list = b.list /\ d.todo = t
    BY <2>1 DEF Batches
  <2>4. Listed(d) = Listed(b)
    BY <2>3, SameList
  <2>5. QED BY <1>1, <2>1, <2>2, <2>3, <2>4
            DEF BatchOK, Ready, Fits, WritePCs, Unwritten
<1>2. ASSUME NEW q \in {"names", "columns", "fetch"},
             q \in {"names", "columns"} => b.op = "adds",
             q = "fetch" => b.op # "adds"
      PROVE  /\ [b EXCEPT !.pc = q] \in Batches
             /\ BatchOK([b EXCEPT !.pc = q])
             /\ Unwritten([b EXCEPT !.pc = q])
  <2>1. PICK d : d = [b EXCEPT !.pc = q]
    OBVIOUS
  <2>2. d \in Batches
    BY Zenon, <2>1, BatchFields, q \in BatchPCs DEF BatchPCs
  <2>3. d.pc = q /\ d.op = b.op /\ d.list = b.list /\ d.todo = b.todo
    BY <2>1 DEF Batches
  <2>4. Listed(d) = Listed(b)
    BY <2>3, SameList
  <2>5. QED BY <1>2, <2>1, <2>2, <2>3, <2>4
            DEF BatchOK, Ready, Fits, WritePCs, Unwritten
<1>3. PICK t : t = {c \in Listed(b) : b.found[c] # Null}
  OBVIOUS
<1>4. t \subseteq Listed(b) /\ t \in SUBSET Comps
  BY <1>3, ListFacts
<1>5. QED BY <1>1, <1>2, <1>3, <1>4, AfterCachedCases, AfterLookupOK

-----------------------------------------------------------------------------
(* A single call and the batch of its caller.                              *)

(* A call next to a batch is the getComponent that the batch awaits.       *)
Paired(k, b) == /\ k.op = "fetch" => b.pc = "fetch" /\ k.comp \in b.todo
                /\ k.pc = "fetched" => k.op = "fetch"
                /\ b # NoBatch => k = NoCall \/ k.op = "fetch"

BatchInv == /\ BatchTypeOK
            /\ \A p \in Procs : BatchOK(batch[p]) /\ Paired(call[p], batch[p])

LEMMA BatchFacts ==
    ASSUME BatchInv, NEW p \in Procs
    PROVE  /\ TypeOK
           /\ batch[p] \in Batches /\ BatchOK(batch[p])
           /\ Paired(call[p], batch[p])
           /\ batch[p].op \in AllBatchOps \cup {"idle"}
           /\ batch[p].list \in Seq(Comps \X Values)
           /\ batch[p].todo \in SUBSET Comps
           /\ batch[p].found \in [Comps -> OptValue]
           /\ batch[p].snap \in [Comps -> OptValue]
           /\ batch[p].pc # "idle" => Ready(batch[p]) /\ Fits(batch[p])
BY DEF BatchInv, BatchTypeOK, Batches, BatchOK

(* A single call stays what it is: of the component it is about, and a     *)
(* nested getComponent or none.                                            *)
Continues(n, k) ==
    /\ n.pc = "fetched" => n.op = "fetch"
    /\ k.op = "fetch" => n.op = "fetch"
    /\ n # NoCall => n.comp = k.comp /\ (n.op = "fetch" => k.op = "fetch")

LEMMA AfterGetContinues ==
    ASSUME NEW k \in Calls, NEW x \in OptValue, k.op # "idle"
    PROVE  Continues(AfterGet(k, x), k)
<1>1. ASSUME k.op # "fetch" PROVE Continues(NoCall, k)
  BY <1>1 DEF Continues, NoCall
<1>2. ASSUME NEW f \in OptValue, NEW q \in {"update.set", "has.redis",
                 "upsert.check", "get.redis", "remove.del", "guard.write"},
             NEW o \in {"add", "update"}, k.op # "fetch"
      PROVE  /\ Continues([k EXCEPT !.pc = q, !.found = f], k)
             /\ Continues([k EXCEPT !.op = o, !.pc = q, !.found = f], k)
  <2>1. PICK n : n = [k EXCEPT !.pc = q, !.found = f]
    OBVIOUS
  <2>2. PICK m : m = [k EXCEPT !.op = o, !.pc = q, !.found = f]
    OBVIOUS
  <2>3. /\ n.pc = q /\ n.op = k.op /\ n.comp = k.comp
        /\ m.pc = q /\ m.op = o /\ m.comp = k.comp
    BY <2>1, <2>2 DEF Calls
  <2>4. QED BY <1>2, <2>1, <2>2, <2>3 DEF Continues
<1>3. ASSUME k.op = "fetch"
      PROVE  Continues([k EXCEPT !.pc = "fetched", !.found = x], k)
  <2>1. PICK n : n = [k EXCEPT !.pc = "fetched", !.found = x]
    OBVIOUS
  <2>2. n.pc = "fetched" /\ n.op = k.op /\ n.comp = k.comp
    BY <2>1 DEF Calls
  <2>3. QED BY <1>3, <2>1, <2>2 DEF Continues
<1>4. Null \in OptValue
  BY DEF OptValue
<1>5. QED BY <1>1, <1>2, <1>3, <1>4 DEF AfterGet

LEMMA StepContinues ==
    ASSUME TypeOK, NEW p \in Procs, Step(p)
    PROVE  /\ Continues(call'[p], call[p])
           /\ \A q \in Procs : q # p => call'[q] = call[q]
           /\ ~At(p, "idle")
<1> DEFINE k == call[p]
<1>1. /\ k \in Calls /\ CallOK(k) /\ k.found \in OptValue
      /\ ~At(p, "idle") => k.comp \in Comps
  BY CallFacts
<1>2. ASSUME k.op # "fetch" PROVE Continues(NoCall, k)
  BY <1>2 DEF Continues, NoCall
<1>3. ASSUME NEW n \in Calls, n.comp = k.comp, n.op = k.op, n.pc # "fetched"
      PROVE  Continues(n, k)
  BY <1>3 DEF Continues
<1>4. ASSUME NEW n, Goto(p, n), Continues(n, k), ~At(p, "idle")
      PROVE  /\ Continues(call'[p], call[p])
             /\ \A q \in Procs : q # p => call'[q] = call[q]
             /\ ~At(p, "idle")
  BY <1>4 DEF Goto, TypeOK
<1>5. CASE Read(p)
  <2>1. ~At(p, "idle") /\ k.op # "idle" /\ k.comp \in Comps
    BY <1>1, <1>5 DEF Read, GetRedis, GetJsonb, GetColumns, GetWarm, At, CallOK
  <2>2. \A x \in OptValue : Continues(AfterGet(k, x), k)
    BY <1>1, <2>1, AfterGetContinues
  <2>3. /\ Continues([k EXCEPT !.pc = "get.jsonb"], k)
        /\ Continues([k EXCEPT !.pc = "get.columns"], k)
        /\ \A x \in OptValue : Continues([k EXCEPT !.pc = "get.warm", !.found = x], k)
    BY <1>1 DEF Continues, Calls
  <2>4. Null \in OptValue /\ redis[k.comp] \in OptValue
    BY <2>1 DEF OptValue, TypeOK
  <2>5. \A x \in OptKey : FromColumn(x) \in OptValue
    BY FromColumnType
  <2>6. \E n : Goto(p, n) /\ Continues(n, k)
    <3>1. CASE GetRedis(p)
      BY <2>2, <2>3, <2>4, <3>1 DEF GetRedis
    <3>2. CASE GetJsonb(p)
      BY <2>2, <2>3, <2>4, <3>2 DEF GetJsonb
    <3>3. CASE GetColumns(p)
      BY <2>2, <2>3, <2>4, <2>5, <3>3 DEF GetColumns
    <3>4. CASE GetWarm(p)
      BY <1>1, <2>2, <3>4 DEF GetWarm
    <3>5. QED BY <1>5, <3>1, <3>2, <3>3, <3>4 DEF Read
  <2>7. QED BY <1>4, <2>1, <2>6
<1>6. CASE Probe(p)
  <2>1. ~At(p, "idle") /\ k.op \in {"has", "add"}
    BY <1>1, <1>6 DEF Probe, HasRedis, HasJsonb, HasWarm, HasColumns, At, CallOK
  <2>2. /\ Continues([k EXCEPT !.pc = "has.jsonb"], k)
        /\ Continues([k EXCEPT !.pc = "has.columns"], k)
        /\ Continues([k EXCEPT !.pc = "add.claim"], k)
        /\ \A x \in OptValue : Continues([k EXCEPT !.pc = "has.warm", !.found = x], k)
    BY <1>1, <2>1 DEF Continues, Calls
  <2>3. Continues(NoCall, k) /\ Continues(AfterAbsent(k), k)
    BY <1>2, <2>1, <2>2 DEF AfterAbsent
  <2>4. \E n : Goto(p, n) /\ Continues(n, k)
    <3>1. CASE HasRedis(p)
      BY <2>2, <2>3, <3>1 DEF HasRedis
    <3>2. CASE HasJsonb(p)
      BY <2>2, <2>3, <3>2 DEF HasJsonb
    <3>3. CASE HasWarm(p)
      BY <2>3, <3>3 DEF HasWarm, Return
    <3>4. CASE HasColumns(p)
      BY <2>2, <2>3, <3>4 DEF HasColumns
    <3>5. QED BY <1>6, <3>1, <3>2, <3>3, <3>4 DEF Probe
  <2>5. QED BY <1>4, <2>1, <2>4
<1>7. CASE UpsertCheck(p)
  <2>1. ~At(p, "idle") /\ k.op = "upsert"
    BY <1>1, <1>7 DEF UpsertCheck, At, CallOK
  <2>2. Continues([k EXCEPT !.op = "update", !.pc = "get.redis", !.found = Null], k)
    BY <1>1, <2>1 DEF Continues, Calls
  <2>3. \E n : Goto(p, n) /\ Continues(n, k)
    BY <1>2, <1>7, <2>1, <2>2 DEF UpsertCheck
  <2>4. QED BY <1>4, <2>1, <2>3
<1>8. CASE AddClaim(p) \/ UpdateSet(p) \/ Save(p)
  <2>1. ~At(p, "idle") /\ k.op \in {"add", "update"}
    BY <1>1, <1>8 DEF AddClaim, UpdateSet, Save, ColumnsFind, ColumnsUpdate,
         ColumnsInsert, JsonbFind, JsonbUpdate, JsonbInsert, At, CallOK, SavePCs
  <2>2. ASSUME NEW q \in {"columns.find", "columns.update", "columns.insert",
                   "jsonb.find", "jsonb.update", "jsonb.insert", "emit"},
               NEW e, NEW m
        PROVE  /\ Continues([k EXCEPT !.pc = q], k)
               /\ Continues([[k EXCEPT !.pc = q] EXCEPT !.epoch = e], k)
               /\ Continues([[k EXCEPT !.pc = q] EXCEPT !.found = m], k)
               /\ Continues([k EXCEPT !.pc = q, !.snap = m], k)
    BY <1>1, <2>1, <2>2 DEF Continues, Calls
  <2>3. /\ Continues(AfterColumns(k), k)
        /\ \A e : Continues([AfterCacheWrite(k) EXCEPT !.epoch = e], k)
        /\ \A m : Continues([AfterCacheWrite(k) EXCEPT !.found = m], k)
    BY <2>2 DEF AfterCacheWrite, AfterColumns
  <2>4. Continues(NoCall, k)
    BY <1>2, <2>1
  <2>5. \E n : Goto(p, n) /\ Continues(n, k)
    <3>1. CASE AddClaim(p)
      BY <2>3, <2>4, <3>1 DEF AddClaim, Return
    <3>2. CASE UpdateSet(p)
      BY <2>3, <3>2 DEF UpdateSet
    <3>3. CASE ColumnsFind(p)
      BY <2>2, <2>3, <3>3 DEF ColumnsFind
    <3>4. CASE ColumnsUpdate(p) \/ ColumnsInsert(p)
      BY <2>3, <3>4 DEF ColumnsUpdate, ColumnsInsert
    <3>5. CASE JsonbFind(p)
      BY <2>2, <3>5 DEF JsonbFind
    <3>6. CASE JsonbUpdate(p) \/ JsonbInsert(p)
      BY <2>2, <2>4, <3>6 DEF JsonbUpdate, JsonbInsert, Return
    <3>7. QED BY <1>8, <3>1, <3>2, <3>3, <3>4, <3>5, <3>6 DEF Save
  <2>6. QED BY <1>4, <2>1, <2>5
<1>9. CASE Remove(p)
  <2>1. ~At(p, "idle") /\ k.op = "remove"
    BY <1>1, <1>9 DEF Remove, RemoveDel, RemoveColumns, RemoveFind, RemoveJsonb,
                      At, CallOK
  <2>2. ASSUME NEW q \in {"remove.columns", "remove.find", "remove.jsonb",
                   "emit"}, NEW m
        PROVE  /\ Continues([k EXCEPT !.pc = q], k)
               /\ Continues([k EXCEPT !.pc = q, !.snap = m], k)
    BY <1>1, <2>1, <2>2 DEF Continues, Calls
  <2>3. Continues(AfterRemovedColumns(k), k)
    BY <2>2 DEF AfterRemovedColumns
  <2>4. \E n : Goto(p, n) /\ Continues(n, k)
    BY <1>9, <2>2, <2>3 DEF Remove, RemoveDel, RemoveColumns, RemoveFind,
                            RemoveJsonb
  <2>5. QED BY <1>4, <2>1, <2>4
<1>10. CASE Guard(p)
  <2>1. ~At(p, "idle") /\ k.op = "guard"
    BY <1>1, <1>10 DEF Guard, GuardWrite, GuardSet, At, CallOK
  <2>2. /\ Continues([k EXCEPT !.pc = "guard.set"], k)
        /\ Continues([k EXCEPT !.pc = "emit"], k)
    BY <1>1 DEF Continues, Calls
  <2>3. \E n : Goto(p, n) /\ Continues(n, k)
    BY <1>2, <1>10, <2>1, <2>2 DEF Guard, GuardWrite, GuardSet, Return
  <2>4. QED BY <1>4, <2>1, <2>3
<1>11. CASE Emit(p)
  <2>1. ~At(p, "idle") /\ k.op # "fetch"
    BY <1>1, <1>11 DEF Emit, At, CallOK
  <2>2. QED BY <1>2, <1>4, <1>11, <2>1 DEF Emit, Return
<1>12. QED BY <1>5, <1>6, <1>7, <1>8, <1>9, <1>10, <1>11 DEF Step

-----------------------------------------------------------------------------
(* Type correctness of the batch operations, one step per action.          *)

LEMMA BatchFrame ==
    ASSUME BatchInv, TypeOK', NEW p \in Procs, NEW d \in Batches,
           BatchGoto(p, d), BatchOK(d), Paired(call'[p], d),
           \A q \in Procs : q # p => call'[q] = call[q]
    PROVE  BatchInv' /\ batch'[p] = d
<1>1. batch' \in [Procs -> Batches] /\ batch'[p] = d
  BY DEF BatchInv, BatchTypeOK, BatchGoto
<1>2. \A q \in Procs : q # p => batch'[q] = batch[q]
  BY DEF BatchInv, BatchTypeOK, BatchGoto
<1>3. \A q \in Procs : BatchOK(batch'[q]) /\ Paired(call'[q], batch'[q])
  BY <1>1, <1>2 DEF BatchInv
<1>4. QED BY <1>1, <1>3 DEF BatchInv, BatchTypeOK, Paired, BatchOK, Ready, Fits

LEMMA TypeSingle ==
    ASSUME BatchInv, NEW p \in Procs, SingleStep(p) PROVE BatchInv'
<1> DEFINE k == call[p]  b == batch[p]
<1>1. /\ TypeOK /\ b \in Batches /\ BatchOK(b) /\ Paired(k, b)
      /\ k \in Calls /\ CallOK(k)
  BY BatchFacts, CallFacts
<1>2. UNCHANGED batch
  BY DEF SingleStep
<1>3. BatchGoto(p, b)
  BY <1>2 DEF BatchGoto, BatchInv, BatchTypeOK
<1>4. CASE Step(p)
  <2>1. TypeOK'
    BY <1>1, <1>4, TypeProbe, TypeRead, TypeUpsertCheck, TypeAddClaim,
       TypeUpdateSet, TypeSave, TypeRemove, TypeGuard, TypeEmit DEF Step
  <2>2. /\ Continues(call'[p], k)
        /\ \A q \in Procs : q # p => call'[q] = call[q]
        /\ ~At(p, "idle")
    BY <1>1, <1>4, StepContinues
  <2>3. NoCall.op # "fetch"
    BY DEF NoCall
  <2>4. k # NoCall
    BY <2>2 DEF At, NoCall
  <2>5. Paired(call'[p], b)
    BY <1>1, <2>2, <2>3, <2>4 DEF Paired, Continues
  <2>6. QED BY <1>1, <1>3, <2>1, <2>2, <2>5, BatchFrame
<1>5. CASE b = NoBatch /\ Start(p)
  <2>1. TypeOK'
    BY <1>1, <1>5, TypeStart
  <2>2. \A q \in Procs : q # p => call'[q] = call[q]
    BY <1>1, <1>5 DEF Start, Goto, TypeOK
  <2>3. call'[p].op \in AllOps /\ call'[p].pc # "fetched"
    BY <1>1, <1>5, CallerAssumption DEF CallerAssumption, Start, Goto, TypeOK
  <2>4. call'[p].op # "fetch"
    BY <2>3 DEF AllOps
  <2>5. Paired(call'[p], b)
    BY <1>5, <2>3, <2>4 DEF Paired
  <2>6. QED BY <1>1, <1>3, <2>1, <2>2, <2>5, BatchFrame
<1>6. CASE b = NoBatch /\ Abort(p)
  <2>1. TypeOK'
    BY <1>1, <1>6, TypeAbort
  <2>2. call'[p] = NoCall /\ \A q \in Procs : q # p => call'[q] = call[q]
    BY <1>1, <1>6 DEF Abort, Return, Goto, TypeOK
  <2>3. Paired(call'[p], b)
    BY <1>6, <2>2 DEF Paired, NoCall
  <2>4. QED BY <1>1, <1>3, <2>1, <2>2, <2>3, BatchFrame
<1>7. QED BY <1>4, <1>5, <1>6 DEF SingleStep

(* A batch as it is passed in.                                             *)
LEMMA BatchStarts ==
    ASSUME BatchInv, NEW p \in Procs, BatchStart(p)
    PROVE  \E b \in Batches :
             /\ Ready(b) /\ b.list # <<>> /\ b.todo = {}
             /\ b.found = EmptyMap /\ b.snap = EmptyMap
             /\ \/ BatchGoto(p, [b EXCEPT !.pc = "cache"])
                \/ /\ b.op = "adds"
                   /\ \A c \in Listed(b) : Effective(c) = Null
                   /\ BatchGoto(p, AfterLookup(b))
<1>1. PICK op \in BatchOps, n \in 1..BatchSize :
       \E list \in [1..n -> Comps \X Values] :
         /\ \A i, j \in 1..n : i # j => list[i][1] # list[j][1]
         /\ LET b == [NoBatch EXCEPT !.op = op, !.list = list]
            IN \/ BatchGoto(p, [b EXCEPT !.pc = "cache"])
               \/ /\ op = "adds"
                  /\ \A c \in Listed(b) : Effective(c) = Null
                  /\ BatchGoto(p, AfterLookup(b))
  BY DEF BatchStart
<1>2. PICK list \in [1..n -> Comps \X Values] :
         /\ \A i, j \in 1..n : i # j => list[i][1] # list[j][1]
         /\ LET b == [NoBatch EXCEPT !.op = op, !.list = list]
            IN \/ BatchGoto(p, [b EXCEPT !.pc = "cache"])
               \/ /\ op = "adds"
                  /\ \A c \in Listed(b) : Effective(c) = Null
                  /\ BatchGoto(p, AfterLookup(b))
  BY <1>1
<1>3. PICK b : b = [NoBatch EXCEPT !.op = op, !.list = list]
  OBVIOUS
<1>4. list \in Seq(Comps \X Values) /\ Distinct(list) /\ list # <<>>
  <2>1. n \in Nat /\ n > 0
    BY BatchAssumption DEF BatchAssumption
  <2>2. list \in Seq(Comps \X Values) /\ Len(list) = n
    BY <2>1
  <2>3. QED BY <1>2, <2>1, <2>2 DEF Distinct
<1>5. op \in AllBatchOps
  BY BatchAssumption DEF BatchAssumption
<1>6. b \in Batches
  <2>1. op \in AllBatchOps \cup {"idle"}
    BY <1>5
  <2>2. QED BY Zenon, <1>3, <1>4, <2>1, NoBatchOK DEF Batches
<1>7. /\ b.op = op /\ b.list = list /\ b.todo = {}
      /\ b.found = EmptyMap /\ b.snap = EmptyMap
  BY <1>3 DEF NoBatch
<1>8. Ready(b)
  BY <1>4, <1>5, <1>7 DEF Ready
<1>9. \/ BatchGoto(p, [b EXCEPT !.pc = "cache"])
      \/ /\ b.op = "adds"
         /\ \A c \in Listed(b) : Effective(c) = Null
         /\ BatchGoto(p, AfterLookup(b))
  BY <1>2, <1>3, <1>7
<1>10. QED BY <1>4, <1>6, <1>7, <1>8, <1>9

LEMMA TypeBatchStart ==
    ASSUME BatchInv, NEW p \in Procs, BatchStart(p)
    PROVE  BatchInv' /\ Unwritten(batch'[p])
<1>1. TypeOK' /\ \A q \in Procs : call'[q] = call[q]
  BY BatchFacts, RowOK DEF BatchStart, TypeOK
<1>2. PICK b \in Batches : /\ Ready(b)
                           /\ \/ BatchGoto(p, [b EXCEPT !.pc = "cache"])
                              \/ BatchGoto(p, AfterLookup(b))
  BY BatchStarts
<1>3. PICK d : d = [b EXCEPT !.pc = "cache"]
  OBVIOUS
<1>4. d \in Batches /\ BatchOK(d) /\ Unwritten(d)
  <2>1. d \in Batches
    BY Zenon, <1>3, BatchFields, "cache" \in BatchPCs DEF BatchPCs
  <2>2. d.pc = "cache" /\ d.op = b.op /\ d.list = b.list /\ d.todo = b.todo
    BY <1>3 DEF Batches
  <2>3. Ready(d)
    BY <1>2, <2>2, SameList DEF Ready
  <2>4. QED BY <2>1, <2>2, <2>3 DEF BatchOK, Fits, WritePCs, Unwritten
<1>5. BatchGoto(p, d) \/ BatchGoto(p, AfterLookup(b))
  BY <1>2, <1>3
<1>6. \A e : Paired(call'[p], e)
  <2>1. call[p] = NoCall
    BY DEF BatchStart
  <2>2. call'[p] = NoCall
    BY <1>1, <2>1
  <2>3. QED BY <2>2 DEF Paired, NoCall
<1>7. QED BY <1>1, <1>2, <1>4, <1>5, <1>6, AfterLookupOK, BatchFrame

(* The lookup.                                                             *)
BatchLookup(p) == \/ BatchCache(p) \/ BatchFetch(p) \/ BatchFetched(p)
                  \/ BatchNames(p) \/ BatchColumns(p) \/ BatchCheck(p)

LEMMA Judged ==
    ASSUME NEW b \in Batches, Ready(b),
           NEW f \in [Comps -> OptValue], NEW t, t \subseteq Listed(b),
           NEW d, d = [b EXCEPT !.found = f, !.todo = t]
    PROVE  /\ d \in Batches /\ Ready(d)
           /\ d.op = b.op /\ d.pc = b.pc /\ d.list = b.list /\ d.snap = b.snap
           /\ d.found = f /\ d.todo = t
           /\ Listed(d) = Listed(b)
<1>1. t \in SUBSET Comps /\ b.pc \in BatchPCs
  BY ListFacts DEF Batches
<1>2. d \in Batches
  BY Zenon, <1>1, BatchFields
<1>3. /\ d.op = b.op /\ d.pc = b.pc /\ d.list = b.list /\ d.snap = b.snap
      /\ d.found = f /\ d.todo = t
  BY DEF Batches
<1>4. QED BY <1>2, <1>3, SameList DEF Ready

(* upsertComponents goes through its list.                                 *)
LEMMA CheckedList ==
    ASSUME NEW b \in Batches, Distinct(b.list),
           NEW i \in 1..Len(b.list), NEW d,
           d.list = b.list \/ d.list = Lists!RemoveAt(b.list, i)
    PROVE  /\ d.list \in Seq(Comps \X Values) /\ Distinct(d.list)
           /\ Listed(d) = IF d.list = b.list THEN Listed(b)
                          ELSE Listed(b) \ {b.list[i][1]}
<1>1. b.list \in Seq(Comps \X Values)
  BY ListFacts
<1>2. CASE d.list = b.list
  BY <1>1, <1>2, SameList
<1>3. CASE d.list # b.list
  <2>1. d.list = Lists!RemoveAt(b.list, i)
    BY <1>3
  <2>2. QED BY <1>1, <1>3, <2>1, RemoveAtNames
<1>4. QED BY <1>2, <1>3

LEMMA CheckedOne ==
    ASSUME NEW b \in Batches, Ready(b), Fits(b), b.pc = "check",
           NEW i \in 1..Len(b.list), b.list[i][1] \in b.todo,
           NEW l \in {b.list, Lists!RemoveAt(b.list, i)},
           NEW d, d = [b EXCEPT !.todo = @ \ {b.list[i][1]}, !.list = l]
    PROVE  /\ d \in Batches /\ BatchOK(d)
           /\ d.op = b.op /\ d.pc = b.pc /\ d.list = l /\ d.snap = b.snap
           /\ d.found = b.found /\ d.todo = b.todo \ {b.list[i][1]}
           /\ Listed(d) = IF l = b.list THEN Listed(b)
                          ELSE Listed(b) \ {b.list[i][1]}
<1> DEFINE c == b.list[i][1]
<1>1. b.list \in Seq(Comps \X Values) /\ Distinct(b.list)
  BY ListFacts DEF Ready
<1>2. /\ d.op = b.op /\ d.pc = b.pc /\ d.list = l /\ d.snap = b.snap
      /\ d.found = b.found /\ d.todo = b.todo \ {c}
  BY DEF Batches
<1>3. /\ l \in Seq(Comps \X Values) /\ Distinct(l)
      /\ Listed(d) = IF l = b.list THEN Listed(b) ELSE Listed(b) \ {c}
  <2>1. d.list = b.list \/ d.list = Lists!RemoveAt(b.list, i)
    BY <1>2
  <2>2. /\ d.list \in Seq(Comps \X Values) /\ Distinct(d.list)
        /\ Listed(d) = IF d.list = b.list THEN Listed(b)
                       ELSE Listed(b) \ {b.list[i][1]}
    <3> HIDE DEF c
    <3>1. QED BY <1>1, <2>1, CheckedList
  <2>3. QED BY <1>2, <2>2
<1>4. b.todo \ {c} \in SUBSET Comps
  BY DEF Batches
<1>5. d \in Batches
  BY Zenon, <1>3, <1>4, BatchFields, "check" \in BatchPCs DEF BatchPCs
<1>6. Ready(d)
  BY <1>2, <1>3 DEF Ready
<1>7. BatchOK(d)
  BY <1>2, <1>6 DEF BatchOK, Fits, WritePCs
<1>8. QED BY <1>2, <1>3, <1>5, <1>7

LEMMA TypeBatchLookup ==
    ASSUME BatchInv, NEW p \in Procs, BatchLookup(p)
    PROVE  BatchInv' /\ Unwritten(batch'[p])
<1> DEFINE b == batch[p]  k == call[p]
<1>1. /\ TypeOK /\ b \in Batches /\ BatchOK(b) /\ Paired(k, b)
      /\ b.todo \in SUBSET Comps
      /\ b.found \in [Comps -> OptValue]
  BY BatchFacts
<1>2. b.pc # "idle" /\ Ready(b) /\ Fits(b)
  BY <1>1, BatchFacts DEF BatchLookup, BatchCache, BatchFetch, BatchFetched,
         BatchNames, BatchColumns, BatchCheck, BatchAt
<1>3. Listed(b) \subseteq Comps
  BY <1>1, ListFacts
<1>4. b # NoBatch
  BY <1>2 DEF NoBatch
<1>5. ASSUME b.pc # "fetch", call' = call
      PROVE  /\ \A d : Paired(call'[p], d)
             /\ \A q \in Procs : q # p => call'[q] = call[q]
  BY <1>1, <1>4, <1>5 DEF Paired, NoCall
<1>6. CASE BatchCache(p)
  <2>1. TypeOK' /\ call' = call /\ b.pc = "cache"
    BY <1>1, <1>6, RowOK DEF BatchCache, BatchAt, vars, row, TypeOK
  <2>2. PICK f : f = [c \in Comps |-> IF c \in Listed(b) THEN redis[c] ELSE Null]
    OBVIOUS
  <2>3. PICK t : t = {c \in Listed(b) : redis[c] = Null}
    OBVIOUS
  <2>4. f \in [Comps -> OptValue] /\ t \subseteq Listed(b)
    BY <1>1, <2>2, <2>3 DEF TypeOK, OptValue
  <2>5. PICK d : d = [b EXCEPT !.found = f, !.todo = t]
    OBVIOUS
  <2>6. BatchGoto(p, AfterCached(d))
    BY <1>6, <2>2, <2>3, <2>5 DEF BatchCache
  <2>7. d \in Batches /\ Ready(d)
    BY <1>1, <1>2, <2>4, <2>5, Judged
  <2>8. QED BY <1>5, <2>1, <2>6, <2>7, AfterCachedOK, BatchFrame
<1>7. CASE BatchFetch(p)
  <2>1. PICK c \in b.todo :
           call' = [call EXCEPT ![p] = [NoCall EXCEPT !.op = "fetch",
                                            !.comp = c, !.pc = "get.redis"]]
    BY <1>7 DEF BatchFetch
  <2>2. PICK n : n = [NoCall EXCEPT !.op = "fetch", !.comp = c,
                                    !.pc = "get.redis"]
    OBVIOUS
  <2>3. /\ n.op = "fetch" /\ n.comp = c /\ n.pc = "get.redis"
    BY <2>2 DEF NoCall
  <2>4. n \in Calls
    <3>1. /\ "fetch" \in AllOps \cup {"idle", "fetch"} /\ "get.redis" \in PCs
          /\ c \in Comps \cup {Null}
      BY <1>1 DEF PCs
    <3>2. QED BY Zenon, <2>2, <3>1, NoCallOK DEF Calls
  <2>5. CallOK(n)
    BY <1>1, <2>3 DEF CallOK, SavePCs
  <2>6. Goto(p, n)
    BY <2>1, <2>2 DEF Goto
  <2>7. call' \in [Procs -> Calls] /\ \A q \in Procs : CallOK(call'[q])
    BY <1>1, <2>4, <2>5, <2>6, GotoOK
  <2>8. TypeOK' /\ UNCHANGED batch /\ b.pc = "fetch"
    BY <1>1, <1>7, <2>7, RowOK DEF BatchFetch, TypeOK, BatchAt
  <2>9. call'[p] = n /\ \A q \in Procs : q # p => call'[q] = call[q]
    BY <1>1, <2>6 DEF Goto, TypeOK
  <2>10. Paired(call'[p], b)
    BY <2>3, <2>8, <2>9 DEF Paired
  <2>11. BatchGoto(p, b)
    BY <2>8 DEF BatchGoto, BatchInv, BatchTypeOK
  <2>12. Unwritten(b)
    BY <2>8 DEF Unwritten
  <2>13. QED BY <1>1, <2>8, <2>9, <2>10, <2>11, <2>12, BatchFrame
<1>8. CASE BatchFetched(p)
  <2>1. /\ k.pc = "fetched" /\ Return(p)
        /\ UNCHANGED <<row, redis, log, calls, faults, epoch, committed>>
    BY <1>8 DEF BatchFetched
  <2>2. TypeOK'
    BY <1>1, <2>1, ReturnOK, RowOK DEF TypeOK
  <2>3. k.comp \in Comps /\ k.found \in OptValue
    BY <1>1, <2>1, CallFacts DEF At
  <2>4. PICK f : f = [b.found EXCEPT ![k.comp] = k.found]
    OBVIOUS
  <2>5. PICK d : d = [b EXCEPT !.found = f, !.todo = b.todo \ {k.comp}]
    OBVIOUS
  <2>6. BatchGoto(p, AfterCached(d))
    BY <1>8, <2>4, <2>5 DEF BatchFetched
  <2>7. /\ f \in [Comps -> OptValue]
        /\ b.todo \ {k.comp} \subseteq Listed(b)
    BY <1>1, <1>2, <2>3, <2>4 DEF Ready
  <2>8. d \in Batches /\ Ready(d)
    BY <1>1, <1>2, <2>5, <2>7, Judged
  <2>9. call'[p] = NoCall /\ \A q \in Procs : q # p => call'[q] = call[q]
    BY <1>1, <2>1 DEF Return, Goto, TypeOK
  <2>10. \A e : Paired(call'[p], e)
    BY <2>9 DEF Paired, NoCall
  <2>11. QED BY <2>2, <2>6, <2>8, <2>9, <2>10, AfterCachedOK, BatchFrame
<1>9. CASE BatchNames(p)
  <2>1. TypeOK' /\ call' = call /\ b.pc = "names"
    BY <1>1, <1>9, RowOK DEF BatchNames, BatchAt, vars, row, TypeOK
  <2>2. PICK f : f = [c \in Comps |-> IF c \in b.todo \cap Persistent
                                      THEN components[c] ELSE b.found[c]]
    OBVIOUS
  <2>3. f \in [Comps -> OptValue] /\ b.todo \ Persistent \subseteq Listed(b)
    BY <1>1, <1>2, <2>2 DEF TypeOK, RowTypeOK, Ready
  <2>4. PICK d : d = [b EXCEPT !.found = f, !.todo = b.todo \ Persistent]
    OBVIOUS
  <2>5. BatchGoto(p, AfterCached(d))
    BY <1>9, <2>2, <2>4 DEF BatchNames
  <2>6. d \in Batches /\ Ready(d)
    BY <1>1, <1>2, <2>3, <2>4, Judged
  <2>7. QED BY <1>5, <2>1, <2>5, <2>6, AfterCachedOK, BatchFrame
<1>10. CASE BatchColumns(p)
  <2>1. PICK c \in b.todo \cap Projected, x \in OptKey :
          /\ Ok \/ Fault
          /\ BatchGoto(p, AfterCached([b EXCEPT !.found[c] = FromColumn(x),
                                                !.todo = @ \ {c}]))
    BY <1>10 DEF BatchColumns
  <2>2. /\ UNCHANGED <<row, redis, call, log, calls, epoch, committed>>
        /\ b.pc = "columns"
    BY <1>10 DEF BatchColumns, BatchAt
  <2>3. TypeOK'
    BY <1>1, <2>1, <2>2, FaultsOK, RowOK DEF TypeOK
  <2>4. FromColumn(x) \in OptValue /\ c \in Comps
    BY <1>1, FromColumnType
  <2>5. PICK f : f = [b.found EXCEPT ![c] = FromColumn(x)]
    OBVIOUS
  <2>6. PICK d : d = [b EXCEPT !.found = f, !.todo = b.todo \ {c}]
    OBVIOUS
  <2>7. BatchGoto(p, AfterCached(d))
    BY <2>1, <2>5, <2>6
  <2>8. f \in [Comps -> OptValue] /\ b.todo \ {c} \subseteq Listed(b)
    BY <1>1, <1>2, <2>4, <2>5 DEF Ready
  <2>9. d \in Batches /\ Ready(d)
    BY <1>1, <1>2, <2>6, <2>8, Judged
  <2>10. QED BY <1>5, <2>2, <2>3, <2>7, <2>9, AfterCachedOK, BatchFrame
<1>11. CASE BatchCheck(p)
  <2>1. /\ UNCHANGED <<row, redis, call, log, calls, epoch, committed>>
        /\ b.pc = "check" /\ (Ok \/ Fault)
    BY <1>11 DEF BatchCheck, BatchAt
  <2>2. TypeOK'
    BY <1>1, <2>1, FaultsOK, RowOK DEF TypeOK
  <2>3. CASE b.todo = {}
    <3>1. BatchGoto(p, AfterLookup(b))
      BY <1>11, <2>3 DEF BatchCheck
    <3>2. QED BY <1>1, <1>2, <1>5, <2>1, <2>2, <3>1, AfterLookupOK, BatchFrame
  <2>4. CASE b.todo # {}
    <3>1. PICK i \in 1..Len(b.list), x \in OptValue :
            /\ b.list[i][1] \in b.todo
            /\ BatchGoto(p, [b EXCEPT !.todo = @ \ {b.list[i][1]},
                     !.list = IF x # Null /\ b.found[b.list[i][1]] = b.list[i][2]
                              THEN Lists!RemoveAt(@, i) ELSE @])
      BY <1>11, <2>4 DEF BatchCheck
    <3>2. PICK l \in {b.list, Lists!RemoveAt(b.list, i)} :
            l = IF x # Null /\ b.found[b.list[i][1]] = b.list[i][2]
                THEN Lists!RemoveAt(b.list, i) ELSE b.list
      OBVIOUS
    <3>3. PICK d : d = [b EXCEPT !.todo = @ \ {b.list[i][1]}, !.list = l]
      OBVIOUS
    <3>4. BatchGoto(p, d)
      BY <3>1, <3>2, <3>3
    <3>5. d \in Batches /\ BatchOK(d)
      BY <1>1, <1>2, <2>1, <3>1, <3>3, CheckedOne
    <3>6. Unwritten(d)
      BY <1>1, <2>1, <3>3 DEF Unwritten, Batches
    <3>7. QED BY <1>5, <2>1, <2>2, <3>4, <3>5, <3>6, BatchFrame
  <2>5. QED BY <2>3, <2>4
<1>12. QED BY <1>6, <1>7, <1>8, <1>9, <1>10, <1>11 DEF BatchLookup

(* The writes.                                                             *)
BatchWrite(p) == \/ BatchFind(p) \/ BatchUpdate(p) \/ BatchInsert(p)
                 \/ BatchHSet(p) \/ BatchEmit(p)

(* The next record of a batch that writes.                                 *)
LEMMA WriteOK ==
    ASSUME NEW b \in Batches, Ready(b), Fits(b), b.pc \in WritePCs,
           NEW q \in WritePCs, NEW m \in [Comps -> OptValue]
    PROVE  /\ [b EXCEPT !.pc = q] \in Batches
           /\ BatchOK([b EXCEPT !.pc = q])
           /\ [b EXCEPT !.pc = q, !.snap = m] \in Batches
           /\ BatchOK([b EXCEPT !.pc = q, !.snap = m])
<1>1. PICK d : d = [b EXCEPT !.pc = q]
  OBVIOUS
<1>2. PICK e : e = [b EXCEPT !.pc = q, !.snap = m]
  OBVIOUS
<1>3. q \in BatchPCs
  BY DEF WritePCs, BatchPCs
<1>4. d \in Batches /\ e \in Batches
  BY Zenon, <1>1, <1>2, <1>3, BatchFields
<1>5. /\ d.pc = q /\ d.op = b.op /\ d.list = b.list /\ d.todo = b.todo
      /\ d.found = b.found
      /\ e.pc = q /\ e.op = b.op /\ e.list = b.list /\ e.todo = b.todo
      /\ e.found = b.found
  BY <1>1, <1>2 DEF Batches
<1>6. Listed(d) = Listed(b) /\ Listed(e) = Listed(b)
  BY <1>5, SameList
<1>7. Ready(d) /\ Ready(e)
  BY <1>5, <1>6 DEF Ready
<1>8. ~BatchRefused(d) /\ ~BatchRefused(e)
  BY <1>5, <1>6 DEF Fits, BatchRefused
<1>9. Fits(d) /\ Fits(e)
  BY <1>5, <1>8 DEF Fits, WritePCs
<1>10. q # "idle"
  BY DEF WritePCs
<1>11. QED BY <1>1, <1>2, <1>4, <1>5, <1>7, <1>9, <1>10 DEF BatchOK

(* What a batch writes, and the events it publishes.                       *)
LEMMA WrittenOK ==
    ASSUME NEW b \in Batches, NEW old \in [Comps -> OptKey]
    PROVE  /\ NextComponents(b) \in [Comps -> OptValue]
           /\ NextColumns(b, old) \in [Comps -> OptKey]
           /\ {<<c, ValueIn(b, c)>> : c \in Listed(b) \cap Persistent}
                \subseteq Comps \X Values
<1>1. \A c \in Listed(b) : /\ c \in Comps /\ ValueIn(b, c) \in OptValue
                           /\ ValueIn(b, c) \in Values
                           /\ ValueIn(b, c).key \in OptKey
  BY ListFacts DEF OptValue, OptKey, Values
<1>2. b.snap \in [Comps -> OptValue]
  BY DEF Batches
<1>3. QED BY <1>1, <1>2 DEF NextComponents, NextColumns

LEMMA BatchEventsOK ==
    ASSUME NEW b \in Batches
    PROVE  /\ BatchEvents(b) \in Seq(Events)
           /\ Len(BatchEvents(b)) = Len(b.list)
           /\ \A i \in 1..Len(b.list) :
                /\ BatchEvents(b)[i].type \in {"ADDED", "UPDATED"}
                /\ BatchEvents(b)[i].type = BatchEventType(b, b.list[i][1])
                /\ BatchEvents(b)[i].comp = b.list[i][1]
                /\ BatchEvents(b)[i].val = b.list[i][2]
<1>1. b.list \in Seq(Comps \X Values) /\ Len(b.list) \in Nat
  BY ListFacts
<1>2. ASSUME NEW i \in 1..Len(b.list)
      PROVE  [type |-> BatchEventType(b, b.list[i][1]),
              comp |-> b.list[i][1], val |-> b.list[i][2], epoch |-> 0]
             \in Events
  <2>1. /\ BatchEventType(b, b.list[i][1]) \in {"ADDED", "UPDATED", "REMOVED"}
        /\ b.list[i][1] \in Comps /\ b.list[i][2] \in OptValue
        /\ 0 \in Nat
    BY <1>1 DEF BatchEventType, OptValue
  <2>2. QED BY Zenon, <2>1 DEF Events
<1>3. BatchEvents(b) \in [1..Len(b.list) -> Events]
  BY <1>2 DEF BatchEvents
<1>4. BatchEvents(b) \in Seq(Events) /\ Len(BatchEvents(b)) = Len(b.list)
  <2> HIDE DEF Events
  <2>1. PICK n \in Nat : n = Len(b.list)
    BY <1>1
  <2>2. PICK s : s = BatchEvents(b)
    OBVIOUS
  <2>3. s \in [1..n -> Events]
    BY <1>3, <2>1, <2>2
  <2>4. s \in Seq(Events) /\ Len(s) = n
    BY <2>3
  <2>5. QED BY <2>1, <2>2, <2>4
<1>5. ASSUME NEW i \in 1..Len(b.list)
      PROVE  /\ BatchEvents(b)[i].type \in {"ADDED", "UPDATED"}
             /\ BatchEvents(b)[i].type = BatchEventType(b, b.list[i][1])
             /\ BatchEvents(b)[i].comp = b.list[i][1]
             /\ BatchEvents(b)[i].val = b.list[i][2]
  <2>1. BatchEvents(b)[i] = [type |-> BatchEventType(b, b.list[i][1]),
              comp |-> b.list[i][1], val |-> b.list[i][2], epoch |-> 0]
    BY DEF BatchEvents
  <2>2. QED BY <2>1 DEF BatchEventType
<1>6. QED BY <1>4, <1>5

LEMMA TypeBatchWrite ==
    ASSUME BatchInv, NEW p \in Procs, BatchWrite(p) PROVE BatchInv'
<1> DEFINE b == batch[p]
<1>1. /\ TypeOK /\ b \in Batches /\ BatchOK(b) /\ Paired(call[p], b)
  BY BatchFacts
<1>2. b.pc \in WritePCs
  BY DEF BatchWrite, BatchFind, BatchUpdate, BatchInsert, BatchHSet, BatchEmit,
         BatchAt, WritePCs
<1>3. Ready(b) /\ Fits(b)
  BY <1>1, <1>2 DEF BatchOK, WritePCs
<1>4. \A e : Paired(call'[p], e) /\ \A q \in Procs : call'[q] = call[q]
  <2>1. call' = call
    BY DEF BatchWrite, BatchFind, BatchUpdate, BatchInsert, BatchHSet,
           BatchEmit, vars
  <2>2. b # NoBatch /\ b.pc # "fetch"
    BY <1>2 DEF NoBatch, WritePCs
  <2>3. QED BY <1>1, <2>1, <2>2 DEF Paired, NoCall
<1>5. ASSUME NEW d \in Batches, BatchOK(d), BatchGoto(p, d), TypeOK'
      PROVE  BatchInv'
  BY <1>4, <1>5, BatchFrame
<1>6. /\ components \in [Comps -> OptValue] /\ columns \in [Comps -> OptKey]
  BY <1>1 DEF TypeOK, RowTypeOK
<1>7. /\ "insert" \in WritePCs /\ "update" \in WritePCs
      /\ "hset" \in WritePCs /\ "emit" \in WritePCs
  BY DEF WritePCs
<1>8. CASE BatchFind(p)
  <2>1. TypeOK'
    BY <1>1, <1>8, RowOK DEF BatchFind, vars, row, TypeOK
  <2>2. QED BY <1>1, <1>2, <1>3, <1>5, <1>6, <1>7, <1>8, <2>1, WriteOK
            DEF BatchFind
<1>9. CASE BatchUpdate(p)
  <2>1. /\ components' = NextComponents(b) /\ columns' = NextColumns(b, columns)
        /\ Commit(b)
        /\ UNCHANGED <<exists, redis, call, log, calls, faults, epoch>>
        /\ BatchGoto(p, [b EXCEPT !.pc = "hset", !.snap = EmptyMap])
    BY <1>9 DEF BatchUpdate
  <2>2. RowTypeOK' /\ committed' \subseteq Comps \X Values
    BY <1>1, <1>6, <2>1, WrittenOK DEF TypeOK, RowTypeOK, Commit
  <2>3. TypeOK'
    BY <1>1, <2>1, <2>2 DEF TypeOK
  <2>4. QED BY <1>1, <1>2, <1>3, <1>5, <1>7, <2>1, <2>3, EmptyMapType, WriteOK
<1>10. CASE BatchInsert(p)
  <2>1. UNCHANGED <<redis, call, log, calls, faults, epoch>>
    BY <1>10 DEF BatchInsert
  <2>2. CASE UNCHANGED <<row, committed>> /\ BatchGoto(p, NoBatch)
    <3>1. TypeOK'
      BY <1>1, <2>1, <2>2, RowOK DEF TypeOK
    <3>2. QED BY <1>5, <2>2, <3>1, NoBatchOK, NoBatchFits
  <2>3. CASE /\ InsertRow(NextComponents(b), NextColumns(b, DefaultColumns))
             /\ Commit(b)
             /\ BatchGoto(p, [b EXCEPT !.pc = "hset"])
    <3>1. RowTypeOK' /\ committed' \subseteq Comps \X Values
      BY <1>1, <2>3, WrittenOK, ColumnTypes
         DEF TypeOK, RowTypeOK, Commit, InsertRow
    <3>2. TypeOK'
      BY <1>1, <2>1, <3>1 DEF TypeOK
    <3>3. QED BY <1>1, <1>2, <1>3, <1>5, <1>7, <2>3, <3>2, EmptyMapType, WriteOK
  <2>4. QED BY <1>10, <2>2, <2>3 DEF BatchInsert
<1>11. CASE BatchHSet(p)
  <2>1. \A c \in Listed(b) : ValueIn(b, c) \in OptValue
    BY <1>1, ListFacts DEF OptValue
  <2>2. redis' \in [Comps -> OptValue]
    BY <1>1, <1>11, <2>1 DEF BatchHSet, TypeOK
  <2>3. TypeOK'
    BY <1>1, <1>11, <2>2, RowOK DEF BatchHSet, TypeOK
  <2>4. QED BY <1>1, <1>2, <1>3, <1>5, <1>7, <1>11, <2>3, EmptyMapType, WriteOK
            DEF BatchHSet
<1>12. CASE BatchEmit(p)
  <2>1. log' \in Seq(Events)
    <3> HIDE DEF Events
    <3>1. PICK s \in Seq(Events) : s = BatchEvents(b)
      BY <1>1, BatchEventsOK
    <3>2. log' = log \o s /\ log \in Seq(Events)
      BY <1>1, <1>12, <3>1 DEF BatchEmit, TypeOK
    <3>3. QED BY <3>2
  <2>2. TypeOK'
    BY <1>1, <1>12, <2>1, RowOK DEF BatchEmit, TypeOK
  <2>3. QED BY <1>5, <1>12, <2>2, NoBatchOK, NoBatchFits DEF BatchEmit
<1>13. QED BY <1>8, <1>9, <1>10, <1>11, <1>12 DEF BatchWrite

LEMMA TypeBatchEnd ==
    ASSUME BatchInv, NEW p \in Procs, BatchReturn(p) \/ BatchAbort(p)
    PROVE  BatchInv'
<1> DEFINE b == batch[p]
<1>1. TypeOK /\ Paired(call[p], b)
  BY BatchFacts
<1>2. CASE BatchReturn(p)
  <2>1. TypeOK' /\ call' = call /\ b.pc = "done"
    BY <1>1, <1>2, RowOK DEF BatchReturn, BatchAt, vars, row, TypeOK
  <2>2. call[p] = NoCall
    BY <1>1, <2>1 DEF Paired, NoBatch
  <2>3. Paired(call'[p], NoBatch)
    BY <2>1, <2>2 DEF Paired, NoCall
  <2>4. QED BY <1>2, <2>1, <2>3, NoBatchOK, NoBatchFits, BatchFrame
            DEF BatchReturn
<1>3. CASE BatchAbort(p)
  <2>1. TypeOK'
    BY <1>1, <1>3, ReturnOK, FaultsOK, RowOK DEF BatchAbort, TypeOK
  <2>2. call'[p] = NoCall /\ \A q \in Procs : q # p => call'[q] = call[q]
    BY <1>1, <1>3 DEF BatchAbort, Return, Goto, TypeOK
  <2>3. Paired(call'[p], NoBatch)
    BY <2>2 DEF Paired, NoCall
  <2>4. QED BY <1>3, <2>1, <2>2, <2>3, NoBatchOK, NoBatchFits, BatchFrame
            DEF BatchAbort
<1>4. QED BY <1>2, <1>3

LEMMA BatchInvInit == BatchInit => BatchInv
<1> SUFFICES ASSUME BatchInit PROVE BatchInv
  OBVIOUS
<1>1. TypeOK /\ batch \in [Procs -> Batches]
  BY TypeInit, NoBatchOK DEF BatchInit
<1>2. \A p \in Procs : batch[p] = NoBatch /\ call[p] = NoCall
  BY DEF BatchInit, Init
<1>3. Paired(NoCall, NoBatch)
  BY DEF Paired, NoCall
<1>4. QED BY <1>1, <1>2, <1>3, NoBatchFits DEF BatchInv, BatchTypeOK

LEMMA BatchInvNext == BatchInv /\ [BatchNext]_batchVars => BatchInv'
<1> SUFFICES ASSUME BatchInv, [BatchNext]_batchVars PROVE BatchInv'
  OBVIOUS
<1>1. CASE BatchNext
  <2>1. PICK p \in Procs : \/ SingleStep(p) \/ BatchStart(p)
                           \/ BatchStep(p) \/ BatchAbort(p)
    BY <1>1 DEF BatchNext
  <2>2. BatchStep(p) => BatchLookup(p) \/ BatchWrite(p) \/ BatchReturn(p)
    BY DEF BatchStep, BatchLookup, BatchWrite
  <2>3. QED BY <2>1, <2>2, TypeSingle, TypeBatchStart, TypeBatchLookup,
               TypeBatchWrite, TypeBatchEnd
<1>2. CASE UNCHANGED batchVars
  <2>1. TypeOK'
    BY <1>2, RowOK DEF batchVars, vars, row, BatchInv, BatchTypeOK, TypeOK
  <2>2. UNCHANGED <<call, batch>>
    BY <1>2 DEF batchVars, vars
  <2>3. batch' \in [Procs -> Batches]
    BY <2>2 DEF BatchInv, BatchTypeOK
  <2>4. \A p \in Procs : BatchOK(batch'[p]) /\ Paired(call'[p], batch'[p])
    BY <2>2 DEF BatchInv
  <2>5. QED BY <2>1, <2>3, <2>4
            DEF BatchInv, BatchTypeOK, Paired, BatchOK, Ready, Fits
<1>3. QED BY <1>1, <1>2

(* Every reachable state of single calls and batches together is well      *)
(* typed, and no step is undefined: a batch at a request has what the      *)
(* request needs, its list names no component twice, and a caller runs at  *)
(* most the getComponent that its batch awaits.                            *)
THEOREM BatchTypeCorrect == BatchSpec => []BatchTypeOK
<1>1. BatchInv => BatchTypeOK
  BY DEF BatchInv
<1>2. QED BY <1>1, BatchInvInit, BatchInvNext, PTL DEF BatchSpec

-----------------------------------------------------------------------------
(* Durable events, batches included.  A batch that is past its transaction *)
(* has committed what it is going to write to Redis and to publish.        *)

BatchStored(b) ==
    b.pc \in {"hset", "emit"} =>
        \A c \in Listed(b) \cap Persistent : <<c, ValueIn(b, c)>> \in committed

BatchDurableInv == /\ DurableInv
                   /\ \A p \in Procs : BatchStored(batch[p])

(* The same, of a set of committed values.                                 *)
StoredIn(b, set) ==
    b.pc \in {"hset", "emit"} =>
        \A c \in Listed(b) \cap Persistent : <<c, ValueIn(b, c)>> \in set

LEMMA CommittedGrows ==
    ASSUME [BatchNext]_batchVars PROVE committed \subseteq committed'
<1>1. ASSUME NEW p \in Procs, SingleStep(p) PROVE committed \subseteq committed'
  <2>1. CASE Start(p) \/ Abort(p)
    BY <2>1 DEF Start, Abort
  <2>2. CASE Step(p)
    BY <2>2 DEF Step, Read, GetRedis, GetJsonb, GetColumns, GetWarm, Probe,
         HasRedis, HasJsonb, HasWarm, HasColumns, UpsertCheck, AddClaim,
         UpdateSet, Save, ColumnsFind, ColumnsUpdate, ColumnsInsert, JsonbFind,
         JsonbUpdate, JsonbInsert, Remove, RemoveDel, RemoveColumns,
         RemoveFind, RemoveJsonb, Guard, GuardWrite, GuardSet, Emit
  <2>3. QED BY <1>1, <2>1, <2>2 DEF SingleStep
<1>2. ASSUME NEW p \in Procs, BatchStart(p) \/ BatchStep(p) \/ BatchAbort(p)
      PROVE  committed \subseteq committed'
  BY <1>2 DEF BatchStart, BatchStep, BatchAbort, BatchCache, BatchFetch,
       BatchFetched, BatchNames, BatchColumns, BatchCheck, BatchFind,
       BatchUpdate, BatchInsert, BatchHSet, BatchEmit, BatchReturn, Commit, vars
<1>3. CASE UNCHANGED batchVars
  BY <1>3 DEF batchVars, vars
<1>4. QED BY <1>1, <1>2, <1>3 DEF BatchNext

LEMMA DurableBatchFrame ==
    ASSUME BatchInv, BatchDurableInv, committed \subseteq committed',
           DurableInv', NEW p \in Procs, StoredIn(batch'[p], committed'),
           \A q \in Procs : q # p => batch'[q] = batch[q]
    PROVE  BatchDurableInv'
<1>1. ASSUME NEW q \in Procs, q # p PROVE StoredIn(batch'[q], committed')
  <2>1. BatchStored(batch[q]) /\ batch'[q] = batch[q]
    BY <1>1 DEF BatchDurableInv
  <2>2. QED BY <2>1 DEF BatchStored, StoredIn
<1>2. QED BY <1>1 DEF BatchDurableInv, BatchStored, StoredIn

(* Steps that publish nothing, and calls that only end, keep DurableInv.   *)
LEMMA DurableKept ==
    ASSUME DurableInv, TypeOK, UNCHANGED log, committed \subseteq committed',
           \A q \in Procs : call'[q] = call[q] \/ ~Announces(call'[q])
    PROVE  DurableInv'
<1>1. EventsAreDurable'
  BY DEF DurableInv, EventsAreDurable
<1>2. ASSUME NEW q \in Procs, Announces(call'[q])
      PROVE  call'[q].comp \in Persistent
             => <<call'[q].comp, call'[q].val>> \in committed'
  <2>1. call'[q] = call[q]
    BY <1>2
  <2>2. Stored(call[q])
    BY <1>2, <2>1 DEF DurableInv
  <2>3. QED BY <2>1, <2>2 DEF Stored
<1>3. QED BY <1>1, <1>2 DEF DurableInv, Announces, Stored

LEMMA DurableBatchEmit ==
    ASSUME BatchInv, BatchDurableInv, NEW p \in Procs, BatchEmit(p)
    PROVE  DurableInv'
<1> DEFINE b == batch[p]
<1>1. TypeOK /\ b \in Batches /\ BatchOK(b)
  BY BatchFacts
<1>2. b.pc = "emit" /\ UNCHANGED <<call, committed>>
  BY DEF BatchEmit, BatchAt
<1>3. Distinct(b.list)
  BY <1>1, <1>2 DEF BatchOK, Ready
<1>4. PICK s \in Seq(Events) : s = BatchEvents(b)
  BY <1>1, BatchEventsOK
<1>5. log' = log \o s /\ log \in Seq(Events)
  BY <1>1, <1>4 DEF BatchEmit, TypeOK
<1>6. ASSUME NEW i \in 1..Len(s), s[i].comp \in Persistent
      PROVE  <<s[i].comp, s[i].val>> \in committed
  <2>1. Len(s) = Len(b.list) /\ i \in 1..Len(b.list)
    BY <1>1, <1>4, BatchEventsOK
  <2>2. s[i].comp = b.list[i][1] /\ s[i].val = b.list[i][2]
    BY <1>1, <1>4, <2>1, BatchEventsOK
  <2>3. b.list[i][1] \in Listed(b) /\ ValueIn(b, b.list[i][1]) = b.list[i][2]
    BY <1>1, <1>3, <2>1, ListFacts, ListedValue
  <2>4. <<b.list[i][1], ValueIn(b, b.list[i][1])>> \in committed
    BY <1>2, <1>6, <2>2, <2>3 DEF BatchDurableInv, BatchStored
  <2>5. QED BY <2>2, <2>3, <2>4
<1>7. ASSUME NEW i \in 1..Len(log')
      PROVE  \/ i \in 1..Len(log) /\ log'[i] = log[i]
             \/ \E j \in 1..Len(s) : log'[i] = s[j]
  <2> HIDE DEF Events
  <2>1. CASE i <= Len(log)
    BY <1>5, <2>1
  <2>2. CASE ~(i <= Len(log))
    <3>1. i - Len(log) \in 1..Len(s) /\ log'[i] = s[i - Len(log)]
      BY <1>5, <2>2
    <3>2. QED BY <3>1
  <2>3. QED BY <2>1, <2>2
<1>8. EventsAreDurable'
  BY <1>2, <1>6, <1>7 DEF EventsAreDurable, BatchDurableInv, DurableInv
<1>9. QED BY <1>2, <1>8 DEF BatchDurableInv, DurableInv, Stored, Announces

(* A step of a batch is a step of one caller.                              *)
LEMMA BatchGoes ==
    ASSUME BatchInv, NEW p \in Procs,
           BatchStart(p) \/ BatchStep(p) \/ BatchAbort(p)
    PROVE  \A q \in Procs : q # p => batch'[q] = batch[q]
<1>1. ASSUME NEW d, BatchGoto(p, d)
      PROVE  \A q \in Procs : q # p => batch'[q] = batch[q]
  BY <1>1 DEF BatchGoto, BatchInv, BatchTypeOK
<1>2. CASE BatchStart(p)
  BY <1>1, <1>2 DEF BatchStart
<1>3. CASE BatchCache(p) \/ BatchFetched(p) \/ BatchNames(p) \/ BatchColumns(p)
  BY <1>1, <1>3 DEF BatchCache, BatchFetched, BatchNames, BatchColumns
<1>4. CASE BatchFetch(p)
  BY <1>4 DEF BatchFetch
<1>5. CASE BatchCheck(p)
  BY <1>1, <1>5 DEF BatchCheck
<1>6. CASE BatchFind(p) \/ BatchUpdate(p) \/ BatchInsert(p) \/ BatchHSet(p)
  BY <1>1, <1>6 DEF BatchFind, BatchUpdate, BatchInsert, BatchHSet
<1>7. CASE BatchEmit(p) \/ BatchReturn(p) \/ BatchAbort(p)
  BY <1>1, <1>7 DEF BatchEmit, BatchReturn, BatchAbort
<1>8. QED BY <1>2, <1>3, <1>4, <1>5, <1>6, <1>7 DEF BatchStep

LEMMA BatchDurableStep ==
    ASSUME BatchInv, BatchDurableInv, NEW p \in Procs,
           BatchStart(p) \/ BatchStep(p) \/ BatchAbort(p),
           committed \subseteq committed'
    PROVE  BatchDurableInv'
<1> DEFINE b == batch[p]
<1>1. TypeOK /\ b \in Batches /\ BatchOK(b) /\ DurableInv /\ BatchStored(b)
  BY BatchFacts DEF BatchDurableInv
<1>2. ~Announces(NoCall)
  BY DEF Announces, NoCall
<1>3. ASSUME StoredIn(batch'[p], committed'), DurableInv'
      PROVE  BatchDurableInv'
  BY <1>3, BatchGoes, DurableBatchFrame
<1>4. ASSUME NEW d, BatchGoto(p, d) PROVE batch'[p] = d
  BY <1>4 DEF BatchGoto, BatchInv, BatchTypeOK
<1>5. CASE BatchStart(p) \/ BatchLookup(p)
  <2>1. StoredIn(batch'[p], committed')
    BY <1>5, TypeBatchStart, TypeBatchLookup DEF Unwritten, StoredIn
  <2>2. /\ UNCHANGED log
        /\ \A q \in Procs : call'[q] = call[q] \/ ~Announces(call'[q])
    <3>1. CASE BatchFetch(p)
      <4>1. PICK c : call' = [call EXCEPT ![p] =
                [NoCall EXCEPT !.op = "fetch", !.comp = c, !.pc = "get.redis"]]
        BY <3>1 DEF BatchFetch
      <4>2. PICK n : n = [NoCall EXCEPT !.op = "fetch", !.comp = c,
                                        !.pc = "get.redis"]
        OBVIOUS
      <4>3. ~Announces(n)
        BY <4>2 DEF Announces, NoCall
      <4>4. \A q \in Procs : call'[q] = call[q] \/ call'[q] = n
        BY <1>1, <4>1, <4>2 DEF TypeOK
      <4>5. QED BY <3>1, <4>3, <4>4 DEF BatchFetch
    <3>2. CASE BatchFetched(p)
      BY <1>1, <1>2, <3>2 DEF BatchFetched, Return, Goto, TypeOK
    <3>3. CASE ~BatchFetch(p) /\ ~BatchFetched(p)
      BY <1>5, <3>3 DEF BatchStart, BatchLookup, BatchCache, BatchNames,
                        BatchColumns, BatchCheck, vars
    <3>4. QED BY <3>1, <3>2, <3>3
  <2>3. QED BY <1>1, <1>3, <2>1, <2>2, DurableKept
<1>6. CASE BatchFind(p)
  <2>1. batch'[p].pc \in {"update", "insert"}
    BY <1>1, <1>4, <1>6 DEF BatchFind, Batches
  <2>2. StoredIn(batch'[p], committed')
    BY <2>1 DEF StoredIn
  <2>3. UNCHANGED <<call, log>>
    BY <1>6 DEF BatchFind, vars
  <2>4. QED BY <1>1, <1>3, <2>2, <2>3, DurableKept
<1>7. CASE BatchUpdate(p) \/ BatchInsert(p)
  <2>1. UNCHANGED <<call, log>>
    BY <1>7 DEF BatchUpdate, BatchInsert
  <2>2. \/ batch'[p] = NoBatch
        \/ batch'[p].list = b.list /\ Commit(b)
    BY <1>1, <1>4, <1>7 DEF BatchUpdate, BatchInsert, Batches
  <2>3. StoredIn(batch'[p], committed')
    <3>1. CASE batch'[p] = NoBatch
      BY <3>1 DEF StoredIn, NoBatch
    <3>2. CASE batch'[p].list = b.list /\ Commit(b)
      <4>1. /\ Listed(batch'[p]) = Listed(b)
            /\ \A c : ValueIn(batch'[p], c) = ValueIn(b, c)
        BY <3>2, SameList
      <4>2. QED BY <3>2, <4>1 DEF StoredIn, Commit
    <3>3. QED BY <2>2, <3>1, <3>2
  <2>4. QED BY <1>1, <1>3, <2>1, <2>3, DurableKept
<1>8. CASE BatchHSet(p)
  <2>1. /\ b.pc = "hset" /\ UNCHANGED <<call, log, committed>>
        /\ batch'[p].list = b.list
    BY <1>1, <1>4, <1>8 DEF BatchHSet, BatchAt, Batches
  <2>2. /\ Listed(batch'[p]) = Listed(b)
        /\ \A c : ValueIn(batch'[p], c) = ValueIn(b, c)
    BY <2>1, SameList
  <2>3. StoredIn(batch'[p], committed')
    BY <1>1, <2>1, <2>2 DEF StoredIn, BatchStored
  <2>4. QED BY <1>1, <1>3, <2>1, <2>3, DurableKept
<1>9. CASE BatchEmit(p)
  <2>1. batch'[p] = NoBatch
    BY <1>4, <1>9 DEF BatchEmit
  <2>2. StoredIn(batch'[p], committed')
    BY <2>1 DEF StoredIn, NoBatch
  <2>3. QED BY <1>3, <1>9, <2>2, DurableBatchEmit
<1>10. CASE BatchReturn(p) \/ BatchAbort(p)
  <2>1. batch'[p] = NoBatch /\ UNCHANGED log
    BY <1>4, <1>10 DEF BatchReturn, BatchAbort, vars
  <2>2. StoredIn(batch'[p], committed')
    BY <2>1 DEF StoredIn, NoBatch
  <2>3. \A q \in Procs : call'[q] = call[q] \/ ~Announces(call'[q])
    BY <1>1, <1>2, <1>10 DEF BatchReturn, BatchAbort, Return, Goto, TypeOK, vars
  <2>4. QED BY <1>1, <1>3, <2>1, <2>2, <2>3, DurableKept
<1>11. QED BY <1>5, <1>6, <1>7, <1>8, <1>9, <1>10 DEF BatchStep, BatchLookup

(* Batches do not change what subscribers may rely on: whatever single     *)
(* calls and batches race and whichever of them fail, an event of a        *)
(* persistent component carries a value that its row has held.             *)
THEOREM DurableBatches == BatchSpec => []EventsAreDurable
<1>1. BatchInit => BatchDurableInv
  BY DEF BatchInit, Init, BatchDurableInv, DurableInv, Announces, NoCall,
         EventsAreDurable, BatchStored, NoBatch
<1>2. BatchInv /\ BatchDurableInv /\ [BatchNext]_batchVars => BatchDurableInv'
  <2> SUFFICES ASSUME BatchInv, BatchDurableInv, [BatchNext]_batchVars
               PROVE  BatchDurableInv'
    OBVIOUS
  <2>1. committed \subseteq committed'
    BY CommittedGrows
  <2>2. ASSUME NEW p \in Procs, SingleStep(p) PROVE BatchDurableInv'
    <3>1. DurableInv'
      BY <2>2, BatchFacts, DurableStep DEF SingleStep, BatchDurableInv
    <3>2. UNCHANGED batch
      BY <2>2 DEF SingleStep
    <3>3. QED BY <2>1, <3>1, <3>2 DEF BatchDurableInv, BatchStored
  <2>3. CASE UNCHANGED batchVars
    <3>1. UNCHANGED <<batch, call, log, committed>>
      BY <2>3 DEF batchVars, vars
    <3>2. QED BY <3>1 DEF BatchDurableInv, DurableInv, Stored, Announces,
                          EventsAreDurable, BatchStored
  <2>4. QED BY <2>1, <2>2, <2>3, BatchDurableStep DEF BatchNext
<1>3. BatchDurableInv => EventsAreDurable
  BY DEF BatchDurableInv, DurableInv
<1>4. QED BY <1>1, <1>2, <1>3, BatchInvInit, BatchInvNext, PTL DEF BatchSpec

-----------------------------------------------------------------------------
(* Workloads.                                                              *)

LEMMA WorkloadRefines ==
    ASSUME [WorkloadNext]_<<batchVars, workload>>
    PROVE  [BatchNext]_batchVars /\ UNCHANGED workload
BY DEF WorkloadNext, BatchNext, Within

LEMMA WorkloadBatchInv == WorkloadSpec => []BatchInv
<1>1. WorkloadInit => BatchInv
  BY BatchInvInit DEF WorkloadInit
<1>2. BatchInv /\ [WorkloadNext]_<<batchVars, workload>> => BatchInv'
  BY WorkloadRefines, BatchInvNext
<1>3. QED BY <1>1, <1>2, PTL DEF WorkloadSpec

-----------------------------------------------------------------------------
(* Claims.  Who won, and what was told of a component, means that its      *)
(* column has moved away from the key that is claimed.                     *)

ClaimCall(k) ==
    /\ k.op \in {"idle", "get", "guard"}
    /\ k.op = "guard" => k.expect = ClaimedKey /\ k.val.key # ClaimedKey

Wins(k) == k.op = "guard" /\ k.pc \in {"guard.set", "emit"}

ClaimCalls == \A p \in Procs : batch[p] = NoBatch /\ ClaimCall(call[p])

WinnersMoved == \A p \in Procs :
                    Wins(call[p]) => columns[call[p].comp] # ClaimedKey

ToldMoved == \A i \in 1..Len(log) : columns[log[i].comp] # ClaimedKey

OneWinnerEach == \A p, q \in Procs :
                     Wins(call[p]) /\ Wins(call[q]) /\ p # q
                     => call[p].comp # call[q].comp

WinnersUntold == \A p \in Procs, i \in 1..Len(log) :
                     Wins(call[p]) => log[i].comp # call[p].comp

ToldOnce == \A i, j \in 1..Len(log) : i # j => log[i].comp # log[j].comp

Claiming == /\ ClaimCalls /\ WinnersMoved /\ ToldMoved
            /\ OneWinnerEach /\ WinnersUntold /\ ToldOnce

(* Steps that win nothing and tell nothing.                                *)
LEMMA ClaimStays ==
    ASSUME TypeOK, Claiming, NEW p \in Procs, NEW n, Goto(p, n), ClaimCall(n),
           Wins(n) => Wins(call[p]) /\ n.comp = call[p].comp,
           UNCHANGED <<batch, log, columns>>
    PROVE  Claiming'
<1>1. \A q \in Procs : call'[q] = IF q = p THEN n ELSE call[q]
  BY DEF Goto, TypeOK
<1>2. ASSUME NEW q \in Procs, Wins(call'[q])
      PROVE  Wins(call[q]) /\ call'[q].comp = call[q].comp
  BY <1>1, <1>2
<1>3. ClaimCalls'
  BY <1>1 DEF Claiming, ClaimCalls, ClaimCall
<1>4. WinnersMoved' /\ ToldMoved'
  BY <1>2 DEF Claiming, WinnersMoved, ToldMoved, Wins
<1>5. OneWinnerEach'
  BY <1>2 DEF Claiming, OneWinnerEach, Wins
<1>6. WinnersUntold' /\ ToldOnce'
  BY <1>2 DEF Claiming, WinnersUntold, ToldOnce, Wins
<1>7. QED BY <1>3, <1>4, <1>5, <1>6 DEF Claiming

(* The guarded UPDATE matched: nobody had won the component before.        *)
LEMMA ClaimIsWon ==
    ASSUME TypeOK, Claiming, NEW p \in Procs, GuardWrite(p),
           GuardMatches(call[p].comp, call[p].expect), UNCHANGED batch
    PROVE  Claiming'
<1> DEFINE k == call[p]  c == k.comp  n == [k EXCEPT !.pc = "guard.set"]
<1>1. /\ k \in Calls /\ CallOK(k) /\ k.pc = "guard.write" /\ c \in Comps
  BY CallFacts DEF GuardWrite, At
<1>2. k.op = "guard" /\ k.expect = ClaimedKey /\ k.val.key # ClaimedKey
  BY <1>1 DEF CallOK, Claiming, ClaimCalls, ClaimCall
<1>3. /\ Goto(p, n) /\ UNCHANGED log
      /\ columns' = [columns EXCEPT ![c] = k.val.key]
      /\ columns[c] = ClaimedKey
  BY <1>2 DEF GuardWrite, GuardMatches, GuardedUpdate
<1>4. columns \in [Comps -> OptKey]
  BY DEF TypeOK, RowTypeOK
<1>5. /\ columns'[c] # ClaimedKey
      /\ \A d : columns[d] # ClaimedKey => columns'[d] # ClaimedKey
  <2>1. columns'[c] # ClaimedKey
    BY <1>1, <1>2, <1>3, <1>4
  <2>2. \A d : d # c => columns'[d] = columns[d]
    BY <1>3, <1>4
  <2>3. QED BY <2>1, <2>2
<1>6. n.op = "guard" /\ n.comp = c /\ n.expect = k.expect /\ n.val = k.val
  BY <1>1, <1>2 DEF Calls
<1> HIDE DEF n
<1>7. \A q \in Procs : call'[q] = IF q = p THEN n ELSE call[q]
  BY <1>3 DEF Goto, TypeOK
<1>8. \A q \in Procs : Wins(call[q]) => call[q].comp # c
  BY <1>3 DEF Claiming, WinnersMoved
<1>9. \A i \in 1..Len(log) : log[i].comp # c
  BY <1>3 DEF Claiming, ToldMoved
<1>10. ASSUME NEW q \in Procs, Wins(call'[q])
       PROVE  IF q = p THEN call'[q].comp = c
              ELSE Wins(call[q]) /\ call'[q].comp = call[q].comp
  BY <1>6, <1>7, <1>10
<1>11. ClaimCalls'
  <2>1. ClaimCall(n)
    BY <1>2, <1>6 DEF ClaimCall
  <2>2. QED BY <1>7, <2>1 DEF Claiming, ClaimCalls, ClaimCall
<1>12. WinnersMoved'
  <2>1. ASSUME NEW q \in Procs, Wins(call'[q])
        PROVE  columns'[call'[q].comp] # ClaimedKey
    BY <1>5, <1>10, <2>1 DEF Claiming, WinnersMoved
  <2>2. QED BY <2>1 DEF WinnersMoved, Wins
<1>13. ToldMoved' /\ ToldOnce'
  BY <1>3, <1>5 DEF Claiming, ToldMoved, ToldOnce
<1>14. OneWinnerEach'
  <2>1. ASSUME NEW q \in Procs, NEW r \in Procs, Wins(call'[q]),
               Wins(call'[r]), q # r
        PROVE  call'[q].comp # call'[r].comp
    BY <1>8, <1>10, <2>1 DEF Claiming, OneWinnerEach
  <2>2. QED BY <2>1 DEF OneWinnerEach, Wins
<1>15. WinnersUntold'
  <2>1. ASSUME NEW q \in Procs, NEW i \in 1..Len(log), Wins(call'[q])
        PROVE  log[i].comp # call'[q].comp
    BY <1>9, <1>10, <2>1 DEF Claiming, WinnersUntold
  <2>2. QED BY <1>3, <2>1 DEF WinnersUntold, Wins
<1>16. QED BY <1>11, <1>12, <1>13, <1>14, <1>15 DEF Claiming

(* The winner publishes.                                                   *)
LEMMA ClaimIsTold ==
    ASSUME TypeOK, Claiming, NEW p \in Procs, Emit(p), UNCHANGED batch
    PROVE  Claiming'
<1> DEFINE k == call[p]
<1>1. Wins(k)
  BY CallFacts DEF Emit, At, CallOK, Claiming, ClaimCalls, ClaimCall, Wins
<1>2. PICK ev : ev = [type |-> EventType(k.op), comp |-> k.comp,
                      val |-> IF k.op = "remove" THEN k.found ELSE k.val,
                      epoch |-> k.epoch]
  OBVIOUS
<1>3. ev.comp = k.comp
  BY <1>2
<1>4. log' = Append(log, ev) /\ log \in Seq(Events) /\ UNCHANGED columns
  BY <1>2 DEF Emit, TypeOK, row
<1>5. /\ Len(log') = Len(log) + 1
      /\ \A i \in 1..Len(log') : IF i = Len(log) + 1 THEN log'[i] = ev
                                 ELSE i \in 1..Len(log) /\ log'[i] = log[i]
  <2> HIDE DEF Events
  <2>1. QED BY <1>4
<1>6. \A q \in Procs : call'[q] = IF q = p THEN NoCall ELSE call[q]
  BY DEF Emit, Return, Goto, TypeOK
<1>7. ASSUME NEW q \in Procs, Wins(call'[q])
      PROVE  q # p /\ Wins(call[q]) /\ call'[q] = call[q]
  BY <1>6, <1>7 DEF Wins, NoCall
<1>8. ClaimCalls'
  BY <1>6 DEF Claiming, ClaimCalls, ClaimCall, NoCall
<1>9. WinnersMoved' /\ OneWinnerEach'
  BY <1>4, <1>7 DEF Claiming, WinnersMoved, OneWinnerEach, Wins
<1>10. ToldMoved'
  BY <1>1, <1>3, <1>4, <1>5 DEF Claiming, ToldMoved, WinnersMoved
<1>11. WinnersUntold'
  <2>1. ASSUME NEW q \in Procs, NEW i \in 1..Len(log'), Wins(call'[q])
        PROVE  log'[i].comp # call'[q].comp
    <3>1. q # p /\ Wins(call[q]) /\ call'[q] = call[q]
      BY <1>7, <2>1
    <3>2. call[q].comp # k.comp
      BY <1>1, <3>1 DEF Claiming, OneWinnerEach
    <3>3. QED BY <1>3, <1>5, <3>1, <3>2 DEF Claiming, WinnersUntold
  <2>2. QED BY <2>1 DEF WinnersUntold, Wins
<1>12. ToldOnce'
  <2>1. \A i \in 1..Len(log) : log[i].comp # k.comp
    BY <1>1 DEF Claiming, WinnersUntold
  <2>2. QED BY <1>3, <1>5, <2>1 DEF Claiming, ToldOnce
<1>13. QED BY <1>8, <1>9, <1>10, <1>11, <1>12 DEF Claiming

(* What a read of a claim's workload leads to.                             *)
LEMMA ClaimRead ==
    ASSUME TypeOK, Claiming, NEW p \in Procs, Read(p), UNCHANGED batch
    PROVE  Claiming'
<1> DEFINE k == call[p]
<1>1. /\ k \in Calls /\ CallOK(k) /\ ClaimCall(k)
      /\ k.pc \in {"get.redis", "get.jsonb", "get.columns", "get.warm"}
  BY CallFacts DEF Read, GetRedis, GetJsonb, GetColumns, GetWarm, At,
                   Claiming, ClaimCalls
<1>2. k.op \in {"get", "guard"}
  BY <1>1 DEF ClaimCall, CallOK
<1>3. ASSUME NEW q \in {"get.jsonb", "get.columns", "get.warm", "guard.write"},
             NEW f
      PROVE  LET n == [k EXCEPT !.pc = q, !.found = f]
                 m == [k EXCEPT !.pc = q]
             IN ClaimCall(n) /\ ~Wins(n) /\ ClaimCall(m) /\ ~Wins(m)
  <2>1. PICK n : n = [k EXCEPT !.pc = q, !.found = f]
    OBVIOUS
  <2>2. PICK m : m = [k EXCEPT !.pc = q]
    OBVIOUS
  <2>3. /\ n.op = k.op /\ n.pc = q /\ n.expect = k.expect /\ n.val = k.val
        /\ m.op = k.op /\ m.pc = q /\ m.expect = k.expect /\ m.val = k.val
    BY <1>1, <2>1, <2>2 DEF Calls
  <2>4. QED BY <1>1, <2>1, <2>2, <2>3 DEF ClaimCall, Wins
<1>4. ClaimCall(NoCall) /\ ~Wins(NoCall)
  BY DEF ClaimCall, Wins, NoCall
<1>5. \A x : ClaimCall(AfterGet(k, x)) /\ ~Wins(AfterGet(k, x))
  BY <1>2, <1>3, <1>4 DEF AfterGet
<1>6. UNCHANGED <<log, columns>>
  BY DEF Read, GetRedis, GetJsonb, GetColumns, GetWarm, row
<1>7. \E n : Goto(p, n) /\ ClaimCall(n) /\ ~Wins(n)
  <2>1. CASE GetRedis(p)
    BY <1>3, <1>5, <2>1 DEF GetRedis
  <2>2. CASE GetJsonb(p)
    BY <1>3, <1>5, <2>2 DEF GetJsonb
  <2>3. CASE GetColumns(p)
    BY <1>3, <1>5, <2>3 DEF GetColumns
  <2>4. CASE GetWarm(p)
    BY <1>5, <2>4 DEF GetWarm
  <2>5. QED BY <2>1, <2>2, <2>3, <2>4 DEF Read
<1>8. QED BY <1>6, <1>7, ClaimStays

(* A step of a claim's workload.                                           *)
LEMMA ClaimStepOK ==
    ASSUME TypeOK, Claiming, NEW p \in Procs, SingleStep(p), Within,
           workload = "claim"
    PROVE  Claiming'
<1> DEFINE k == call[p]
<1>1. k \in Calls /\ CallOK(k) /\ ClaimCall(k)
  BY CallFacts DEF Claiming, ClaimCalls
<1>2. UNCHANGED batch
  BY DEF SingleStep
<1>3. ClaimCall(NoCall) /\ ~Wins(NoCall)
  BY DEF ClaimCall, Wins, NoCall
<1>4. CASE Start(p)
  <2>1. PICK n : Goto(p, n) /\ n.pc \in {"has.redis", "get.redis"}
    BY <1>4 DEF Start
  <2>2. call'[p] = n /\ k = NoCall
    BY <1>4, <2>1 DEF Goto, TypeOK, Start
  <2>3. Follows(n)
    BY <2>2 DEF Within
  <2>4. n.op \in {"idle", "fetch", "get", "guard"}
    BY <2>3 DEF Follows, Within
  <2>5. \E o \in Ops : n.op = o
    BY <1>4, <2>2 DEF Start, Goto, TypeOK
  <2>6. n.op \in {"get", "guard"}
    BY <2>4, <2>5, CallerAssumption DEF CallerAssumption, AllOps
  <2>7. ClaimCall(n) /\ ~Wins(n)
    BY <2>1, <2>3, <2>6 DEF Follows, ClaimCall, Wins, Within
  <2>8. UNCHANGED <<log, columns>>
    BY <1>4 DEF Start, row
  <2>9. QED BY <1>2, <2>1, <2>7, <2>8, ClaimStays
<1>5. CASE Abort(p)
  BY <1>2, <1>3, <1>5, ClaimStays DEF Abort, Return, row
<1>6. CASE Read(p)
  BY <1>2, <1>6, ClaimRead
<1>7. CASE GuardWrite(p)
  <2>1. CASE GuardMatches(k.comp, k.expect)
    BY <1>2, <1>7, <2>1, ClaimIsWon
  <2>2. CASE ~GuardMatches(k.comp, k.expect)
    BY <1>2, <1>3, <1>7, <2>2, ClaimStays DEF GuardWrite, Return, row
  <2>3. QED BY <2>1, <2>2
<1>8. CASE GuardSet(p)
  <2>1. PICK n : n = [k EXCEPT !.pc = "emit"]
    OBVIOUS
  <2>2. /\ Goto(p, n) /\ UNCHANGED <<log, columns>> /\ k.pc = "guard.set"
    BY <1>8, <2>1 DEF GuardSet, At, row
  <2>3. n.op = k.op /\ n.comp = k.comp /\ n.val = k.val /\ n.expect = k.expect
    BY <1>1, <2>1 DEF Calls
  <2>4. k.op = "guard"
    BY <1>1, <2>2 DEF CallOK
  <2>5. ClaimCall(n) /\ Wins(k) /\ n.comp = k.comp
    BY <1>1, <2>2, <2>3, <2>4 DEF ClaimCall, Wins
  <2>6. QED BY <1>2, <2>2, <2>5, ClaimStays
<1>9. CASE Emit(p)
  BY <1>2, <1>9, ClaimIsTold
<1>10. CASE Probe(p) \/ UpsertCheck(p) \/ AddClaim(p) \/ UpdateSet(p)
            \/ Save(p) \/ Remove(p)
  <2>1. k.op \in {"has", "add", "upsert", "update", "remove"}
    BY <1>1, <1>10
       DEF Probe, HasRedis, HasJsonb, HasWarm, HasColumns, UpsertCheck,
           AddClaim, UpdateSet, Save, ColumnsFind, ColumnsUpdate,
           ColumnsInsert, JsonbFind, JsonbUpdate, JsonbInsert, Remove,
           RemoveDel, RemoveColumns, RemoveFind, RemoveJsonb, At, CallOK,
           SavePCs
  <2>2. QED BY <1>1, <2>1 DEF ClaimCall
<1>11. QED BY <1>4, <1>5, <1>6, <1>7, <1>8, <1>9, <1>10
           DEF SingleStep, Step, Guard

(* Callers that claim run no batch.                                        *)
LEMMA ClaimBatch ==
    ASSUME BatchInv, BatchInv', Claiming, NEW p \in Procs, Within,
           workload = "claim",
           BatchStart(p) \/ BatchStep(p) \/ BatchAbort(p)
    PROVE  Claiming'
<1>1. batch[p] = NoBatch
  BY DEF Claiming, ClaimCalls
<1>2. ~BatchStep(p) /\ ~BatchAbort(p)
  BY <1>1 DEF BatchStep, BatchCache, BatchFetch, BatchFetched, BatchNames,
              BatchColumns, BatchCheck, BatchFind, BatchUpdate, BatchInsert,
              BatchHSet, BatchEmit, BatchReturn, BatchAbort, BatchAt, NoBatch
<1>3. BatchStart(p)
  BY <1>2
<1>4. batch'[p].op = "idle"
  BY <1>1 DEF Within, BatchFollows
<1>5. BatchOK(batch'[p])
  BY DEF BatchInv
<1>6. batch'[p] = NoBatch
  BY <1>4, <1>5 DEF BatchOK, Ready, AllBatchOps
<1>7. \A q \in Procs : batch'[q] = NoBatch
  BY <1>6, BatchGoes DEF Claiming, ClaimCalls
<1>8. UNCHANGED <<call, log, columns>>
  BY <1>3 DEF BatchStart, row
<1>9. ClaimCalls'
  BY <1>7, <1>8 DEF Claiming, ClaimCalls
<1>10. /\ WinnersMoved' /\ ToldMoved' /\ OneWinnerEach' /\ WinnersUntold'
       /\ ToldOnce'
  BY <1>8 DEF Claiming, WinnersMoved, ToldMoved, OneWinnerEach, WinnersUntold,
              ToldOnce
<1>11. QED BY <1>9, <1>10 DEF Claiming

(* At most one winner, or one event of a former one.                       *)
LEMMA ClaimCounted ==
    ASSUME Claiming, NEW c \in Comps
    PROVE  Cardinality(Winners(c))
             + Cardinality({i \in 1..Len(log) : log[i].comp = c}) <= 1
<1> DEFINE W == Winners(c)  T == {i \in 1..Len(log) : log[i].comp = c}
<1>1. \A p \in W : Wins(call[p]) /\ call[p].comp = c /\ p \in Procs
  BY DEF Winners, Wins
<1>2. \A p, q \in W : p = q
  BY <1>1 DEF Claiming, OneWinnerEach
<1>3. \A i, j \in T : i = j
  BY DEF Claiming, ToldOnce
<1>4. W = {} \/ T = {}
  BY <1>1 DEF Claiming, WinnersUntold
<1> HIDE DEF W, T
<1>5. \A S : (\A x, y \in S : x = y) => S = {} \/ \E x : S = {x}
  <2>1. ASSUME NEW S, \A x, y \in S : x = y, S # {}
        PROVE  \E x : S = {x}
    <3>1. PICK x : x \in S
      BY <2>1
    <3>2. S = {x}
      BY <2>1, <3>1
    <3>3. QED BY <3>2
  <2>2. QED BY <2>1
<1>6. Cardinality({}) = 0 /\ \A x : Cardinality({x}) = 1
  BY FS_EmptySet, FS_Singleton
<1>7. /\ Cardinality(W) \in {0, 1} /\ Cardinality(T) \in {0, 1}
  BY <1>2, <1>3, <1>5, <1>6
<1>8. Cardinality(W) = 0 \/ Cardinality(T) = 0
  BY <1>4, <1>6
<1>9. Cardinality(W) + Cardinality(T) <= 1
  BY <1>7, <1>8
<1>10. QED BY <1>9 DEF W, T

(* Of the callers that claim a component at most one wins, and only the    *)
(* winner is announced: for any number of callers and events, although     *)
(* callers read, fail, and die between the guarded UPDATE and the event.   *)
THEOREM OneWinner == WorkloadSpec => []ClaimHasOneWinner
<1> DEFINE Inv == BatchInv /\ (workload = "claim" => Claiming)
<1>1. WorkloadInit => Inv
  <2> SUFFICES ASSUME WorkloadInit PROVE Inv
    OBVIOUS
  <2>1. BatchInv
    BY BatchInvInit DEF WorkloadInit
  <2>2. /\ \A p \in Procs : call[p] = NoCall /\ batch[p] = NoBatch
        /\ Len(log) = 0
    BY DEF WorkloadInit, BatchInit, Init
  <2>3. \A p \in Procs : ClaimCall(call[p]) /\ ~Wins(call[p])
    BY <2>2 DEF ClaimCall, Wins, NoCall
  <2>4. Claiming
    BY <2>2, <2>3 DEF Claiming, ClaimCalls, WinnersMoved, ToldMoved,
                      OneWinnerEach, WinnersUntold, ToldOnce
  <2>5. QED BY <2>1, <2>4
<1>2. Inv /\ [WorkloadNext]_<<batchVars, workload>> => Inv'
  <2> SUFFICES ASSUME Inv, [WorkloadNext]_<<batchVars, workload>>
               PROVE  Inv'
    OBVIOUS
  <2>1. BatchInv' /\ UNCHANGED workload
    BY WorkloadRefines, BatchInvNext
  <2>2. ASSUME workload = "claim" PROVE Claiming'
    <3>1. TypeOK /\ Claiming
      BY <2>2 DEF BatchInv, BatchTypeOK
    <3>2. CASE UNCHANGED batchVars
      BY <3>1, <3>2 DEF Claiming, ClaimCalls, WinnersMoved, ToldMoved,
            OneWinnerEach, WinnersUntold, ToldOnce, batchVars, vars, ClaimCall
    <3>3. ASSUME NEW p \in Procs, SingleStep(p), Within PROVE Claiming'
      BY <2>2, <3>1, <3>3, ClaimStepOK
    <3>4. ASSUME NEW p \in Procs, Within,
                 BatchStart(p) \/ BatchStep(p) \/ BatchAbort(p)
          PROVE  Claiming'
      BY <2>1, <2>2, <3>1, <3>4, ClaimBatch
    <3>5. QED BY <3>2, <3>3, <3>4 DEF WorkloadNext
  <2>3. QED BY <2>1, <2>2
<1>3. Inv => ClaimHasOneWinner
  BY ClaimCounted DEF ClaimHasOneWinner
<1>4. QED BY <1>1, <1>2, <1>3, PTL DEF WorkloadSpec

-----------------------------------------------------------------------------
(* Components that are updated together.  All of them carry one key in     *)
(* Redis, one in the database and one in what getComponents found; these   *)
(* need not be the same.                                                   *)

PairCall(k) == k.op \in {"idle", "get"} /\ k.pc \in {"idle", "get.redis"}

OneKey(b) == \E m : \A c \in Listed(b) : ValueIn(b, c).key = m

PairBatch(b) ==
    b # NoBatch =>
        /\ b.op \in {"reads", "updates"}
        /\ b.pc \in {"cache", "done"} \cup WritePCs
        /\ Listed(b) = Comps
        /\ b.op = "updates" => OneKey(b)
        /\ b.pc = "done" => \E m : \A c \in Comps : b.found[c].key = m

CachedWhole == \E m : \A c \in Comps : redis[c] # Null /\ redis[c].key = m

StoredWhole == \E m : /\ \A c \in Persistent : components[c].key = m
                      /\ \A c \in Projected : columns[c] = m

PairCalls == \A p \in Procs : PairCall(call[p])
PairBatches == \A p \in Procs : PairBatch(batch[p])

Pairing == CachedWhole /\ StoredWhole /\ PairCalls /\ PairBatches

LEMMA PairNothing == PairCall(NoCall) /\ PairBatch(NoBatch)
BY DEF PairCall, NoCall, PairBatch

LEMMA PairSingle ==
    ASSUME TypeOK, Pairing, NEW p \in Procs, SingleStep(p), Within,
           workload = "pairs"
    PROVE  Pairing'
<1> DEFINE k == call[p]
<1>1. k \in Calls /\ CallOK(k) /\ PairCall(k)
  BY CallFacts DEF Pairing, PairCalls
<1>2. ASSUME NEW n, Goto(p, n), PairCall(n), UNCHANGED <<row, redis>>
      PROVE  Pairing'
  <2>1. \A q \in Procs : call'[q] = IF q = p THEN n ELSE call[q]
    BY <1>2 DEF Goto, TypeOK
  <2>2. PairCalls'
    BY <1>2, <2>1 DEF Pairing, PairCalls, PairCall
  <2>3. CachedWhole' /\ StoredWhole' /\ PairBatches'
    BY <1>2 DEF Pairing, CachedWhole, StoredWhole, PairBatches, row, SingleStep
  <2>4. QED BY <2>2, <2>3 DEF Pairing
<1>3. CASE Start(p)
  <2>1. PICK n : Goto(p, n) /\ n.pc \in {"has.redis", "get.redis"}
                 /\ n.op \in Ops
                 /\ (n.pc = "has.redis" => n.op \in {"add", "has"})
    BY <1>3 DEF Start
  <2>2. call'[p] = n /\ k = NoCall
    BY <1>3, <2>1 DEF Goto, TypeOK, Start
  <2>3. n.op \in {"idle", "fetch", "get"}
    BY <2>2 DEF Within, Follows
  <2>4. PairCall(n)
    BY <2>1, <2>3, CallerAssumption DEF CallerAssumption, AllOps, PairCall
  <2>5. QED BY <1>2, <1>3, <2>1, <2>4 DEF Start
<1>4. CASE Abort(p)
  BY <1>2, <1>4, PairNothing DEF Abort, Return
<1>5. CASE GetRedis(p)
  <2>1. k.op = "get" /\ k.comp \in Comps /\ redis[k.comp] # Null
    BY <1>1, <1>5 DEF GetRedis, At, CallOK, PairCall, Pairing, CachedWhole
  <2>2. Goto(p, NoCall)
    BY <1>5, <2>1 DEF GetRedis, AfterGet
  <2>3. QED BY <1>2, <1>5, <2>2, PairNothing DEF GetRedis
<1>6. CASE Step(p) /\ ~GetRedis(p)
  <2>1. k.pc \notin {"idle", "get.redis"}
    BY <1>1, <1>6
       DEF Step, Read, GetJsonb, GetColumns, GetWarm, Probe, HasRedis,
           HasJsonb, HasWarm, HasColumns, UpsertCheck, AddClaim, UpdateSet,
           Save, ColumnsFind, ColumnsUpdate, ColumnsInsert, JsonbFind,
           JsonbUpdate, JsonbInsert, Remove, RemoveDel, RemoveColumns,
           RemoveFind, RemoveJsonb, Guard, GuardWrite, GuardSet, Emit, At
  <2>2. QED BY <1>1, <2>1 DEF PairCall
<1>7. QED BY <1>3, <1>4, <1>5, <1>6 DEF SingleStep

(* hGetAll finds all components, and all of one key.                       *)
LEMMA PairCache ==
    ASSUME BatchInv, Pairing, NEW p \in Procs, BatchCache(p)
    PROVE  PairBatch(batch'[p]) /\ UNCHANGED vars
<1> DEFINE b == batch[p]
<1>1. /\ TypeOK /\ b \in Batches /\ PairBatch(b) /\ b.pc = "cache"
  BY BatchFacts DEF BatchCache, BatchAt, Pairing, PairBatches
<1>2. PICK m : \A c \in Comps : redis[c] # Null /\ redis[c].key = m
  BY DEF Pairing, CachedWhole
<1>3. /\ b.op \in {"reads", "updates"} /\ Listed(b) = Comps
      /\ b.op = "updates" => OneKey(b)
  BY <1>1 DEF PairBatch, NoBatch
<1>4. PICK f : f = [c \in Comps |-> IF c \in Listed(b) THEN redis[c] ELSE Null]
  OBVIOUS
<1>5. PICK t : t = {c \in Listed(b) : redis[c] = Null}
  OBVIOUS
<1>6. t = {} /\ \A c \in Comps : f[c].key = m
  BY <1>2, <1>3, <1>4, <1>5
<1>7. PICK d : d = [b EXCEPT !.found = f, !.todo = t]
  OBVIOUS
<1>8. d.op = b.op /\ d.list = b.list /\ d.found = f /\ d.todo = {}
      /\ d \in Batches
  <2>1. f \in [Comps -> OptValue] /\ t \in SUBSET Comps
    BY <1>1, <1>4, <1>6 DEF TypeOK, OptValue
  <2>2. d \in Batches
    BY Zenon, <1>1, <1>7, <2>1, BatchFields, "cache" \in BatchPCs DEF BatchPCs
  <2>3. QED BY <1>1, <1>6, <1>7, <2>2 DEF Batches
<1>9. BatchGoto(p, AfterCached(d)) /\ UNCHANGED vars
  BY <1>4, <1>5, <1>7 DEF BatchCache
<1>10. batch'[p] = AfterLookup(d)
  BY <1>3, <1>8, <1>9 DEF BatchGoto, AfterCached, BatchInv, BatchTypeOK
<1>11. ASSUME NEW q \in {"done", "find", "hset"}
       PROVE  PairBatch([d EXCEPT !.pc = q])
  <2>1. PICK e : e = [d EXCEPT !.pc = q]
    OBVIOUS
  <2>2. e.op = d.op /\ e.list = d.list /\ e.found = d.found /\ e.pc = q
    BY <1>8, <2>1 DEF Batches
  <2>3. Listed(e) = Comps /\ (e.op = "updates" => OneKey(e))
    BY <1>3, <1>8, <2>2, SameList DEF OneKey
  <2>4. PairBatch(e)
    BY <1>3, <1>6, <1>8, <2>2, <2>3 DEF PairBatch, WritePCs
  <2>5. QED BY <2>1, <2>4
<1>12. QED BY <1>9, <1>10, <1>11, AfterLookupCases, PairNothing

(* The transaction and the hSet write the components of a batch together.  *)
LEMMA PairWrite ==
    ASSUME BatchInv, Pairing, NEW p \in Procs,
           BatchFind(p) \/ BatchUpdate(p) \/ BatchInsert(p) \/ BatchHSet(p)
    PROVE  /\ PairBatch(batch'[p]) /\ CachedWhole' /\ StoredWhole'
           /\ UNCHANGED call
<1> DEFINE b == batch[p]
<1>1. /\ TypeOK /\ b \in Batches /\ PairBatch(b) /\ BatchOK(b)
  BY BatchFacts DEF Pairing, PairBatches
<1>2. b.pc \in {"find", "update", "insert", "hset"} /\ UNCHANGED call
  BY DEF BatchFind, BatchUpdate, BatchInsert, BatchHSet, BatchAt, vars
<1>3. b.op = "updates" /\ Listed(b) = Comps /\ OneKey(b)
  BY <1>1, <1>2 DEF PairBatch, NoBatch, BatchOK, Fits, WritePCs
<1>4. PICK m : \A c \in Comps : ValueIn(b, c).key = m
  BY <1>3 DEF OneKey
<1>5. \A c \in Comps : ValueIn(b, c) \in Values
  BY <1>1, <1>3, ListFacts
<1>6. ASSUME NEW d, BatchGoto(p, d) PROVE batch'[p] = d
  BY <1>6 DEF BatchGoto, BatchInv, BatchTypeOK
<1>7. ASSUME NEW e, e.op = b.op, e.list = b.list,
             e.pc \in {"update", "insert", "hset", "emit"}
      PROVE  PairBatch(e)
  <2>1. Listed(e) = Comps /\ OneKey(e)
    BY <1>3, <1>7, SameList DEF OneKey
  <2>2. QED BY <1>3, <1>7, <2>1 DEF PairBatch, WritePCs
<1>8. Persistent \subseteq Comps /\ Projected \subseteq Comps
  BY StorageAssumption DEF StorageAssumption
<1>9. CachedWhole /\ StoredWhole
  BY DEF Pairing
<1>10. CASE BatchFind(p)
  <2>1. batch'[p].op = b.op /\ batch'[p].list = b.list
        /\ batch'[p].pc \in {"update", "insert"}
    BY <1>1, <1>6, <1>10 DEF BatchFind, Batches
  <2>2. CachedWhole' /\ StoredWhole'
    BY <1>9, <1>10 DEF BatchFind, vars, CachedWhole, StoredWhole
  <2>3. QED BY <1>2, <1>7, <2>1, <2>2
<1>11. CASE BatchUpdate(p)
  <2>1. PICK d : d = [b EXCEPT !.pc = "hset", !.snap = EmptyMap]
    OBVIOUS
  <2>2. batch'[p] = d
    BY <1>6, <1>11, <2>1 DEF BatchUpdate
  <2>3. d.op = b.op /\ d.list = b.list /\ d.pc = "hset"
    BY <1>1, <2>1 DEF Batches
  <2>4. /\ \A c \in Persistent : components'[c].key = m
        /\ \A c \in Projected : columns'[c] = m
    BY <1>3, <1>4, <1>8, <1>11 DEF BatchUpdate, NextComponents, NextColumns
  <2>5. StoredWhole' /\ CachedWhole'
    BY <1>9, <1>11, <2>4 DEF StoredWhole, CachedWhole, BatchUpdate
  <2>6. QED BY <1>2, <1>7, <2>2, <2>3, <2>5
<1>12. CASE BatchInsert(p)
  <2>1. CachedWhole'
    BY <1>9, <1>12 DEF BatchInsert, CachedWhole
  <2>2. CASE UNCHANGED row /\ BatchGoto(p, NoBatch)
    BY <1>2, <1>6, <1>9, <2>1, <2>2, PairNothing DEF StoredWhole, row
  <2>3. CASE /\ InsertRow(NextComponents(b), NextColumns(b, DefaultColumns))
             /\ BatchGoto(p, [b EXCEPT !.pc = "hset"])
    <3>1. PICK d : d = [b EXCEPT !.pc = "hset"]
      OBVIOUS
    <3>2. d.op = b.op /\ d.list = b.list /\ d.pc = "hset" /\ batch'[p] = d
      BY <1>1, <1>6, <2>3, <3>1 DEF Batches
    <3>3. /\ \A c \in Persistent : components'[c].key = m
          /\ \A c \in Projected : columns'[c] = m
      BY <1>3, <1>4, <1>8, <2>3 DEF InsertRow, NextComponents, NextColumns
    <3>4. StoredWhole'
      BY <3>3 DEF StoredWhole
    <3>5. QED BY <1>2, <1>7, <2>1, <3>2, <3>4
  <2>4. QED BY <1>12, <2>2, <2>3 DEF BatchInsert
<1>13. CASE BatchHSet(p)
  <2>1. PICK d : d = [b EXCEPT !.pc = "emit"]
    OBVIOUS
  <2>2. d.op = b.op /\ d.list = b.list /\ d.pc = "emit" /\ batch'[p] = d
    BY <1>1, <1>6, <1>13, <2>1 DEF Batches, BatchHSet
  <2>3. \A c \in Comps : redis'[c] # Null /\ redis'[c].key = m
    BY <1>3, <1>4, <1>5, <1>13, NullIsNoValue DEF BatchHSet
  <2>4. CachedWhole' /\ StoredWhole'
    BY <1>9, <1>13, <2>3 DEF CachedWhole, StoredWhole, BatchHSet, row
  <2>5. QED BY <1>2, <1>7, <2>2, <2>4
<1>14. QED BY <1>10, <1>11, <1>12, <1>13

LEMMA PairBatchStep ==
    ASSUME BatchInv, BatchInv', Pairing, NEW p \in Procs, Within,
           workload = "pairs",
           BatchStart(p) \/ BatchStep(p) \/ BatchAbort(p)
    PROVE  Pairing'
<1> DEFINE b == batch[p]
<1>1. /\ TypeOK /\ b \in Batches /\ PairBatch(b) /\ BatchOK(b)
      /\ CachedWhole /\ StoredWhole /\ PairCalls
  BY BatchFacts DEF Pairing, PairBatches
<1>2. ASSUME PairBatch(batch'[p]), CachedWhole', StoredWhole', PairCalls'
      PROVE  Pairing'
  BY <1>2, BatchGoes DEF Pairing, PairBatches
<1>3. ASSUME UNCHANGED <<row, redis>>
      PROVE  CachedWhole' /\ StoredWhole'
  BY <1>1, <1>3 DEF CachedWhole, StoredWhole, row
<1>4. ASSUME UNCHANGED call \/ Return(p) PROVE PairCalls'
  BY <1>1, <1>4, PairNothing DEF PairCalls, PairCall, Return, Goto, TypeOK
<1>5. ASSUME NEW d, BatchGoto(p, d) PROVE batch'[p] = d
  BY <1>5 DEF BatchGoto, BatchInv, BatchTypeOK
<1>6. CASE BatchStart(p)
  <2>1. BatchFollows(batch'[p]) /\ BatchOK(batch'[p])
        /\ batch'[p] \in Batches
    BY <1>6 DEF Within, BatchStart, BatchInv, BatchTypeOK
  <2>2. PICK e : batch'[p] = e
    OBVIOUS
  <2>3. CASE e.op = "idle"
    <3>1. e = NoBatch
      BY <2>1, <2>2, <2>3 DEF BatchOK, Ready, AllBatchOps
    <3>2. QED BY <1>2, <1>3, <1>4, <1>6, <2>2, <3>1, PairNothing
              DEF BatchStart
  <2>4. CASE e.op # "idle"
    <3>1. /\ e.op \in {"reads", "updates"} /\ Listed(e) = Comps
          /\ e.op = "updates" => \A i, j \in 1..Len(e.list) :
                                    e.list[i][2].key = e.list[j][2].key
      BY <2>1, <2>2, <2>4 DEF BatchFollows
    <3>2. e.pc = "cache"
      <4>1. PICK g \in Batches : \/ e = [g EXCEPT !.pc = "cache"]
                                 \/ g.op = "adds" /\ e = AfterLookup(g)
        BY <1>5, <1>6, <2>2, BatchStarts
      <4>2. e.op # "adds" /\ e # NoBatch
        BY <2>4, <3>1 DEF NoBatch
      <4>3. CASE g.op = "adds" /\ e = AfterLookup(g)
        <5>1. PICK q : e = [g EXCEPT !.pc = q]
          BY <4>2, <4>3, AfterLookupCases
        <5>2. e.op = g.op
          BY <5>1 DEF Batches
        <5>3. QED BY <4>2, <4>3, <5>2
      <4>4. QED BY <4>1, <4>3 DEF Batches
    <3>3. ASSUME e.op = "updates" PROVE OneKey(e)
      <4>1. e \in Batches
        BY <2>1, <2>2
      <4>2. \A c \in Listed(e) : \E i \in 1..Len(e.list) :
                e.list[i][1] = c /\ e.list[i][2] = ValueIn(e, c)
        BY <4>1, ListFacts
      <4>3. \A c, d \in Listed(e) : ValueIn(e, c).key = ValueIn(e, d).key
        BY <3>1, <3>3, <4>2
      <4>4. CASE Listed(e) = {}
        BY <4>4 DEF OneKey
      <4>5. ASSUME NEW d \in Listed(e) PROVE OneKey(e)
        BY <4>3 DEF OneKey
      <4>6. QED BY <4>4, <4>5
    <3>4. PairBatch(e)
      BY <3>1, <3>2, <3>3 DEF PairBatch
    <3>5. QED BY <1>2, <1>3, <1>4, <1>6, <2>2, <3>4 DEF BatchStart
  <2>5. QED BY <2>3, <2>4
<1>7. CASE BatchCache(p)
  BY <1>2, <1>3, <1>4, <1>7, PairCache DEF vars, row
<1>8. CASE BatchFind(p) \/ BatchUpdate(p) \/ BatchInsert(p) \/ BatchHSet(p)
  BY <1>2, <1>4, <1>8, PairWrite
<1>9. CASE BatchEmit(p) \/ BatchReturn(p) \/ BatchAbort(p)
  <2>1. BatchGoto(p, NoBatch) /\ UNCHANGED <<row, redis>>
        /\ (UNCHANGED call \/ Return(p))
    BY <1>9 DEF BatchEmit, BatchReturn, BatchAbort, vars, row
  <2>2. PairBatch(batch'[p])
    BY <1>5, <2>1, PairNothing
  <2>3. QED BY <1>2, <1>3, <1>4, <2>1, <2>2
<1>10. CASE BatchFetch(p) \/ BatchFetched(p) \/ BatchNames(p)
            \/ BatchColumns(p) \/ BatchCheck(p)
  <2>1. b.pc \in {"fetch", "names", "columns", "check"}
    BY <1>10 DEF BatchFetch, BatchFetched, BatchNames, BatchColumns,
                 BatchCheck, BatchAt
  <2>2. QED BY <1>1, <2>1 DEF PairBatch, WritePCs, NoBatch
<1>11. QED BY <1>6, <1>7, <1>8, <1>9, <1>10 DEF BatchStep

(* Components updated together stay together, for any number of updaters   *)
(* and readers of sets of any size.                                        *)
THEOREM WholeBatches == WorkloadSpec => []BatchesStayWhole
<1> DEFINE Inv == BatchInv /\ (workload = "pairs" => Pairing)
<1>1. WorkloadInit => Inv
  <2> SUFFICES ASSUME WorkloadInit PROVE Inv
    OBVIOUS
  <2>1. BatchInv
    BY BatchInvInit DEF WorkloadInit
  <2>2. PairCalls /\ PairBatches
    BY PairNothing DEF WorkloadInit, BatchInit, Init, PairCalls, PairBatches
  <2>3. ASSUME workload = "pairs" PROVE CachedWhole /\ StoredWhole
    <3>1. PICK m \in Keys : \A c \in Comps : redis[c] # Null /\ redis[c].key = m
      BY <2>3 DEF WorkloadInit, InitFor
    <3>2. \A c \in Comps : StoresAgree(c)
      BY DEF WorkloadInit, BatchInit, Init
    <3>3. \A c \in Persistent : c \in Comps /\ components[c] = redis[c]
      BY <3>1, <3>2, StorageAssumption DEF StorageAssumption, StoresAgree
    <3>4. ASSUME NEW c \in Projected PROVE columns[c] = m
      <4>1. c \in Comps
        BY StorageAssumption DEF StorageAssumption
      <4>2. CASE c \in Persistent
        BY <3>1, <3>2, <3>3, <4>1, <4>2 DEF StoresAgree
      <4>3. CASE c \notin Persistent
        BY <3>1, <3>2, <4>1, <4>3 DEF StoresAgree
      <4>4. QED BY <4>2, <4>3
    <3>5. QED BY <3>1, <3>3, <3>4 DEF CachedWhole, StoredWhole
  <2>4. QED BY <2>1, <2>2, <2>3 DEF Pairing
<1>2. Inv /\ [WorkloadNext]_<<batchVars, workload>> => Inv'
  <2> SUFFICES ASSUME Inv, [WorkloadNext]_<<batchVars, workload>>
               PROVE  Inv'
    OBVIOUS
  <2>1. BatchInv' /\ UNCHANGED workload
    BY WorkloadRefines, BatchInvNext
  <2>2. ASSUME workload = "pairs" PROVE Pairing'
    <3>1. TypeOK /\ Pairing
      BY <2>2 DEF BatchInv, BatchTypeOK
    <3>2. CASE UNCHANGED batchVars
      BY <3>1, <3>2 DEF Pairing, PairCalls, PairBatches, CachedWhole,
            StoredWhole, batchVars, vars
    <3>3. ASSUME NEW p \in Procs, SingleStep(p), Within PROVE Pairing'
      BY <2>2, <3>1, <3>3, PairSingle
    <3>4. ASSUME NEW p \in Procs, Within,
                 BatchStart(p) \/ BatchStep(p) \/ BatchAbort(p)
          PROVE  Pairing'
      BY <2>1, <2>2, <3>1, <3>4, PairBatchStep
    <3>5. QED BY <3>2, <3>3, <3>4 DEF WorkloadNext
  <2>3. QED BY <2>1, <2>2
<1>3. Inv => BatchesStayWhole
  <2> SUFFICES ASSUME Pairing, BatchInv, workload = "pairs"
               PROVE  BatchesStayWhole
    BY DEF BatchesStayWhole
  <2>1. Same({redis[c].key : c \in Comps})
    BY DEF Pairing, CachedWhole, Same
  <2>2. Same({components[c].key : c \in Persistent}
               \cup {columns[c] : c \in Projected})
    BY DEF Pairing, StoredWhole, Same
  <2>3. ASSUME NEW p \in Procs, BatchAt(p, "done")
        PROVE  Same({batch[p].found[c].key : c \in Comps})
    <3>1. batch[p].pc = "done" /\ batch[p] # NoBatch /\ PairBatch(batch[p])
      BY <2>3 DEF Pairing, PairBatches, BatchAt, NoBatch
    <3>2. PICK m : \A c \in Comps : batch[p].found[c].key = m
      BY <3>1 DEF PairBatch
    <3>3. QED BY <3>2 DEF Same
  <2>4. QED BY <2>1, <2>2, <2>3 DEF BatchesStayWhole
<1>4. QED BY <1>1, <1>2, <1>3, PTL DEF WorkloadSpec

-----------------------------------------------------------------------------
(* Upserts of what is stored.  What a component is worth, the value that   *)
(* getComponent returns for it, stays; every read, from Redis, from the    *)
(* JSONB map or from the columns, finds it.                                *)

(* What the database alone says.                                           *)
Below(c) == IF components[c] # Null THEN components[c]
            ELSE FromColumn(columns[c])

UpsertStore ==
    /\ log = <<>> /\ faults = 0
    /\ \A c \in Comps : /\ Effective(c) # Null
                        /\ c \in Persistent => components[c] # Null
                        /\ c \notin Persistent => components[c] = Null
                        /\ c \notin Projected => columns[c] = Null

UpsertCall(k) ==
    /\ k.op \in {"idle", "get", "upsert", "fetch"}
    /\ k.pc \in {"idle", "get.redis", "get.jsonb", "get.columns", "get.warm",
                 "upsert.check", "fetched"}
    /\ k.op = "upsert" => k.val = Effective(k.comp)
    /\ k.pc = "get.jsonb" =>
         k.comp \in Persistent /\ Below(k.comp) = Effective(k.comp)
    /\ k.pc = "get.columns" =>
         /\ k.comp \in Projected \ Persistent
         /\ Below(k.comp) = Effective(k.comp)
    /\ k.pc \in {"get.warm", "upsert.check", "fetched"} =>
         k.found = Effective(k.comp)
    /\ k.pc = "upsert.check" => k.comp \in Persistent

UpsertBatch(b) ==
    b # NoBatch =>
        /\ b.op = "upserts" /\ b.pc \in {"cache", "fetch", "check"}
        /\ \A i \in 1..Len(b.list) : b.list[i][2] = Effective(b.list[i][1])
        /\ b.pc = "fetch" =>
             \A c \in Listed(b) \ b.todo : b.found[c] = Effective(c)
        /\ b.pc = "check" =>
             /\ b.todo = Listed(b)
             /\ \A c \in Listed(b) : b.found[c] = Effective(c)

Upserting == /\ UpsertStore
             /\ \A p \in Procs : UpsertCall(call[p]) /\ UpsertBatch(batch[p])

LEMMA UpsertNothing == UpsertCall(NoCall) /\ UpsertBatch(NoBatch)
BY DEF UpsertCall, NoCall, UpsertBatch

(* Reading leaves what a component is worth.                               *)
LEMMA WorthStays ==
    ASSUME TypeOK, UpsertStore, UNCHANGED row,
           \/ UNCHANGED redis
           \/ \E c \in Comps : redis' = [redis EXCEPT ![c] = Effective(c)]
    PROVE  \A c \in Comps : /\ Effective(c)' = Effective(c)
                            /\ Below(c)' = Below(c)
<1>1. \A c \in Comps : Below(c)' = Below(c)
  BY DEF Below, row
<1>2. CASE UNCHANGED redis
  BY <1>1, <1>2 DEF Effective, row
<1>3. ASSUME NEW c \in Comps, redis' = [redis EXCEPT ![c] = Effective(c)]
      PROVE  \A d \in Comps : Effective(d)' = Effective(d)
  <2>1. PICK x : x = Effective(c)
    OBVIOUS
  <2>2. x # Null
    BY <2>1 DEF UpsertStore
  <2>3. redis' = [redis EXCEPT ![c] = x] /\ redis \in [Comps -> OptValue]
    BY <1>3, <2>1 DEF TypeOK
  <2>4. Effective(c)' = x
    BY <2>2, <2>3 DEF Effective
  <2>5. ASSUME NEW d \in Comps, d # c PROVE Effective(d)' = Effective(d)
    BY <2>3, <2>5 DEF Effective, row
  <2>6. QED BY <2>1, <2>4, <2>5
<1>4. QED BY <1>1, <1>2, <1>3

LEMMA UpsertFrame ==
    ASSUME BatchInv, BatchInv', Upserting, NEW p \in Procs,
           UNCHANGED <<row, log>>, faults' = 0,
           \/ UNCHANGED redis
           \/ \E c \in Comps : redis' = [redis EXCEPT ![c] = Effective(c)],
           \A q \in Procs : q # p => /\ call'[q] = call[q]
                                     /\ batch'[q] = batch[q],
           UpsertCall(call'[p]), UpsertBatch(batch'[p])
    PROVE  Upserting'
<1>1. TypeOK /\ TypeOK'
  BY DEF BatchInv, BatchTypeOK
<1>2. \A c \in Comps : /\ Effective(c)' = Effective(c)
                       /\ Below(c)' = Below(c)
  BY <1>1, WorthStays DEF Upserting
<1>3. UpsertStore'
  BY <1>2 DEF Upserting, UpsertStore, row
<1>4. ASSUME NEW q \in Procs PROVE UpsertCall(call[q])'
  <2>1. PICK k : k = call'[q]
    OBVIOUS
  <2>2. UpsertCall(k)
    BY <2>1 DEF Upserting
  <2>3. k.op # "idle" => k.comp \in Comps
    BY <1>1, <2>1 DEF TypeOK, CallOK
  <2>4. k.op = "idle" => k.pc = "idle"
    BY <1>1, <2>1 DEF TypeOK, CallOK
  <2>5. k.comp \in Comps =>
          /\ Effective(k.comp)' = Effective(k.comp)
          /\ Below(k.comp)' = Below(k.comp)
    BY <1>2
  <2>6. UpsertCall(k)'
    BY <2>2, <2>3, <2>4, <2>5 DEF UpsertCall
  <2>7. QED BY <2>1, <2>6
<1>5. ASSUME NEW q \in Procs PROVE UpsertBatch(batch[q])'
  <2>1. PICK b : b = batch'[q]
    OBVIOUS
  <2>2. UpsertBatch(b) /\ b \in Batches
    BY <2>1 DEF Upserting, BatchInv, BatchTypeOK
  <2>3. /\ \A i \in 1..Len(b.list) : b.list[i][1] \in Comps
        /\ \A c \in Listed(b) : c \in Comps
    BY <2>2, ListFacts
  <2>4. UpsertBatch(b)'
    BY <1>2, <2>2, <2>3 DEF UpsertBatch
  <2>5. QED BY <2>1, <2>4
<1>6. QED BY <1>3, <1>4, <1>5 DEF Upserting

(* getComponent hands an upsert what its caller has.                       *)
LEMMA UpsertGot ==
    ASSUME UpsertStore, NEW k \in Calls, UpsertCall(k), k.op # "idle",
           k.comp \in Comps
    PROVE  UpsertCall(AfterGet(k, Effective(k.comp)))
<1>1. PICK x : x = Effective(k.comp)
  OBVIOUS
<1>2. x # Null
  BY <1>1 DEF UpsertStore
<1>3. CASE k.op = "get"
  BY <1>3, UpsertNothing DEF AfterGet
<1>4. ASSUME NEW q \in {"fetched", "upsert.check"},
             q = "upsert.check" => k.comp \in Persistent
      PROVE  UpsertCall([k EXCEPT !.pc = q, !.found = x])
  <2>1. PICK n : n = [k EXCEPT !.pc = q, !.found = x]
    OBVIOUS
  <2>2. /\ n.pc = q /\ n.found = x /\ n.op = k.op /\ n.comp = k.comp
        /\ n.val = k.val
    BY <2>1 DEF Calls
  <2>3. UpsertCall(n)
    BY <1>1, <1>4, <2>2 DEF UpsertCall
  <2>4. QED BY <2>1, <2>3
<1>5. CASE k.op = "fetch"
  BY <1>1, <1>4, <1>5 DEF AfterGet
<1>6. CASE k.op = "upsert"
  <2>1. k.val = x
    BY <1>1, <1>6 DEF UpsertCall
  <2>2. CASE k.comp \in Persistent
    BY <1>1, <1>2, <1>4, <1>6, <2>2 DEF AfterGet
  <2>3. CASE k.comp \notin Persistent
    BY <1>1, <1>2, <1>6, <2>1, <2>3, UpsertNothing DEF AfterGet
  <2>4. QED BY <2>2, <2>3
<1>7. QED BY <1>3, <1>5, <1>6 DEF UpsertCall

LEMMA UpsertRead ==
    ASSUME TypeOK, Upserting, NEW p \in Procs, Read(p), faults' = 0
    PROVE  /\ UpsertCall(call'[p])
           /\ \/ UNCHANGED redis
              \/ \E c \in Comps : redis' = [redis EXCEPT ![c] = Effective(c)]
           /\ UNCHANGED <<row, log>>
<1> DEFINE k == call[p]  c == k.comp
<1>1. k \in Calls /\ CallOK(k) /\ UpsertCall(k) /\ UpsertStore
  BY CallFacts DEF Upserting
<1>2. k.pc \in {"get.redis", "get.jsonb", "get.columns", "get.warm"}
  BY DEF Read, GetRedis, GetJsonb, GetColumns, GetWarm, At
<1>3. k.op \in {"get", "upsert", "fetch"} /\ c \in Comps
  BY <1>1, <1>2 DEF CallOK, UpsertCall
<1>4. UpsertCall(AfterGet(k, Effective(c)))
  BY <1>1, <1>3, UpsertGot
<1>5. ASSUME NEW n, Goto(p, n) PROVE call'[p] = n
  BY <1>5 DEF Goto, TypeOK
<1>6. UNCHANGED <<row, log>>
  BY DEF Read, GetRedis, GetJsonb, GetColumns, GetWarm
<1>7. /\ Effective(c) # Null
      /\ c \in Persistent => components[c] # Null
      /\ c \notin Persistent => components[c] = Null
      /\ c \notin Projected => columns[c] = Null
  BY <1>1, <1>3 DEF UpsertStore
<1>8. ~Fault
  BY <1>1 DEF Fault, UpsertStore
<1>9. ASSUME NEW x, x = Effective(c)
      PROVE  UpsertCall([k EXCEPT !.pc = "get.warm", !.found = x])
  <2>1. PICK n : n = [k EXCEPT !.pc = "get.warm", !.found = x]
    OBVIOUS
  <2>2. /\ n.pc = "get.warm" /\ n.found = x /\ n.op = k.op
        /\ n.comp = k.comp /\ n.val = k.val
    BY <1>1, <2>1 DEF Calls
  <2>3. UpsertCall(n)
    BY <1>1, <1>9, <2>2 DEF UpsertCall
  <2>4. QED BY <2>1, <2>3
<1>10. CASE GetRedis(p)
  <2>1. CASE redis[c] # Null
    <3>1. Effective(c) = redis[c]
      BY <2>1 DEF Effective
    <3>2. Goto(p, AfterGet(k, Effective(c))) /\ UNCHANGED redis
      BY <1>10, <2>1, <3>1 DEF GetRedis
    <3>3. QED BY <1>4, <1>5, <1>6, <3>2
  <2>2. CASE redis[c] = Null
    <3>1. Effective(c) = Below(c)
      BY <2>2 DEF Effective, Below
    <3>2. c \in Persistent \cup Projected
      BY <1>7, <3>1 DEF Below, FromColumn
    <3>3. ASSUME NEW q \in {"get.jsonb", "get.columns"},
                 q = "get.jsonb" => c \in Persistent,
                 q = "get.columns" => c \in Projected \ Persistent
          PROVE  UpsertCall([k EXCEPT !.pc = q])
      <4>1. PICK n : n = [k EXCEPT !.pc = q]
        OBVIOUS
      <4>2. /\ n.pc = q /\ n.op = k.op /\ n.comp = k.comp /\ n.val = k.val
        BY <1>1, <4>1 DEF Calls
      <4>3. UpsertCall(n)
        BY <1>1, <3>1, <3>3, <4>2 DEF UpsertCall
      <4>4. QED BY <4>1, <4>3
    <3>4. \E n : Goto(p, n) /\ UpsertCall(n) /\ UNCHANGED redis
      <4>1. CASE c \in Persistent
        BY <1>10, <2>2, <3>3, <4>1 DEF GetRedis
      <4>2. CASE c \notin Persistent
        BY <1>10, <2>2, <3>2, <3>3, <4>2 DEF GetRedis
      <4>3. QED BY <4>1, <4>2
    <3>5. QED BY <1>5, <1>6, <3>4
  <2>3. QED BY <2>1, <2>2
<1>11. CASE GetJsonb(p)
  <2>1. c \in Persistent /\ Below(c) = Effective(c)
    BY <1>1, <1>11 DEF GetJsonb, At, UpsertCall
  <2>2. components[c] = Effective(c) /\ components[c] # Null
    BY <1>7, <2>1 DEF Below
  <2>3. /\ Goto(p, [k EXCEPT !.pc = "get.warm", !.found = components[c]])
        /\ UNCHANGED redis
    BY <1>8, <1>11, <2>2 DEF GetJsonb, LoadComponentFromJsonb
  <2>4. QED BY <1>5, <1>6, <1>9, <2>2, <2>3
<1>12. CASE GetColumns(p)
  <2>1. c \in Projected \ Persistent /\ Below(c) = Effective(c)
    BY <1>1, <1>12 DEF GetColumns, At, UpsertCall
  <2>2. FromColumn(columns[c]) = Effective(c) /\ columns[c] # Null
    BY <1>7, <2>1 DEF Below, FromColumn
  <2>3. /\ Goto(p, [k EXCEPT !.pc = "get.warm",
                             !.found = FromColumn(columns[c])])
        /\ UNCHANGED redis
    BY <1>8, <1>12, <2>1, <2>2 DEF GetColumns, LoadPersistentProperties
  <2>4. QED BY <1>5, <1>6, <1>9, <2>2, <2>3
<1>13. CASE GetWarm(p)
  <2>1. k.found = Effective(c)
    BY <1>1, <1>13 DEF GetWarm, At, UpsertCall
  <2>2. /\ redis' = [redis EXCEPT ![c] = Effective(c)]
        /\ Goto(p, AfterGet(k, Effective(c)))
    BY <1>13, <2>1 DEF GetWarm
  <2>3. QED BY <1>3, <1>4, <1>5, <1>6, <2>2
<1>14. QED BY <1>10, <1>11, <1>12, <1>13 DEF Read

LEMMA UpsertSingle ==
    ASSUME BatchInv, BatchInv', Upserting, NEW p \in Procs, SingleStep(p),
           Within, workload = "upsert"
    PROVE  Upserting'
<1> DEFINE k == call[p]  c == k.comp
<1>1. TypeOK /\ k \in Calls /\ CallOK(k) /\ UpsertCall(k) /\ UpsertStore
  BY CallFacts DEF Upserting, BatchInv, BatchTypeOK
<1>2. /\ faults' = 0 /\ UNCHANGED batch
      /\ \A q \in Procs : UpsertBatch(batch'[q])
  BY DEF Within, SingleStep, Upserting
<1>3. ~Fault
  BY <1>1, <1>2 DEF Fault, UpsertStore
<1>4. ASSUME NEW n, Goto(p, n)
      PROVE  call'[p] = n /\ \A q \in Procs : q # p => call'[q] = call[q]
  BY <1>1, <1>4 DEF Goto, TypeOK
<1>5. CASE Start(p)
  <2>1. PICK n : /\ Goto(p, n) /\ n.pc \in {"has.redis", "get.redis"}
                 /\ n.op \in Ops
                 /\ n.pc = "has.redis" => n.op \in {"add", "has"}
    BY <1>5 DEF Start
  <2>2. call'[p] = n /\ k = NoCall
    BY <1>1, <1>5, <2>1 DEF Goto, TypeOK, Start
  <2>3. Follows(n)
    BY <2>2 DEF Within
  <2>4. n.op \in {"get", "upsert"} /\ (n.op = "upsert" => n.val = Effective(n.comp))
    BY <2>1, <2>3, CallerAssumption DEF CallerAssumption, AllOps, Follows
  <2>5. UpsertCall(n)
    BY <2>1, <2>4 DEF UpsertCall
  <2>6. UNCHANGED <<row, log, redis>>
    BY <1>5 DEF Start
  <2>7. QED BY <1>2, <1>4, <2>1, <2>2, <2>5, <2>6, UpsertFrame
<1>6. CASE Abort(p)
  BY <1>3, <1>6 DEF Abort
<1>7. CASE Read(p)
  <2>1. \A q \in Procs : q # p => call'[q] = call[q]
    BY <1>1, <1>7, StepContinues DEF Step
  <2>2. /\ UpsertCall(call'[p])
        /\ \/ UNCHANGED redis
           \/ \E d \in Comps : redis' = [redis EXCEPT ![d] = Effective(d)]
        /\ UNCHANGED <<row, log>>
    BY <1>1, <1>2, <1>7, UpsertRead
  <2>3. QED BY <1>2, <2>1, <2>2, UpsertFrame
<1>8. CASE UpsertCheck(p)
  <2>1. k.pc = "upsert.check" /\ c \in Persistent /\ k.found = Effective(c)
    BY <1>1, <1>8 DEF UpsertCheck, At, UpsertCall
  <2>2. k.op = "upsert" /\ k.val = Effective(c) /\ c \in Comps
    BY <1>1, <2>1 DEF CallOK, UpsertCall
  <2>3. components[c] # Null
    BY <1>1, <2>1, <2>2 DEF UpsertStore
  <2>4. Goto(p, NoCall) /\ UNCHANGED <<row, log, redis>>
    BY <1>3, <1>8, <2>1, <2>2, <2>3 DEF UpsertCheck, LoadComponentFromJsonb
  <2>5. UpsertCall(call'[p]) /\ \A q \in Procs : q # p => call'[q] = call[q]
    BY <1>4, <2>4, UpsertNothing
  <2>6. QED BY <1>2, <2>4, <2>5, UpsertFrame
<1>9. CASE Step(p) /\ ~Read(p) /\ ~UpsertCheck(p)
  <2>1. k.pc \notin {"idle", "get.redis", "get.jsonb", "get.columns",
                     "get.warm", "upsert.check", "fetched"}
    BY <1>9
       DEF Step, Probe, HasRedis, HasJsonb, HasWarm, HasColumns, AddClaim,
           UpdateSet, Save, ColumnsFind, ColumnsUpdate, ColumnsInsert,
           JsonbFind, JsonbUpdate, JsonbInsert, Remove, RemoveDel,
           RemoveColumns, RemoveFind, RemoveJsonb, Guard, GuardWrite,
           GuardSet, Emit, At
  <2>2. QED BY <1>1, <2>1 DEF UpsertCall
<1>10. QED BY <1>5, <1>6, <1>7, <1>8, <1>9 DEF SingleStep

(* A batch of upserts after one more component was read.                   *)
LEMMA UpsertCached ==
    ASSUME UpsertStore, NEW b \in Batches, b.op = "upserts",
           \A i \in 1..Len(b.list) : b.list[i][2] = Effective(b.list[i][1]),
           \A c \in Listed(b) \ b.todo : b.found[c] = Effective(c)
    PROVE  UpsertBatch(AfterCached(b))
<1>1. CASE b.todo # {}
  <2>1. PICK d : d = [b EXCEPT !.pc = "fetch"]
    OBVIOUS
  <2>2. /\ d.pc = "fetch" /\ d.op = b.op /\ d.list = b.list
        /\ d.todo = b.todo /\ d.found = b.found /\ Listed(d) = Listed(b)
    BY <2>1, SameList DEF Batches
  <2>3. UpsertBatch(d)
    BY <2>2 DEF UpsertBatch
  <2>4. QED BY <1>1, <2>1, <2>3 DEF AfterCached
<1>2. CASE b.todo = {}
  <2>1. PICK t : t = {c \in Listed(b) : b.found[c] # Null}
    OBVIOUS
  <2>2. t = Listed(b)
    BY <1>2, <2>1, ListFacts DEF UpsertStore
  <2>3. PICK d : d = [b EXCEPT !.pc = "check", !.todo = t]
    OBVIOUS
  <2>4. /\ d.pc = "check" /\ d.op = b.op /\ d.list = b.list
        /\ d.todo = t /\ d.found = b.found /\ Listed(d) = Listed(b)
    BY <2>3, SameList DEF Batches
  <2>5. UpsertBatch(d)
    BY <1>2, <2>2, <2>4 DEF UpsertBatch
  <2>6. QED BY <1>2, <2>1, <2>3, <2>5 DEF AfterCached
<1>3. QED BY <1>1, <1>2

(* A batch that found the values it has drops them one by one.             *)
LEMMA UpsertDrops ==
    ASSUME BatchInv, Upserting, NEW p \in Procs, BatchCheck(p), faults' = 0
    PROVE  UpsertBatch(batch'[p])
<1> DEFINE b == batch[p]
<1>1. /\ b \in Batches /\ BatchOK(b) /\ UpsertBatch(b) /\ UpsertStore
      /\ b.pc = "check"
  BY BatchFacts DEF Upserting, BatchCheck, BatchAt
<1>2. /\ b # NoBatch /\ Ready(b) /\ Fits(b) /\ b.op = "upserts"
      /\ b.todo = Listed(b)
      /\ \A c \in Listed(b) : b.found[c] = Effective(c) /\ c \in Comps
      /\ \A i \in 1..Len(b.list) : b.list[i][2] = Effective(b.list[i][1])
  BY <1>1, ListFacts DEF UpsertBatch, BatchOK, NoBatch
<1>3. ~Fault
  BY <1>1 DEF Fault, UpsertStore
<1>4. ASSUME NEW d, BatchGoto(p, d) PROVE batch'[p] = d
  BY <1>4 DEF BatchGoto, BatchInv, BatchTypeOK
<1>5. b.list \in Seq(Comps \X Values)
  BY <1>1, ListFacts
<1>6. CASE b.todo = {}
  <2>1. b.list = <<>>
    <3>1. \A i \in 1..Len(b.list) : b.list[i][1] \in Listed(b)
      BY <1>1, ListFacts
    <3>2. ~(1 \in 1..Len(b.list))
      BY <1>2, <1>6, <3>1
    <3>3. Len(b.list) = 0
      BY <1>5, <3>2
    <3>4. QED BY <1>5, <3>3
  <2>2. AfterLookup(b) = NoBatch
    BY <1>2, <2>1 DEF AfterLookup
  <2>3. BatchGoto(p, NoBatch)
    BY <1>6, <2>2 DEF BatchCheck
  <2>4. QED BY <1>4, <2>3, UpsertNothing
<1>7. CASE b.todo # {}
  <2>1. PICK i \in 1..Len(b.list), x \in OptValue :
              LET c == b.list[i][1] IN
              /\ c \in b.todo
              /\ x = IF c \in Persistent THEN LoadComponentFromJsonb(c)
                     ELSE b.found[c]
              /\ BatchGoto(p, [b EXCEPT !.todo = @ \ {c},
                     !.list = IF x # Null /\ b.found[c] = b.list[i][2]
                              THEN Lists!RemoveAt(@, i) ELSE @])
    BY <1>3, <1>7 DEF BatchCheck
  <2>2. PICK c : c = b.list[i][1]
    OBVIOUS
  <2>3. c \in Comps /\ c \in Listed(b) /\ b.found[c] = Effective(c)
    BY <1>2, <2>1, <2>2
  <2>4. x # Null /\ b.found[c] = b.list[i][2]
    BY <1>1, <1>2, <2>1, <2>2, <2>3 DEF UpsertStore, LoadComponentFromJsonb
  <2>5. PICK l : l = Lists!RemoveAt(b.list, i)
    OBVIOUS
  <2>6. PICK d : d = [b EXCEPT !.todo = @ \ {c}, !.list = l]
    OBVIOUS
  <2>7. batch'[p] = d
    BY <1>4, <2>1, <2>2, <2>4, <2>5, <2>6
  <2>8. /\ d.op = b.op /\ d.pc = b.pc /\ d.list = l /\ d.found = b.found
        /\ d.todo = b.todo \ {c}
    BY <1>1, <2>6 DEF Batches
  <2>9. /\ Listed(d) = Listed(b) \ {c}
        /\ \A j \in 1..Len(d.list) : \E h \in 1..Len(b.list) :
              d.list[j] = b.list[h]
    <3>1. d.list = Lists!RemoveAt(b.list, i) /\ Distinct(b.list)
      BY <1>2, <2>5, <2>8 DEF Ready
    <3>2. QED BY <1>5, <2>2, <3>1, RemoveAtNames
  <2>10. \A j \in 1..Len(d.list) : d.list[j][2] = Effective(d.list[j][1])
    BY <1>2, <2>9
  <2>11. UpsertBatch(d)
    BY <1>1, <1>2, <2>8, <2>9, <2>10 DEF UpsertBatch
  <2>12. QED BY <2>7, <2>11
<1>8. QED BY <1>6, <1>7

LEMMA UpsertBatchStep ==
    ASSUME BatchInv, BatchInv', Upserting, NEW p \in Procs, Within,
           workload = "upsert",
           BatchStart(p) \/ BatchStep(p) \/ BatchAbort(p)
    PROVE  Upserting'
<1> DEFINE b == batch[p]  k == call[p]
<1>1. /\ TypeOK /\ b \in Batches /\ UpsertBatch(b) /\ BatchOK(b)
      /\ UpsertStore /\ UpsertCall(k) /\ Paired(k, b)
  BY BatchFacts DEF Upserting
<1>2. faults' = 0
  BY DEF Within
<1>3. ~Fault
  BY <1>1, <1>2 DEF Fault, UpsertStore
<1>4. ASSUME UpsertBatch(batch'[p]), UpsertCall(call'[p]),
             UNCHANGED <<row, log, redis>>,
             \A q \in Procs : q # p => call'[q] = call[q]
      PROVE  Upserting'
  BY <1>2, <1>4, BatchGoes, UpsertFrame
<1>5. ASSUME NEW d, BatchGoto(p, d) PROVE batch'[p] = d
  BY <1>5 DEF BatchGoto, BatchInv, BatchTypeOK
<1>6. CASE BatchStart(p)
  <2>1. BatchFollows(batch'[p]) /\ BatchOK(batch'[p])
        /\ batch'[p] \in Batches
    BY <1>6 DEF Within, BatchStart, BatchInv, BatchTypeOK
  <2>2. PICK e : batch'[p] = e
    OBVIOUS
  <2>3. UpsertBatch(e)
    <3>1. CASE e.op = "idle"
      BY <2>1, <2>2, <3>1, UpsertNothing DEF BatchOK, Ready, AllBatchOps
    <3>2. CASE e.op # "idle"
      <4>1. /\ e.op = "upserts"
            /\ \A c \in Listed(e) : ValueIn(e, c) = Effective(c)
        BY <2>1, <2>2, <3>2 DEF BatchFollows
      <4>2. e.pc = "cache"
        <5>1. PICK g \in Batches : \/ e = [g EXCEPT !.pc = "cache"]
                                   \/ g.op = "adds" /\ e = AfterLookup(g)
          BY <1>5, <1>6, <2>2, BatchStarts
        <5>2. e.op # "adds" /\ e # NoBatch
          BY <4>1 DEF NoBatch
        <5>3. CASE g.op = "adds" /\ e = AfterLookup(g)
          <6>1. PICK q : e = [g EXCEPT !.pc = q]
            BY <5>2, <5>3, AfterLookupCases
          <6>2. e.op = g.op
            BY <6>1 DEF Batches
          <6>3. QED BY <5>2, <5>3, <6>2
        <5>4. QED BY <5>1, <5>3 DEF Batches
      <4>3. e \in Batches /\ Distinct(e.list)
        BY <2>1, <2>2, <4>2 DEF BatchOK, Ready
      <4>4. \A i \in 1..Len(e.list) : e.list[i][2] = Effective(e.list[i][1])
        BY <4>1, <4>3, ListFacts, ListedValue
      <4>5. QED BY <4>1, <4>2, <4>4 DEF UpsertBatch
    <3>3. QED BY <3>1, <3>2
  <2>4. QED BY <1>1, <1>4, <1>6, <2>2, <2>3 DEF BatchStart
<1>7. CASE BatchCache(p)
  <2>1. PICK f : f = [c \in Comps |-> IF c \in Listed(b) THEN redis[c] ELSE Null]
    OBVIOUS
  <2>2. PICK t : t = {c \in Listed(b) : redis[c] = Null}
    OBVIOUS
  <2>3. PICK d : d = [b EXCEPT !.found = f, !.todo = t]
    OBVIOUS
  <2>4. BatchGoto(p, AfterCached(d)) /\ UNCHANGED vars /\ b.pc = "cache"
    BY <1>7, <2>1, <2>2, <2>3 DEF BatchCache, BatchAt
  <2>5. Ready(b) /\ b.op = "upserts"
        /\ \A i \in 1..Len(b.list) : b.list[i][2] = Effective(b.list[i][1])
    BY <1>1, <2>4 DEF BatchOK, UpsertBatch, NoBatch
  <2>6. f \in [Comps -> OptValue] /\ t \subseteq Listed(b)
    BY <1>1, <2>1, <2>2 DEF TypeOK, OptValue
  <2>7. /\ d \in Batches /\ d.op = b.op /\ d.list = b.list
        /\ d.found = f /\ d.todo = t /\ Listed(d) = Listed(b)
    <3>1. d \in Batches
      BY <1>1, <2>3, <2>5, <2>6, Judged
    <3>2. /\ d.op = b.op /\ d.list = b.list /\ d.found = f /\ d.todo = t
      BY <1>1, <2>3 DEF Batches
    <3>3. QED BY <3>1, <3>2, SameList
  <2>8. \A c \in Listed(d) \ d.todo : d.found[c] = Effective(c)
    BY <1>1, <2>1, <2>2, <2>7, ListFacts DEF Effective
  <2>9. UpsertBatch(AfterCached(d))
    BY <1>1, <2>5, <2>7, <2>8, UpsertCached
  <2>10. QED BY <1>1, <1>4, <1>5, <2>4, <2>9 DEF vars, row
<1>8. CASE BatchFetch(p)
  <2>1. PICK c : call' = [call EXCEPT ![p] =
            [NoCall EXCEPT !.op = "fetch", !.comp = c, !.pc = "get.redis"]]
    BY <1>8 DEF BatchFetch
  <2>2. PICK n : n = [NoCall EXCEPT !.op = "fetch", !.comp = c,
                                    !.pc = "get.redis"]
    OBVIOUS
  <2>3. UpsertCall(n)
    <3>1. n.op = "fetch" /\ n.pc = "get.redis"
      BY <2>2 DEF NoCall
    <3>2. QED BY <3>1 DEF UpsertCall
  <2>4. call'[p] = n /\ \A q \in Procs : q # p => call'[q] = call[q]
    BY <1>1, <2>1, <2>2 DEF TypeOK
  <2>5. QED BY <1>1, <1>4, <1>8, <2>3, <2>4 DEF BatchFetch
<1>9. CASE BatchFetched(p)
  <2>1. PICK f : f = [b.found EXCEPT ![k.comp] = k.found]
    OBVIOUS
  <2>2. PICK t : t = b.todo \ {k.comp}
    OBVIOUS
  <2>3. PICK d : d = [b EXCEPT !.found = f, !.todo = t]
    OBVIOUS
  <2>4. /\ BatchGoto(p, AfterCached(d)) /\ b.pc = "fetch" /\ k.pc = "fetched"
        /\ Return(p) /\ UNCHANGED <<row, log, redis>>
    <3>1. [b EXCEPT !.found[k.comp] = k.found, !.todo = @ \ {k.comp}] = d
      BY <2>1, <2>2, <2>3
    <3>2. QED BY <1>9, <3>1 DEF BatchFetched, BatchAt
  <2>5. /\ Ready(b) /\ b.op = "upserts" /\ k.found = Effective(k.comp)
        /\ \A i \in 1..Len(b.list) : b.list[i][2] = Effective(b.list[i][1])
        /\ \A c \in Listed(b) \ b.todo : b.found[c] = Effective(c)
    BY <1>1, <2>4 DEF BatchOK, UpsertBatch, UpsertCall, NoBatch
  <2>6. f \in [Comps -> OptValue] /\ t \subseteq Listed(b)
    <3>1. b.found \in [Comps -> OptValue] /\ k.found \in OptValue
      BY <1>1, BatchFacts, CallFacts
    <3>2. QED BY <2>1, <2>2, <2>5, <3>1 DEF Ready
  <2>7. /\ d \in Batches /\ d.op = b.op /\ d.list = b.list
        /\ d.found = f /\ d.todo = t /\ Listed(d) = Listed(b)
    <3>1. d \in Batches
      BY <1>1, <2>3, <2>5, <2>6, Judged
    <3>2. /\ d.op = b.op /\ d.list = b.list /\ d.found = f /\ d.todo = t
      BY <1>1, <2>3 DEF Batches
    <3>3. QED BY <3>1, <3>2, SameList
  <2>8. ASSUME NEW c \in Listed(d) \ d.todo PROVE d.found[c] = Effective(c)
    <3>1. c \in Comps /\ b.found \in [Comps -> OptValue]
      BY <1>1, <2>7, ListFacts, BatchFacts
    <3>2. CASE c = k.comp
      BY <2>1, <2>5, <2>7, <3>1, <3>2
    <3>3. CASE c # k.comp
      BY <2>1, <2>2, <2>5, <2>7, <3>1, <3>3
    <3>4. QED BY <3>2, <3>3
  <2>9. UpsertBatch(AfterCached(d))
    BY <1>1, <2>5, <2>7, <2>8, UpsertCached
  <2>10. call'[p] = NoCall /\ \A q \in Procs : q # p => call'[q] = call[q]
    BY <1>1, <2>4 DEF Return, Goto, TypeOK
  <2>11. QED BY <1>4, <1>5, <2>4, <2>9, <2>10, UpsertNothing
<1>10. CASE BatchCheck(p)
  <2>1. UpsertBatch(batch'[p])
    BY <1>2, <1>10, UpsertDrops
  <2>2. QED BY <1>1, <1>4, <1>10, <2>1 DEF BatchCheck
<1>11. CASE BatchAbort(p)
  BY <1>3, <1>11 DEF BatchAbort
<1>12. CASE BatchNames(p) \/ BatchColumns(p) \/ BatchFind(p) \/ BatchUpdate(p)
            \/ BatchInsert(p) \/ BatchHSet(p) \/ BatchEmit(p) \/ BatchReturn(p)
  <2>1. b.pc \notin {"idle", "cache", "fetch", "check"}
    BY <1>12 DEF BatchNames, BatchColumns, BatchFind, BatchUpdate,
                 BatchInsert, BatchHSet, BatchEmit, BatchReturn, BatchAt
  <2>2. QED BY <1>1, <2>1 DEF UpsertBatch, NoBatch
<1>13. QED BY <1>6, <1>7, <1>8, <1>9, <1>10, <1>11, <1>12 DEF BatchStep

(* Upserting what is stored writes nothing and tells nobody, for any       *)
(* number of callers, components and values, as long as no request fails.  *)
THEOREM SilentUpserts == WorkloadSpec => []EqualUpsertIsSilent
<1> DEFINE Inv == BatchInv /\ (workload = "upsert" => Upserting)
<1>1. WorkloadInit => Inv
  <2> SUFFICES ASSUME WorkloadInit PROVE Inv
    OBVIOUS
  <2>1. BatchInv
    BY BatchInvInit DEF WorkloadInit
  <2>2. \A p \in Procs : UpsertCall(call[p]) /\ UpsertBatch(batch[p])
    BY UpsertNothing DEF WorkloadInit, BatchInit, Init
  <2>3. ASSUME workload = "upsert" PROVE UpsertStore
    <3>1. \A c \in Comps : /\ Effective(c) # Null
                           /\ c \in Persistent => components[c] # Null
      BY <2>3 DEF WorkloadInit, InitFor
    <3>2. \A c \in Comps : StoresAgree(c)
      BY DEF WorkloadInit, BatchInit, Init
    <3>3. log = <<>> /\ faults = 0
      BY DEF WorkloadInit, BatchInit, Init
    <3>4. QED BY <3>1, <3>2, <3>3 DEF UpsertStore, StoresAgree
  <2>4. QED BY <2>1, <2>2, <2>3 DEF Upserting
<1>2. Inv /\ [WorkloadNext]_<<batchVars, workload>> => Inv'
  <2> SUFFICES ASSUME Inv, [WorkloadNext]_<<batchVars, workload>>
               PROVE  Inv'
    OBVIOUS
  <2>1. BatchInv' /\ UNCHANGED workload
    BY WorkloadRefines, BatchInvNext
  <2>2. ASSUME workload = "upsert" PROVE Upserting'
    <3>1. Upserting
      BY <2>2
    <3>2. CASE UNCHANGED batchVars
      BY <3>1, <3>2 DEF Upserting, UpsertStore, UpsertCall, UpsertBatch,
            Effective, Below, batchVars, vars
    <3>3. ASSUME NEW p \in Procs, SingleStep(p), Within PROVE Upserting'
      BY <2>1, <2>2, <3>1, <3>3, UpsertSingle
    <3>4. ASSUME NEW p \in Procs, Within,
                 BatchStart(p) \/ BatchStep(p) \/ BatchAbort(p)
          PROVE  Upserting'
      BY <2>1, <2>2, <3>1, <3>4, UpsertBatchStep
    <3>5. QED BY <3>2, <3>3, <3>4 DEF WorkloadNext
  <2>3. QED BY <2>1, <2>2
<1>3. Inv => EqualUpsertIsSilent
  <2> SUFFICES ASSUME Upserting PROVE EqualUpsertIsSilent
    BY DEF EqualUpsertIsSilent
  <2>1. log = <<>>
    BY DEF Upserting, UpsertStore
  <2>2. \A p \in Procs : call[p].pc \notin {"update.set", "add.claim"}
    BY DEF Upserting, UpsertCall
  <2>3. \A p \in Procs : batch[p].pc \notin {"find", "hset"}
    BY DEF Upserting, UpsertBatch, NoBatch
  <2>4. QED BY <2>1, <2>2, <2>3 DEF EqualUpsertIsSilent
<1>4. QED BY <1>1, <1>2, <1>3, PTL DEF WorkloadSpec
=============================================================================
