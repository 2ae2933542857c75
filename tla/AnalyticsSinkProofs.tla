------------------------- MODULE AnalyticsSinkProofs -------------------------
(***************************************************************************)
(* What holds of the analytics sink for every batch size, cap, number of   *)
(* events and number of failed saves.                                      *)
(***************************************************************************)
EXTENDS AnalyticsSink, TLAPS

-----------------------------------------------------------------------------
(* The inductive invariant: an accepted event is stored, being saved or    *)
(* buffered, and what is in memory is in the order of receipt, the batch   *)
(* in flight before the buffer.                                            *)

Elements(s) == {s[i] : i \in 1..Len(s)}
Increasing(s) == \A i, j \in 1..Len(s) : i < j => s[i] < s[j]

MemoryInv ==
    /\ Accepted \subseteq table \cup Elements(saving) \cup Elements(buffer)
    /\ Increasing(saving) /\ Increasing(buffer)
    /\ \A a \in Elements(saving), b \in Elements(buffer) : a < b
    /\ phase = "drained" => saving = <<>> /\ buffer = <<>>

SinkInv == TypeOK /\ MemoryInv /\ StoredInOrder

-----------------------------------------------------------------------------
(* Facts about sequences of event numbers.                                 *)

LEMMA EmptyElements == Elements(<<>>) = {} /\ Increasing(<<>>)
BY DEF Elements, Increasing

LEMMA ElementsOf ==
    ASSUME NEW S, NEW s \in Seq(S) PROVE Elements(s) \subseteq S
BY DEF Elements

(* An event that is received last keeps the buffer in order.               *)
LEMMA AppendLast ==
    ASSUME NEW n \in Nat, NEW s \in Seq(1..n), Increasing(s)
    PROVE  /\ Append(s, n + 1) \in Seq(1..(n + 1))
           /\ Append(s, n + 1) # <<>>
           /\ Elements(Append(s, n + 1)) = Elements(s) \cup {n + 1}
           /\ Increasing(Append(s, n + 1))
<1> DEFINE t == Append(s, n + 1)
<1>1. s \in Seq(1..(n + 1)) /\ n + 1 \in 1..(n + 1)
  OBVIOUS
<1>2. /\ t \in Seq(1..(n + 1)) /\ Len(t) = Len(s) + 1 /\ t # <<>>
      /\ \A i \in 1..Len(s) : t[i] = s[i]
      /\ t[Len(s) + 1] = n + 1
  BY <1>1
<1>3. Len(s) \in Nat /\ \A i \in 1..Len(s) : s[i] \in 1..n
  OBVIOUS
<1> HIDE DEF t
<1>4. /\ \A i \in 1..Len(t) : i \in 1..Len(s) \/ i = Len(s) + 1
      /\ \A i \in 1..Len(s) : i \in 1..Len(t)
      /\ Len(s) + 1 \in 1..Len(t)
  BY <1>2, <1>3
<1>5. Elements(t) = Elements(s) \cup {n + 1}
  <2>1. ASSUME NEW x \in Elements(t) PROVE x \in Elements(s) \cup {n + 1}
    <3>1. PICK i \in 1..Len(t) : x = t[i]
      BY <2>1 DEF Elements
    <3>2. QED BY <1>2, <1>4, <3>1 DEF Elements
  <2>2. ASSUME NEW x \in Elements(s) PROVE x \in Elements(t)
    <3>1. PICK i \in 1..Len(s) : x = s[i]
      BY <2>2 DEF Elements
    <3>2. QED BY <1>2, <1>4, <3>1 DEF Elements
  <2>3. n + 1 \in Elements(t)
    BY <1>2, <1>4 DEF Elements
  <2>4. QED BY <2>1, <2>2, <2>3
<1>6. Increasing(t)
  <2>1. SUFFICES ASSUME NEW i \in 1..Len(t), NEW j \in 1..Len(t), i < j
                 PROVE  t[i] < t[j]
    BY DEF Increasing
  <2>2. i \in 1..Len(s)
    BY <1>2, <1>3, <1>4, <2>1
  <2>3. CASE j \in 1..Len(s)
    BY <1>2, <2>1, <2>2, <2>3 DEF Increasing
  <2>4. CASE j = Len(s) + 1
    <3>1. s[i] < n + 1
      BY <1>3, <2>2
    <3>2. QED BY <1>2, <2>2, <2>4, <3>1
  <2>5. QED BY <1>4, <2>3, <2>4
<1>7. QED BY <1>2, <1>5, <1>6 DEF t

(* A batch put back at the head of the buffer keeps the order.             *)
LEMMA PutBack ==
    ASSUME NEW n \in Nat, NEW s \in Seq(1..n), NEW t \in Seq(1..n),
           Increasing(s), Increasing(t),
           \A a \in Elements(s), b \in Elements(t) : a < b
    PROVE  /\ s \o t \in Seq(1..n)
           /\ Elements(s \o t) = Elements(s) \cup Elements(t)
           /\ Increasing(s \o t)
<1> DEFINE u == s \o t
<1>1. /\ u \in Seq(1..n) /\ Len(u) = Len(s) + Len(t)
      /\ Len(s) \in Nat /\ Len(t) \in Nat
      /\ \A i \in 1..Len(s) : u[i] = s[i]
      /\ \A i \in 1..Len(t) : u[Len(s) + i] = t[i]
  OBVIOUS
<1>2. \A i \in 1..Len(u) :
         i \in 1..Len(s) \/ (i - Len(s) \in 1..Len(t) /\ u[i] = t[i - Len(s)])
  <2>1. SUFFICES ASSUME NEW i \in 1..Len(u), i \notin 1..Len(s)
                 PROVE  i - Len(s) \in 1..Len(t) /\ u[i] = t[i - Len(s)]
    OBVIOUS
  <2>2. i - Len(s) \in 1..Len(t) /\ Len(s) + (i - Len(s)) = i
    BY <1>1, <2>1
  <2>3. QED BY <1>1, <2>2
<1>3. /\ \A i \in 1..Len(s) : i \in 1..Len(u)
      /\ \A i \in 1..Len(t) : Len(s) + i \in 1..Len(u)
  BY <1>1
<1> HIDE DEF u
<1>4. Elements(u) = Elements(s) \cup Elements(t)
  <2>1. ASSUME NEW x \in Elements(u) PROVE x \in Elements(s) \cup Elements(t)
    <3>1. PICK i \in 1..Len(u) : x = u[i]
      BY <2>1 DEF Elements
    <3>2. QED BY <1>1, <1>2, <3>1 DEF Elements
  <2>2. ASSUME NEW x \in Elements(s) PROVE x \in Elements(u)
    <3>1. PICK i \in 1..Len(s) : x = s[i]
      BY <2>2 DEF Elements
    <3>2. QED BY <1>1, <1>3, <3>1 DEF Elements
  <2>3. ASSUME NEW x \in Elements(t) PROVE x \in Elements(u)
    <3>1. PICK i \in 1..Len(t) : x = t[i]
      BY <2>3 DEF Elements
    <3>2. QED BY <1>1, <1>3, <3>1 DEF Elements
  <2>4. QED BY <2>1, <2>2, <2>3
<1>5. Increasing(u)
  <2>1. SUFFICES ASSUME NEW i \in 1..Len(u), NEW j \in 1..Len(u), i < j
                 PROVE  u[i] < u[j]
    BY DEF Increasing
  <2>2. CASE i \in 1..Len(s) /\ j \in 1..Len(s)
    BY <1>1, <2>1, <2>2 DEF Increasing
  <2>3. CASE i \in 1..Len(s) /\ j \notin 1..Len(s)
    BY <1>1, <1>2, <2>3 DEF Elements
  <2>4. CASE i \notin 1..Len(s)
    <3>1. j \notin 1..Len(s)
      BY <1>1, <2>1, <2>4
    <3>2. /\ i - Len(s) \in 1..Len(t) /\ u[i] = t[i - Len(s)]
          /\ j - Len(s) \in 1..Len(t) /\ u[j] = t[j - Len(s)]
      BY <1>2, <2>4, <3>1
    <3>3. i - Len(s) < j - Len(s)
      BY <1>1, <2>1
    <3>4. QED BY <3>2, <3>3 DEF Increasing
  <2>5. QED BY <2>2, <2>3, <2>4
<1>6. QED BY <1>1, <1>4, <1>5 DEF u

-----------------------------------------------------------------------------
(* What is in memory, when the highest event number is n.                  *)
Memory(n, s, b) ==
    /\ s \in Seq(1..n) /\ b \in Seq(1..n)
    /\ Increasing(s) /\ Increasing(b)
    /\ \A x \in Elements(s), y \in Elements(b) : x < y

LEMMA FlushOK ==
    ASSUME NEW n \in Nat, NEW b, Memory(n, saving, b), Flush(b),
           flushing \in BOOLEAN, flushing <=> saving # <<>>
    PROVE  /\ Memory(n, saving', buffer')
           /\ flushing' \in BOOLEAN /\ (flushing' <=> saving' # <<>>)
           /\ Elements(saving') \cup Elements(buffer')
                = Elements(saving) \cup Elements(b)
<1>1. CASE flushing \/ b = <<>>
  BY <1>1 DEF Flush
<1>2. CASE ~(flushing \/ b = <<>>)
  <2>1. saving = <<>> /\ saving' = b /\ buffer' = <<>> /\ flushing' = TRUE
    BY <1>2 DEF Flush
  <2>2. <<>> \in Seq(1..n)
    OBVIOUS
  <2>3. QED BY <1>2, <2>1, <2>2, EmptyElements DEF Memory
<1>3. QED BY <1>1, <1>2

LEMMA SinkInit == Init => SinkInv
<1> SUFFICES ASSUME Init PROVE SinkInv
  OBVIOUS
<1>1. received = 0 /\ buffer = <<>> /\ saving = <<>>
  BY DEF Init
<1>2. buffer \in Seq(1..received) /\ saving \in Seq(1..received)
  BY <1>1
<1>3. TypeOK
  <2>1. received \in Nat /\ table \subseteq 1..received
        /\ dropped \subseteq 1..received /\ faults \in Nat
        /\ phase \in {"running", "draining", "drained", "failed"}
    BY <1>1 DEF Init
  <2>2. flushing \in BOOLEAN /\ (flushing <=> saving # <<>>)
    BY <1>1 DEF Init
  <2>3. QED BY <1>2, <2>1, <2>2 DEF TypeOK
<1>4. Accepted = {}
  BY <1>1 DEF Accepted
<1>5. QED BY <1>1, <1>3, <1>4, EmptyElements
          DEF Init, SinkInv, MemoryInv, StoredInOrder

LEMMA SinkReceive == SinkInv /\ Receive => SinkInv'
<1> SUFFICES ASSUME SinkInv, Receive PROVE SinkInv'
  OBVIOUS
<1> DEFINE n == received + 1
           b == Append(buffer, n)
<1>1. /\ received \in Nat /\ n \in Nat /\ received' = n
      /\ 1..received \subseteq 1..n
      /\ 1..n = (1..received) \cup {n} /\ n \notin 1..received
      /\ UNCHANGED <<table, phase, faults>>
      /\ phase # "drained"
  BY DEF SinkInv, TypeOK, Receive
<1>2. Memory(received, saving, buffer)
  BY DEF SinkInv, TypeOK, MemoryInv, Memory
<1>3. /\ b \in Seq(1..n) /\ b # <<>> /\ Increasing(b)
      /\ Elements(b) = Elements(buffer) \cup {n}
  BY <1>1, <1>2, AppendLast DEF Memory
<1>4. /\ saving \in Seq(1..n) /\ buffer \in Seq(1..n)
  BY <1>1, <1>2 DEF Memory
<1>5. Memory(n, saving, b)
  <2>1. \A x \in Elements(saving) : x < n
    BY <1>1, <1>2, ElementsOf DEF Memory
  <2>2. QED BY <1>2, <1>3, <1>4, <2>1 DEF Memory
<1>6. /\ Memory(n, saving', buffer')
      /\ flushing' \in BOOLEAN /\ (flushing' <=> saving' # <<>>)
      /\ dropped' \subseteq 1..n
      /\ Accepted' \subseteq table \cup Elements(saving') \cup Elements(buffer')
  <2>1. CASE Full(buffer)
    <3>1. /\ dropped' = dropped \cup {n}
          /\ UNCHANGED <<buffer, saving, flushing>>
      BY <2>1 DEF Receive
    <3>2. Accepted' = Accepted
      BY <1>1, <3>1 DEF Accepted, SinkInv, TypeOK
    <3>3. QED BY <1>1, <1>2, <1>4, <3>1, <3>2
              DEF SinkInv, TypeOK, MemoryInv, Memory
  <2>2. CASE ~Full(buffer)
    <3>1. /\ UNCHANGED dropped
          /\ Flush(b) \/ (buffer' = b /\ UNCHANGED <<saving, flushing>>)
      BY <2>2 DEF Receive
    <3>2. /\ Memory(n, saving', buffer')
          /\ flushing' \in BOOLEAN /\ (flushing' <=> saving' # <<>>)
          /\ Elements(saving') \cup Elements(buffer')
               = Elements(saving) \cup Elements(b)
      <4>1. CASE Flush(b)
        BY <1>1, <1>5, <4>1, FlushOK DEF SinkInv, TypeOK
      <4>2. CASE buffer' = b /\ UNCHANGED <<saving, flushing>>
        BY <1>5, <4>2 DEF SinkInv, TypeOK
      <4>3. QED BY <3>1, <4>1, <4>2
    <3>3. Accepted' \subseteq Accepted \cup {n}
      BY <1>1, <3>1 DEF Accepted
    <3>4. dropped' \subseteq 1..n
      BY <1>1, <3>1 DEF SinkInv, TypeOK
    <3>5. QED BY <1>3, <3>2, <3>3, <3>4 DEF SinkInv, MemoryInv
  <2>3. QED BY <2>1, <2>2
<1>7. TypeOK'
  BY <1>1, <1>6 DEF SinkInv, TypeOK, Memory
<1>8. MemoryInv'
  BY <1>1, <1>6 DEF MemoryInv, Memory
<1>9. StoredInOrder'
  <2>1. SUFFICES ASSUME NEW e \in table, NEW f \in Accepted', f < e
                 PROVE  f \in table
    BY <1>1 DEF StoredInOrder
  <2>2. e \in 1..received
    BY DEF SinkInv, TypeOK
  <2>3. f \in 1..n /\ f # n
    BY <1>1, <2>1, <2>2 DEF Accepted
  <2>4. f \in 1..received
    BY <1>1, <2>3
  <2>5. f \notin dropped
    BY <2>1 DEF Accepted, Receive
  <2>6. QED BY <2>1, <2>4, <2>5 DEF Accepted, SinkInv, StoredInOrder
<1>10. QED BY <1>7, <1>8, <1>9 DEF SinkInv

LEMMA SinkFlush == SinkInv /\ (Tick \/ Shutdown) => SinkInv'
<1> SUFFICES ASSUME SinkInv, Tick \/ Shutdown PROVE SinkInv'
  OBVIOUS
<1>1. /\ Flush(buffer)
      /\ UNCHANGED <<received, table, dropped, faults>>
      /\ phase' \in {"running", "draining", "drained"}
      /\ phase' = "drained" => ~flushing /\ buffer = <<>>
  BY DEF Tick, Shutdown
<1>2. Memory(received, saving, buffer) /\ received \in Nat
  BY DEF SinkInv, TypeOK, MemoryInv, Memory
<1>3. /\ Memory(received, saving', buffer')
      /\ flushing' \in BOOLEAN /\ (flushing' <=> saving' # <<>>)
      /\ Elements(saving') \cup Elements(buffer')
           = Elements(saving) \cup Elements(buffer)
  BY <1>1, <1>2, FlushOK DEF SinkInv, TypeOK
<1>4. phase' = "drained" => saving' = <<>> /\ buffer' = <<>>
  BY <1>1 DEF Flush, SinkInv, TypeOK
<1>5. Accepted' = Accepted
  BY <1>1 DEF Accepted
<1>6. TypeOK'
  BY <1>1, <1>3 DEF SinkInv, TypeOK, Memory
<1>7. MemoryInv'
  BY <1>1, <1>3, <1>4, <1>5 DEF SinkInv, MemoryInv, Memory
<1>8. StoredInOrder'
  BY <1>1, <1>5 DEF SinkInv, StoredInOrder
<1>9. QED BY <1>6, <1>7, <1>8 DEF SinkInv

(* The batch in flight may be stored: nothing accepted before it is left.  *)
LEMMA StoreBatch ==
    ASSUME SinkInv, NEW e \in table \cup Elements(saving),
           NEW f \in Accepted, f < e
    PROVE  f \in table \cup Elements(saving)
<1>1. CASE e \in table
  BY <1>1 DEF SinkInv, StoredInOrder
<1>2. CASE e \in Elements(saving)
  <2>1. e \in 1..received /\ f \in 1..received
    BY <1>2, ElementsOf DEF SinkInv, TypeOK, Accepted
  <2>2. f \notin Elements(buffer)
    BY <1>2, <2>1 DEF SinkInv, MemoryInv
  <2>3. QED BY <2>2 DEF SinkInv, MemoryInv
<1>3. QED BY <1>1, <1>2

LEMMA SinkSave == SinkInv /\ (SaveSucceeds \/ SaveFails) => SinkInv'
<1> SUFFICES ASSUME SinkInv, SaveSucceeds \/ SaveFails PROVE SinkInv'
  OBVIOUS
<1>1. /\ UNCHANGED <<received, dropped>>
      /\ table' = table \/ table' = table \cup Elements(saving)
      /\ faults \in Nat /\ received \in Nat
      /\ faults' = faults \/ faults' = faults + 1
      /\ phase' \in {"running", "draining", "drained", "failed"}
      /\ Memory(received, saving, buffer)
  BY DEF SaveSucceeds, SaveFails, Elements, SinkInv, TypeOK, MemoryInv, Memory
<1>2. Accepted' = Accepted
  BY <1>1 DEF Accepted
<1>3. Elements(saving) \subseteq 1..received
  BY <1>1, ElementsOf DEF Memory
<1>4. table' \subseteq 1..received
  BY <1>1, <1>3 DEF SinkInv, TypeOK
<1>5. StoredInOrder'
  BY <1>1, <1>2, StoreBatch DEF StoredInOrder, SinkInv
<1>6. <<>> \in Seq(1..received)
  OBVIOUS
<1>7. /\ Memory(received, saving', buffer')
      /\ flushing' \in BOOLEAN /\ (flushing' <=> saving' # <<>>)
      /\ Accepted \subseteq table' \cup Elements(saving') \cup Elements(buffer')
      /\ phase' = "drained" => saving' = <<>> /\ buffer' = <<>>
  <2>1. CASE SaveSucceeds
    <3>1. table' = table \cup Elements(saving)
      BY <2>1 DEF SaveSucceeds, Elements
    <3>2. Accepted \subseteq table' \cup Elements(buffer)
      BY <3>1 DEF SinkInv, MemoryInv
    <3>3. CASE phase = "draining" /\ buffer # <<>>
      <4>1. /\ saving' = buffer /\ buffer' = <<>>
            /\ flushing' = TRUE /\ phase' = "draining"
        BY <2>1, <3>3 DEF SaveSucceeds, SinkInv, TypeOK
      <4>2. QED BY <1>1, <1>6, <3>2, <3>3, <4>1, EmptyElements DEF Memory
    <3>4. CASE ~(phase = "draining" /\ buffer # <<>>)
      <4>1. /\ saving' = <<>> /\ flushing' = FALSE /\ buffer' = buffer
            /\ phase' = "drained" => buffer = <<>>
        BY <2>1, <3>4 DEF SaveSucceeds, SinkInv, TypeOK, MemoryInv
      <4>2. QED BY <1>1, <1>6, <3>2, <4>1, EmptyElements DEF Memory
    <3>5. QED BY <3>3, <3>4
  <2>2. CASE SaveFails
    <3>1. /\ buffer' = saving \o buffer /\ saving' = <<>> /\ flushing' = FALSE
          /\ phase' # "drained"
      BY <2>2 DEF SaveFails, SinkInv, TypeOK, MemoryInv
    <3>2. /\ buffer' \in Seq(1..received) /\ Increasing(buffer')
          /\ Elements(buffer') = Elements(saving) \cup Elements(buffer)
      BY <1>1, <3>1, PutBack DEF Memory
    <3>3. Memory(received, saving', buffer')
      BY <1>6, <3>1, <3>2, EmptyElements DEF Memory
    <3>4. Accepted \subseteq table' \cup Elements(saving') \cup Elements(buffer')
      BY <1>1, <3>2 DEF SinkInv, MemoryInv
    <3>5. QED BY <3>1, <3>3, <3>4
  <2>3. QED BY <2>1, <2>2
<1>8. TypeOK'
  BY <1>1, <1>4, <1>7 DEF TypeOK, Memory, SinkInv
<1>9. MemoryInv'
  BY <1>2, <1>7 DEF MemoryInv, Memory
<1>10. QED BY <1>5, <1>8, <1>9 DEF SinkInv

LEMMA SinkInvariant == Spec => []SinkInv
<1>1. SinkInv /\ [Next]_vars => SinkInv'
  <2>1. SinkInv /\ UNCHANGED vars => SinkInv'
    BY DEF vars, SinkInv, TypeOK, MemoryInv, StoredInOrder, Accepted
  <2>2. QED BY <2>1, SinkReceive, SinkFlush, SinkSave DEF Next
<1>2. QED BY <1>1, SinkInit, PTL DEF Spec

-----------------------------------------------------------------------------
(* A batch is in flight exactly while a flush is in progress, and only     *)
(* received events are kept, stored or dropped.                            *)
THEOREM SinkTypes == Spec => []TypeOK
BY SinkInvariant, PTL DEF SinkInv

(* Events reach the table in the order of receipt, however saves fail and  *)
(* whatever arrives in the meantime.                                       *)
THEOREM OrderKept == Spec => []StoredInOrder
BY SinkInvariant, PTL DEF SinkInv

(* A shutdown that reports success has lost no accepted event.             *)
THEOREM DrainLosesNothing == Spec => []DrainedIsComplete
<1>1. SinkInv => DrainedIsComplete
  BY EmptyElements DEF SinkInv, MemoryInv, DrainedIsComplete
<1>2. QED BY <1>1, SinkInvariant, PTL
=============================================================================
