--------------------------- MODULE CommandsProofs ---------------------------
(***************************************************************************)
(* What holds of the calls and the ordered ingress for any commands,       *)
(* requests, rules, partitions, instances, subscribers and bounds.         *)
(***************************************************************************)
EXTENDS Commands, TLAPS

-----------------------------------------------------------------------------
(* The inductive invariant.  A command is in the stream of its partition   *)
(* and nowhere else.                                                       *)
Keyed == \A p \in Partitions : \A i \in 1..Len(stream[p]) :
             PartitionOf[stream[p][i]] = p

(* No command is in its stream twice.                                      *)
Distinct == \A p \in Partitions : \A i, j \in 1..Len(stream[p]) :
                stream[p][i] = stream[p][j] => i = j

(* A message that is pending is one of the stream.                         *)
Pending == \A p \in Partitions :
               consumer[p].state # "free" => consumer[p].at >= 1

(* Everything a consumer is done with was settled.                         *)
Progress ==
    \A p \in Partitions : \A i \in 1..Len(stream[p]) :
        \/ i < consumer[p].at
        \/ i = consumer[p].at /\ consumer[p].state = "free"
        => stream[p][i] \in Settled

(* Some handler has been called for the command.                           *)
Begun(c) == \/ \E r \in running : r.command = c
            \/ \E s \in Subscribers : <<c, s>> \in handled

(* No handler was called for what the consumer has not come to.            *)
Reached == \A p \in Partitions : \A j \in 1..Len(stream[p]) :
               Begun(stream[p][j]) => j <= consumer[p].at

(* Nothing of the command is on another route than the ordered ingress.    *)
Unsent(c) == c \notin scheduled /\ \A s \in Subscribers : <<c, s>> \notin direct

(* A command takes one route.                                              *)
Route(c) ==
    /\ Stored(c) => /\ Ruled(c) /\ call[c] # "early"
                    /\ request[c].delayed => c \in due
    /\ call[c] = "early" => request[c].delayed
    /\ call[c] = "late" /\ request[c].operation = "add" /\ request[c].delayed
         => c \in due
    /\ call[c] # "accepted" \/ Stored(c) => Unsent(c)
    /\ call[c] = "accepted" /\ Sequenced(c) => Stored(c)
    /\ publisher[c] = "new" => ~Stored(c)
    /\ publisher[c] = "published" => call[c] = "accepted"

Routes == \A c \in Commands : Route(c)

(* No handler is called before the command is accepted or in the stream.   *)
Fresh == /\ \A r \in running : Stored(r.command)
         /\ \A c \in Commands : call[c] # "accepted" /\ ~Stored(c) => ~Begun(c)

(* In the stream, what was accepted before a call is ahead of its command. *)
Ahead(c, d) ==
    LET p == PartitionOf[c] IN
    /\ Stored(c)
    /\ \A i, j \in 1..Len(stream[p]) :
         stream[p][i] = c /\ stream[p][j] = d => i < j

CallsInOrder ==
    \A d \in Commands : \A c \in before[d] :
        /\ call[c] = "accepted"
        /\ Sequenced(c) /\ Sequenced(d) /\ PartitionOf[c] = PartitionOf[d]
             => Ahead(c, d)

CommandInv ==
    /\ CommandTypeOK /\ Keyed /\ Distinct /\ Pending /\ Progress /\ Reached
    /\ AckedWasHandled /\ Routes /\ Fresh /\ CallsInOrder

(* No two components carry the same id, the ids that the streams have seen *)
(* are those of the commands in them, and what was published is in them.   *)
Identified ==
    /\ \A c, d \in Commands :
         commandId[c] = commandId[d] /\ commandId[c] # 0 => c = d
    /\ \A c \in Commands : Stored(c) <=> commandId[c] \in seen
    /\ \A c \in Commands : publisher[c] = "published" => Stored(c)

Inv == CommandInv /\ Identified

-----------------------------------------------------------------------------
(* Type correctness.                                                       *)

LEMMA InitType == CommandInit => CommandTypeOK
<1> SUFFICES ASSUME CommandInit PROVE CommandTypeOK
  OBVIOUS
<1>1. /\ MaxDeliver \in Nat \ {0} /\ MaxStops \in Nat
      /\ Issued \in Nat /\ GivenId \in [Commands -> 0..Issued]
  BY IngressAssumption, CommandsAssumption
<1>2. \A p \in Partitions : consumer[p] = [at |-> 0, attempt |-> 0, state |-> "free"]
  BY DEF CommandInit
<1>3. consumer \in [Partitions -> [at : Nat, attempt : 0..MaxDeliver,
                                   state : {"free", "delivered", "due"}]]
  BY <1>1 DEF CommandInit
<1>4. \A p \in Partitions : stream[p] = <<>> /\ Len(stream[p]) = 0
  BY DEF CommandInit
<1>5. TypeOK
  BY <1>1, <1>2, <1>3, <1>4 DEF TypeOK, CommandInit
<1>6. QED BY <1>1, <1>5 DEF CommandTypeOK, CommandInit

(* What TypeOK says of the consumer of one partition.                      *)
ConsumerOK(k, q) ==
    /\ k \in [at : Nat, attempt : 0..MaxDeliver, state : {"free", "delivered", "due"}]
    /\ k.at <= Len(q)
    /\ k.state = "due" => k.attempt < MaxDeliver

LEMMA ConsumersOK ==
    ASSUME CommandTypeOK, NEW p \in Partitions
    PROVE  ConsumerOK(consumer[p], stream[p]) /\ stream[p] \in Seq(Commands)
BY DEF CommandTypeOK, TypeOK, ConsumerOK

(* The delivery that Deliver makes of partition p.                         *)
NextDelivery(p) ==
    LET k == consumer[p] IN
    [at |-> IF k.state = "due" THEN k.at ELSE k.at + 1,
     attempt |-> IF k.state = "due" THEN k.attempt + 1 ELSE 1,
     state |-> "delivered"]

LEMMA DeliverFacts ==
    ASSUME CommandTypeOK, Pending, NEW i \in Instances, NEW p \in Partitions,
           NEW h \in {NextDelivery(p)}, Deliver(i, p)
    PROVE  /\ h.at \in 1..Len(stream[p]) /\ h.attempt \in 1..MaxDeliver
           /\ h.state = "delivered"
           /\ h \in [at : Nat, attempt : 0..MaxDeliver,
                     state : {"free", "delivered", "due"}]
           /\ stream[p][h.at] \in Commands
           /\ consumer' = [consumer EXCEPT ![p] = h]
           /\ loop' = [loop EXCEPT ![<<i, p>>] =
                         [command |-> stream[p][h.at], attempt |-> h.attempt]]
           /\ Invoke(i, stream[p][h.at], h.attempt)
<1>1. MaxDeliver \in Nat \ {0}
  BY IngressAssumption
<1>2. /\ ConsumerOK(consumer[p], stream[p]) /\ stream[p] \in Seq(Commands)
      /\ consumer[p].state # "free" => consumer[p].at >= 1
  BY ConsumersOK DEF Pending
<1>3. /\ h.at = IF consumer[p].state = "due" THEN consumer[p].at ELSE consumer[p].at + 1
      /\ h.attempt = IF consumer[p].state = "due" THEN consumer[p].attempt + 1 ELSE 1
      /\ h.state = "delivered"
  BY DEF NextDelivery
<1>4. h.at <= Len(stream[p])
  BY <1>3 DEF Deliver
<1>5. h.at \in 1..Len(stream[p]) /\ h.attempt \in 1..MaxDeliver
  BY <1>1, <1>2, <1>3, <1>4 DEF ConsumerOK
<1>6. stream[p][h.at] \in Commands
  BY <1>2, <1>5
<1>7. h \in [at : Nat, attempt : 0..MaxDeliver, state : {"free", "delivered", "due"}]
  BY <1>1, <1>5 DEF NextDelivery
<1>8. /\ consumer' = [consumer EXCEPT ![p] = h]
      /\ loop' = [loop EXCEPT ![<<i, p>>] =
                    [command |-> stream[p][h.at], attempt |-> h.attempt]]
      /\ Invoke(i, stream[p][h.at], h.attempt)
  BY <1>3 DEF Deliver, NextDelivery
<1>9. QED BY <1>3, <1>5, <1>6, <1>7, <1>8

LEMMA InvokeType ==
    ASSUME NEW i \in Instances, NEW c \in Commands, NEW n \in 1..MaxDeliver,
           running \subseteq Invocations, faults \in Nat, Invoke(i, c, n)
    PROVE  running' \subseteq Invocations /\ faults' \in Nat
<1>1. [instance : {i}, command : {c}, attempt : {n}, by : Subscribers]
        \subseteq Invocations
  BY DEF Invocations
<1>2. QED BY <1>1 DEF Invoke, Ok, Fault

(* The parts of CommandTypeOK that no step of the ingress disturbs, and    *)
(* the others, without those of loop.                                      *)
LEMMA ServeType ==
    ASSUME CommandTypeOK,
           UNCHANGED <<stream, publisher, ids, up, calls, life>>,
           consumer' \in [Partitions -> [at : Nat, attempt : 0..MaxDeliver,
                                        state : {"free", "delivered", "due"}]],
           \A p \in Partitions : ConsumerOK(consumer'[p], stream[p]),
           loop' \in [Instances \X Partitions -> Deliveries \cup {Idle}],
           \A i \in Instances, p \in Partitions :
               loop'[<<i, p>>] # Idle => phase[i] \in {"up", "draining"} /\ p \in Consumed,
           running' \subseteq Invocations,
           handled' \subseteq Commands \X Subscribers,
           acked' \subseteq Commands, dropped' \subseteq Commands, faults' \in Nat
    PROVE  CommandTypeOK'
<1>1. TypeOK'
  BY DEF CommandTypeOK, TypeOK, ConsumerOK, ids
<1>2. QED BY <1>1 DEF CommandTypeOK, calls, life

LEMMA DeliverType ==
    ASSUME CommandTypeOK, Pending, NEW i \in Instances, NEW p \in Partitions,
           p \in Consumed, Deliver(i, p), UNCHANGED <<calls, life>>
    PROVE  CommandTypeOK'
<1>1. PICK h : h = NextDelivery(p)
  OBVIOUS
<1>2. /\ h.at \in 1..Len(stream[p]) /\ h.attempt \in 1..MaxDeliver
      /\ h.state = "delivered"
      /\ h \in [at : Nat, attempt : 0..MaxDeliver,
                state : {"free", "delivered", "due"}]
      /\ stream[p][h.at] \in Commands
      /\ consumer' = [consumer EXCEPT ![p] = h]
      /\ loop' = [loop EXCEPT ![<<i, p>>] =
                    [command |-> stream[p][h.at], attempt |-> h.attempt]]
      /\ Invoke(i, stream[p][h.at], h.attempt)
  BY <1>1, DeliverFacts
<1>3. PICK d : d = [command |-> stream[p][h.at], attempt |-> h.attempt]
  OBVIOUS
<1>4. d \in Deliveries
  BY <1>2, <1>3 DEF Deliveries
<1>5. TypeOK
  BY DEF CommandTypeOK
<1>6. /\ consumer' \in [Partitions -> [at : Nat, attempt : 0..MaxDeliver,
                                       state : {"free", "delivered", "due"}]]
      /\ \A q \in Partitions : consumer'[q] = IF q = p THEN h ELSE consumer[q]
  BY <1>2, <1>5 DEF TypeOK
<1>7. \A q \in Partitions : ConsumerOK(consumer'[q], stream[q])
  BY <1>2, <1>6, ConsumersOK DEF ConsumerOK
<1>8. loop' = [loop EXCEPT ![<<i, p>>] = d]
  BY <1>2, <1>3
<1>9. /\ loop' \in [Instances \X Partitions -> Deliveries \cup {Idle}]
      /\ \A j \in Instances, q \in Partitions :
           loop'[<<j, q>>] = IF j = i /\ q = p THEN d ELSE loop[<<j, q>>]
  BY <1>4, <1>5, <1>8 DEF TypeOK
<1>10. phase[i] \in {"up", "draining"}
  BY DEF CommandTypeOK, Deliver
<1>11. \A j \in Instances, q \in Partitions :
          loop'[<<j, q>>] # Idle => phase[j] \in {"up", "draining"} /\ q \in Consumed
  BY <1>9, <1>10 DEF CommandTypeOK
<1>12. running' \subseteq Invocations /\ faults' \in Nat
  BY <1>2, <1>5, InvokeType DEF TypeOK
<1>13. UNCHANGED <<stream, publisher, ids, up, handled, acked, dropped>>
  BY DEF Deliver
<1>14. QED BY <1>5, <1>6, <1>7, <1>9, <1>11, <1>12, <1>13, ServeType DEF TypeOK

(* A loop that becomes idle.                                               *)
LEMMA IdleType ==
    ASSUME CommandTypeOK, NEW i \in Instances, NEW p \in Partitions,
           loop' = [loop EXCEPT ![<<i, p>>] = Idle]
    PROVE  /\ loop' \in [Instances \X Partitions -> Deliveries \cup {Idle}]
           /\ \A j \in Instances, q \in Partitions :
                loop'[<<j, q>>] # Idle => phase[j] \in {"up", "draining"} /\ q \in Consumed
<1>1. loop' = [loop EXCEPT ![<<i, p>>] = Idle]
  OBVIOUS
<1>2. loop \in [Instances \X Partitions -> Deliveries \cup {Idle}]
  BY DEF CommandTypeOK, TypeOK
<1>3. /\ loop' \in [Instances \X Partitions -> Deliveries \cup {Idle}]
      /\ \A j \in Instances, q \in Partitions :
           loop'[<<j, q>>] = IF j = i /\ q = p THEN Idle ELSE loop[<<j, q>>]
  BY <1>1, <1>2
<1>4. QED BY <1>3 DEF CommandTypeOK

(* A consumer whose state changes.                                         *)
LEMMA StateType ==
    ASSUME CommandTypeOK, NEW p \in Partitions, NEW x \in {"free", "due"},
           x = "due" => consumer[p].attempt < MaxDeliver,
           consumer' = [consumer EXCEPT ![p].state = x]
    PROVE  /\ consumer' \in [Partitions -> [at : Nat, attempt : 0..MaxDeliver,
                                            state : {"free", "delivered", "due"}]]
           /\ \A q \in Partitions : ConsumerOK(consumer'[q], stream[q])
           /\ \A q \in Partitions :
                /\ consumer'[q].at = consumer[q].at
                /\ consumer'[q].state = IF q = p THEN x ELSE consumer[q].state
<1>1. consumer \in [Partitions -> [at : Nat, attempt : 0..MaxDeliver,
                                   state : {"free", "delivered", "due"}]]
  BY DEF CommandTypeOK, TypeOK
<1>2. PICK k : k = [consumer[p] EXCEPT !.state = x]
  OBVIOUS
<1>3. consumer[p] \in [at : Nat, attempt : 0..MaxDeliver,
                       state : {"free", "delivered", "due"}]
  BY <1>1
<1>4. /\ k \in [at : Nat, attempt : 0..MaxDeliver,
                state : {"free", "delivered", "due"}]
      /\ k.at = consumer[p].at /\ k.attempt = consumer[p].attempt /\ k.state = x
  BY <1>2, <1>3
<1>5. consumer' = [consumer EXCEPT ![p] = k]
  BY <1>2
<1>6. /\ consumer' \in [Partitions -> [at : Nat, attempt : 0..MaxDeliver,
                                       state : {"free", "delivered", "due"}]]
      /\ \A q \in Partitions : consumer'[q] = IF q = p THEN k ELSE consumer[q]
  BY <1>1, <1>4, <1>5
<1>7. QED BY <1>4, <1>6, ConsumersOK DEF ConsumerOK

LEMMA CurrentType ==
    ASSUME CommandTypeOK, Pending, NEW p \in Partitions, consumer[p].state # "free"
    PROVE  consumer[p].at \in 1..Len(stream[p]) /\ Current(p) \in Commands
<1>1. ConsumerOK(consumer[p], stream[p]) /\ stream[p] \in Seq(Commands)
  BY ConsumersOK
<1>2. QED BY <1>1 DEF Pending, ConsumerOK, Current

LEMMA TimesOutType ==
    ASSUME CommandTypeOK, NEW i \in Instances, NEW p \in Partitions,
           ReplayTimesOut(i, p), UNCHANGED <<calls, life>>
    PROVE  CommandTypeOK'
<1>1. /\ loop' = [loop EXCEPT ![<<i, p>>] = Idle]
      /\ faults' = faults \/ faults' = faults + 1
      /\ UNCHANGED <<stream, publisher, ids, consumer, up, running, handled, acked, dropped>>
  BY DEF ReplayTimesOut, Ok, Fault
<1>2. TypeOK
  BY DEF CommandTypeOK
<1>3. faults' \in Nat
  BY <1>1, <1>2 DEF TypeOK
<1>4. \A q \in Partitions : ConsumerOK(consumer'[q], stream[q])
  BY <1>1, ConsumersOK
<1>5. QED BY <1>1, <1>2, <1>3, <1>4, IdleType, ServeType DEF TypeOK

LEMMA ExpiresType ==
    ASSUME CommandTypeOK, Pending, NEW p \in Partitions, AckWaitExpires(p),
           UNCHANGED <<calls, life>>
    PROVE  CommandTypeOK'
<1>1. /\ consumer[p].state = "delivered"
      /\ UNCHANGED <<stream, publisher, ids, loop, up, running, handled, acked>>
      /\ faults' = faults \/ faults' = faults + 1
  BY DEF AckWaitExpires, Ok, Fault
<1>2. TypeOK
  BY DEF CommandTypeOK
<1>3. Current(p) \in Commands
  BY <1>1, CurrentType
<1>4. dropped' \subseteq Commands /\ faults' \in Nat
  BY <1>1, <1>2, <1>3 DEF AckWaitExpires, TypeOK
<1>5. PICK x \in {"free", "due"} :
        /\ consumer' = [consumer EXCEPT ![p].state = x]
        /\ x = "due" => consumer[p].attempt < MaxDeliver
  BY DEF AckWaitExpires
<1>6. /\ consumer' \in [Partitions -> [at : Nat, attempt : 0..MaxDeliver,
                                       state : {"free", "delivered", "due"}]]
      /\ \A q \in Partitions : ConsumerOK(consumer'[q], stream[q])
  BY <1>5, StateType
<1>7. /\ loop' \in [Instances \X Partitions -> Deliveries \cup {Idle}]
      /\ \A j \in Instances, q \in Partitions :
           loop'[<<j, q>>] # Idle =>
             phase[j] \in {"up", "draining"} /\ q \in Consumed
  BY <1>1, <1>2 DEF TypeOK, CommandTypeOK
<1>8. QED BY <1>1, <1>2, <1>4, <1>6, <1>7, ServeType DEF TypeOK

(* What an acknowledgement may change.                                     *)
LEMMA AckFacts ==
    ASSUME CommandTypeOK, NEW c \in Commands,
           Ack(c) \/ UNCHANGED <<consumer, acked>>
    PROVE  LET p == PartitionOf[c] IN
           \/ UNCHANGED <<consumer, acked>>
           \/ /\ consumer[p].state # "free" /\ Current(p) = c
              /\ consumer' = [consumer EXCEPT ![p].state = "free"]
              /\ acked' = acked \cup {c}
BY DEF Ack

LEMMA ReplyFacts ==
    ASSUME NEW r, Reply(r)
    PROVE  /\ running' = running \ {r}
           /\ handled' = handled \cup {<<r.command, r.by>>}
           /\ UNCHANGED <<stream, publisher, ids, up, dropped>>
           /\ faults' = faults \/ faults' = faults + 1
           /\ \/ UNCHANGED loop
              \/ /\ Awaits(r.instance, r)
                 /\ loop' = [loop EXCEPT
                               ![<<r.instance, PartitionOf[r.command]>>] = Idle]
           /\ Ack(r.command) \/ UNCHANGED <<consumer, acked>>
BY DEF Reply, Ok, Fault

LEMMA ReplyType ==
    ASSUME CommandTypeOK, NEW r \in running, Reply(r), UNCHANGED <<calls, life>>
    PROVE  CommandTypeOK'
<1>1. TypeOK
  BY DEF CommandTypeOK
<1>2. /\ r.instance \in Instances /\ r.command \in Commands
      /\ r.by \in Subscribers
      /\ PartitionOf[r.command] \in Partitions
  BY <1>1, IngressAssumption DEF TypeOK, Invocations
<1>3. /\ running' = running \ {r}
      /\ handled' = handled \cup {<<r.command, r.by>>}
      /\ UNCHANGED <<stream, publisher, ids, up, dropped>>
      /\ faults' = faults \/ faults' = faults + 1
  BY ReplyFacts
<1>4. /\ running' \subseteq Invocations /\ faults' \in Nat
      /\ handled' \subseteq Commands \X Subscribers
  BY <1>1, <1>2, <1>3 DEF TypeOK
<1>5. /\ loop' \in [Instances \X Partitions -> Deliveries \cup {Idle}]
      /\ \A j \in Instances, q \in Partitions :
           loop'[<<j, q>>] # Idle =>
             phase[j] \in {"up", "draining"} /\ q \in Consumed
  <2>1. CASE UNCHANGED loop
    BY <1>1, <2>1 DEF TypeOK, CommandTypeOK
  <2>2. CASE loop' = [loop EXCEPT
                        ![<<r.instance, PartitionOf[r.command]>>] = Idle]
    BY <1>2, <2>2, IdleType
  <2>3. QED BY <2>1, <2>2, ReplyFacts
<1>6. /\ consumer' \in [Partitions -> [at : Nat, attempt : 0..MaxDeliver,
                                       state : {"free", "delivered", "due"}]]
      /\ \A q \in Partitions : ConsumerOK(consumer'[q], stream[q])
      /\ acked' \subseteq Commands
  <2>1. CASE UNCHANGED <<consumer, acked>>
    BY <1>1, <2>1, ConsumersOK DEF TypeOK
  <2>2. CASE /\ consumer' = [consumer EXCEPT ![PartitionOf[r.command]].state = "free"]
             /\ acked' = acked \cup {r.command}
    <3>1. acked' \subseteq Commands
      BY <1>1, <1>2, <2>2 DEF TypeOK
    <3>2. PICK x : x = "free"
      OBVIOUS
    <3>3. consumer' = [consumer EXCEPT ![PartitionOf[r.command]].state = x]
      BY <2>2, <3>2
    <3>4. x \in {"free", "due"} /\ x # "due"
      BY <3>2
    <3>5. QED BY <1>2, <3>1, <3>3, <3>4, StateType
  <2>3. QED BY <1>2, <2>1, <2>2, AckFacts, ReplyFacts
<1>7. dropped' \subseteq Commands
  BY <1>1, <1>3 DEF TypeOK
<1>8. UNCHANGED <<stream, publisher, ids, up, calls, life>>
  BY <1>3
<1>9. QED BY <1>4, <1>5, <1>6, <1>7, <1>8, ServeType

LEMMA DiesType ==
    ASSUME CommandTypeOK, NEW r \in running, HandlerDies(r),
           UNCHANGED <<calls, life>>
    PROVE  CommandTypeOK'
<1>1. TypeOK
  BY DEF CommandTypeOK
<1>2. running' \subseteq Invocations /\ faults' \in Nat
  BY <1>1 DEF HandlerDies, TypeOK, Fault
<1>3. UNCHANGED <<stream, publisher, ids, consumer, loop, up, handled, acked, dropped>>
  BY DEF HandlerDies
<1>4. TypeOK'
  BY <1>1, <1>2, <1>3 DEF TypeOK, ids
<1>5. QED BY <1>3, <1>4 DEF CommandTypeOK, calls, life

(* The steps that only start or end an instance.                           *)
LifeStep(i) ==
    \/ RegisterRules(i) \/ EnsureFails(i)
    \/ StartConsumerLoops(i) \/ BeginShutdown(i) \/ FinishShutdown(i) \/ Crash(i)

LEMMA LifeFacts ==
    ASSUME NEW i \in Instances, LifeStep(i)
    PROVE  /\ UNCHANGED <<stream, publisher, ids, consumer, running, handled, acked,
                          dropped>>
           /\ UNCHANGED calls
           /\ UNCHANGED faults \/ Fault
           /\ UNCHANGED loop \/ Crash(i)
BY DEF LifeStep, RegisterRules, EnsureFails, StartConsumerLoops, BeginShutdown,
       FinishShutdown, Crash, Stop, vars

LEMMA LifeType ==
    ASSUME CommandTypeOK, NEW i \in Instances, LifeStep(i)
    PROVE  CommandTypeOK'
<1>1. /\ UNCHANGED <<stream, publisher, ids, consumer, running, handled, acked, dropped>>
      /\ UNCHANGED calls
      /\ UNCHANGED faults \/ Fault
      /\ UNCHANGED loop \/ Crash(i)
  BY LifeFacts
<1>2. TypeOK
  BY DEF CommandTypeOK
<1>3. faults' \in Nat
  BY <1>1, <1>2 DEF TypeOK, Fault
<1>4. /\ loop' \in [Instances \X Partitions -> Deliveries \cup {Idle}]
      /\ \A j \in Instances, q \in Partitions :
           loop'[<<j, q>>] = loop[<<j, q>>]
             \/ loop'[<<j, q>>] = Idle
  <2>1. CASE UNCHANGED loop
    BY <1>2, <2>1 DEF TypeOK
  <2>2. CASE Crash(i)
    BY <1>2, <2>2 DEF TypeOK, Crash
  <2>3. QED BY <1>1, <2>1, <2>2
<1>5. /\ phase \in [Instances -> {"down", "starting", "up", "draining"}]
      /\ up = {j \in Instances : phase[j] = "up"}
      /\ \A j \in Instances, q \in Partitions :
           loop[<<j, q>>] # Idle => phase[j] \in {"up", "draining"} /\ q \in Consumed
      /\ stops \in 0..MaxStops /\ MaxStops \in Nat
  BY CommandsAssumption DEF CommandTypeOK
<1>6. /\ phase' \in [Instances -> {"down", "starting", "up", "draining"}]
      /\ \A j \in Instances \ {i} : phase'[j] = phase[j]
      /\ up' = IF phase'[i] = "up" THEN up \cup {i} ELSE up \ {i}
      /\ stops' \in 0..MaxStops
      /\ phase'[i] \in {"up", "draining"} \/ phase[i] \notin {"up", "draining"}
           \/ \A q \in Partitions : loop'[<<i, q>>] = Idle
  <2>1. CASE RegisterRules(i)
    BY <1>5, <2>1 DEF RegisterRules, vars
  <2>2. CASE EnsureFails(i)
    BY <1>5, <2>2 DEF EnsureFails
  <2>3. CASE StartConsumerLoops(i)
    BY <1>5, <2>3 DEF StartConsumerLoops
  <2>4. CASE BeginShutdown(i)
    <3>1. /\ up' = up \ {i} /\ stops' = stops + 1 /\ stops < MaxStops
          /\ phase' = [phase EXCEPT ![i] = "draining"]
      BY <2>4 DEF BeginShutdown, Stop
    <3>2. stops' \in 0..MaxStops
      BY <1>5, <3>1
    <3>3. QED BY <1>5, <3>1, <3>2
  <2>5. CASE FinishShutdown(i)
    BY <1>5, <2>5 DEF FinishShutdown, vars
  <2>6. CASE Crash(i)
    <3>1. /\ up' = up \ {i} /\ UNCHANGED stops
          /\ phase' = [phase EXCEPT ![i] = "down"]
          /\ loop' = [ip \in DOMAIN loop |->
                        IF ip[1] = i THEN Idle ELSE loop[ip]]
      BY <2>6 DEF Crash
    <3>2. \A q \in Partitions : loop'[<<i, q>>] = Idle
      BY <1>2, <3>1 DEF TypeOK
    <3>3. QED BY <1>5, <3>1, <3>2
  <2>7. QED BY <2>1, <2>2, <2>3, <2>4, <2>5, <2>6 DEF LifeStep
<1>7. up' = {j \in Instances : phase'[j] = "up"}
  BY <1>5, <1>6
<1>8. \A j \in Instances, q \in Partitions :
        loop'[<<j, q>>] # Idle =>
          phase'[j] \in {"up", "draining"} /\ q \in Consumed
  <2>1. SUFFICES ASSUME NEW j \in Instances, NEW q \in Partitions,
                        loop'[<<j, q>>] # Idle
                 PROVE  phase'[j] \in {"up", "draining"} /\ q \in Consumed
    OBVIOUS
  <2>2. phase[j] \in {"up", "draining"} /\ q \in Consumed
    BY <1>4, <1>5, <2>1
  <2>3. QED BY <1>6, <2>1, <2>2
<1>9. up' \subseteq Instances
  BY <1>7
<1>10. TypeOK'
  BY <1>1, <1>2, <1>3, <1>4, <1>9 DEF TypeOK, ids
<1>11. QED BY <1>1, <1>6, <1>7, <1>8, <1>10 DEF CommandTypeOK, calls

-----------------------------------------------------------------------------
(* The steps of a call, but for the publication to the ordered ingress.    *)
CallStep(c) ==
    \/ Forbid(c) \/ ClearField(c) \/ EmitDelayed(c) \/ Refuse(c)
    \/ EmitAdded(c) \/ EmitUpdated(c) \/ EmitSucceeded(c)
    \/ Elapse(c) \/ FireSchedule(c)

LEMMA PlainFacts ==
    ASSUME NEW c, EmitPlain(c)
    PROVE  /\ call[c] = "late"
           /\ call' = [call EXCEPT ![c] = "accepted"]
           /\ Spread(c)
           /\ UNCHANGED <<stream, publisher, ids, consumer, loop, up, running, handled,
                          acked, dropped, request, before, due, scheduled, life>>
BY DEF EmitPlain

LEMMA CallFacts ==
    ASSUME NEW c \in Commands, CallStep(c)
    PROVE  /\ UNCHANGED <<stream, publisher, ids, consumer, loop, up, running, handled,
                          acked, dropped, request, life>>
           /\ UNCHANGED faults \/ Fault
BY DEF CallStep, Forbid, ClearField, EmitDelayed, Refuse, EmitAdded, EmitUpdated,
       EmitSucceeded, EmitPlain, Elapse, FireSchedule, Spread, Ok, vars

LEMMA SpreadType ==
    ASSUME CommandTypeOK, NEW c \in Commands, Spread(c)
    PROVE  direct' \subseteq Commands \X Subscribers /\ lost' \subseteq Commands
BY DEF CommandTypeOK, Spread

LEMMA CallType ==
    ASSUME CommandTypeOK, NEW c \in Commands, CallStep(c)
    PROVE  CommandTypeOK'
<1>1. /\ UNCHANGED <<stream, publisher, ids, consumer, loop, up, running, handled,
                     acked, dropped, request, life>>
      /\ UNCHANGED faults \/ Fault
  BY CallFacts
<1>2. faults' \in Nat
  BY <1>1 DEF CommandTypeOK, TypeOK, Fault
<1>3. TypeOK'
  BY <1>1, <1>2 DEF CommandTypeOK, TypeOK, ids
<1>4. /\ call \in [Commands -> {"new", "early", "late", "refused", "accepted"}]
      /\ before \in [Commands -> SUBSET Commands]
      /\ due \subseteq Commands /\ scheduled \subseteq Commands
      /\ direct \subseteq Commands \X Subscribers /\ lost \subseteq Commands
  BY DEF CommandTypeOK
<1>5. /\ call' \in [Commands -> {"new", "early", "late", "refused", "accepted"}]
      /\ before' \in [Commands -> SUBSET Commands]
      /\ due' \subseteq Commands /\ scheduled' \subseteq Commands
      /\ direct' \subseteq Commands \X Subscribers /\ lost' \subseteq Commands
  <2>1. CASE Forbid(c) \/ Refuse(c)
    BY <1>4, <2>1 DEF Forbid, Refuse
  <2>2. CASE ClearField(c)
    <3>1. UNCHANGED <<due, scheduled, direct, lost>>
      BY <2>2 DEF ClearField
    <3>2. call' \in [Commands -> {"new", "early", "late", "refused", "accepted"}]
      BY <1>4, <2>2 DEF ClearField
    <3>3. before' \in [Commands -> SUBSET Commands]
      <4>1. {d \in Commands : call[d] = "accepted"} \in SUBSET Commands
        OBVIOUS
      <4>2. QED BY <1>4, <2>2, <4>1 DEF ClearField
    <3>4. QED BY <1>4, <3>1, <3>2, <3>3
  <2>3. CASE EmitDelayed(c)
    BY <1>4, <2>3 DEF EmitDelayed
  <2>4. CASE EmitPlain(c)
    <3>1. /\ call' = [call EXCEPT ![c] = "accepted"]
          /\ Spread(c) /\ UNCHANGED <<before, due, scheduled>>
      BY <2>4, PlainFacts
    <3>2. QED BY <1>4, <3>1, SpreadType
  <2>5. CASE Elapse(c)
    BY <1>4, <2>5 DEF Elapse
  <2>6. CASE FireSchedule(c)
    <3>1. Spread(c) /\ scheduled' = scheduled \ {c} /\ UNCHANGED <<call, before, due>>
      BY <2>6 DEF FireSchedule
    <3>2. QED BY <1>4, <3>1, SpreadType
  <2>7. QED BY <2>1, <2>2, <2>3, <2>4, <2>5, <2>6
            DEF CallStep, EmitAdded, EmitUpdated, EmitSucceeded
<1>6. QED BY <1>1, <1>3, <1>5 DEF CommandTypeOK, life

LEMMA DirectType ==
    ASSUME CommandTypeOK, NEW c \in Commands, NEW s \in Subscribers,
           HandleDirect(c, s)
    PROVE  CommandTypeOK'
<1>1. TypeOK
  BY DEF CommandTypeOK
<1>2. handled' \subseteq Commands \X Subscribers /\ faults' \in Nat
  BY <1>1 DEF HandleDirect, TypeOK, Ok, Fault
<1>3. UNCHANGED <<stream, publisher, ids, consumer, loop, up, running, acked, dropped>>
  BY DEF HandleDirect
<1>4. TypeOK'
  BY <1>1, <1>2, <1>3 DEF TypeOK, ids
<1>5. direct' \subseteq Commands \X Subscribers /\ lost' \subseteq Commands
  BY DEF CommandTypeOK, HandleDirect
<1>6. QED BY <1>4, <1>5 DEF CommandTypeOK, HandleDirect, life

-----------------------------------------------------------------------------
(* The publication to the ordered ingress.                                 *)

(* The command is added at the end of the stream of its partition.         *)
Grows(c) ==
    LET p == PartitionOf[c]  n == Len(stream[p]) IN
    /\ ~Stored(c)
    /\ stream' \in [Partitions -> Seq(Commands)]
    /\ \A q \in Partitions \ {p} : stream'[q] = stream[q]
    /\ Len(stream'[p]) = n + 1 /\ stream'[p][n + 1] = c
    /\ \A i \in 1..n : stream'[p][i] = stream[p][i] /\ stream[p][i] # c

LEMMA AppendFacts ==
    ASSUME NEW T, NEW q \in Seq(T), NEW x \in T, NEW r, r = Append(q, x)
    PROVE  /\ r \in Seq(T) /\ Len(q) \in Nat
           /\ Len(r) = Len(q) + 1 /\ r[Len(q) + 1] = x
           /\ \A i \in 1..Len(q) : r[i] = q[i]
OBVIOUS

(* The id under which a command is published is known to the stream just   *)
(* when the command is in it.                                              *)
LEMMA KnownId ==
    ASSUME CommandTypeOK, Identified, NEW c \in Commands
    PROVE  /\ CommandId(c) \in seen <=> Stored(c)
           /\ \A d \in Commands \ {c} : commandId[d] # CommandId(c)
           /\ drawn \in Nat /\ CommandId(c) \in 1..(drawn + 1)
           /\ commandId[c] # 0 => CommandId(c) <= drawn
<1>1. /\ drawn \in Nat /\ seen \subseteq 1..drawn
      /\ \A d \in Commands : commandId[d] \in 0..drawn
  BY DEF CommandTypeOK, TypeOK
<1>2. CASE commandId[c] # 0
  BY <1>1, <1>2 DEF CommandId, Identified
<1>3. CASE commandId[c] = 0
  <2>1. CommandId(c) = drawn + 1
    BY <1>3 DEF CommandId
  <2>2. ~Stored(c)
    BY <1>1, <1>3 DEF Identified
  <2>3. QED BY <1>1, <1>3, <2>1, <2>2
<1>4. QED BY <1>2, <1>3

LEMMA PublishFacts ==
    ASSUME CommandTypeOK, Identified, NEW c \in Commands, PublishCommand(c)
    PROVE  /\ call[c] = "late" /\ Ruled(c)
           /\ UNCHANGED stream \/ Grows(c)
           /\ publisher' \in [Commands -> {"new", "published", "failed"}]
           /\ call' \in [Commands -> {"new", "early", "late", "refused", "accepted"}]
           /\ \A d \in Commands \ {c} : publisher'[d] = publisher[d] /\ call'[d] = call[d]
           /\ \/ publisher'[c] = "published" /\ call'[c] = "accepted"
                   /\ (Stored(c) \/ Grows(c))
              \/ publisher'[c] = "failed" /\ call'[c] = "new"
           /\ \/ seen' = seen \cup {CommandId(c)} /\ (Stored(c) \/ Grows(c))
              \/ UNCHANGED <<stream, seen>>
           /\ UNCHANGED faults \/ Fault
           /\ UNCHANGED <<consumer, loop, up, running, handled, acked, dropped>>
           /\ UNCHANGED <<request, before, due, scheduled, direct, lost, life>>
<1>1. /\ call[c] = "late" /\ Ruled(c) /\ Publish(c)
      /\ call' = [call EXCEPT ![c] = IF publisher'[c] = "published"
                                     THEN "accepted" ELSE "new"]
      /\ UNCHANGED <<request, before, due, scheduled, direct, lost, life>>
  BY DEF PublishCommand
<1>2. /\ \/ /\ Store(c, CommandId(c))
            /\ publisher' = [publisher EXCEPT ![c] = "published"]
         \/ /\ Store(c, CommandId(c)) \/ UNCHANGED <<stream, seen>>
            /\ publisher' = [publisher EXCEPT ![c] = "failed"]
      /\ UNCHANGED faults \/ Fault
      /\ UNCHANGED <<consumer, loop, up, running, handled, acked, dropped>>
  BY <1>1 DEF Publish, Ok
<1>3. /\ publisher \in [Commands -> {"new", "published", "failed"}]
      /\ call \in [Commands -> {"new", "early", "late", "refused", "accepted"}]
  BY DEF CommandTypeOK, TypeOK
<1>4. ASSUME ~Stored(c), Store(c, CommandId(c)) PROVE Grows(c)
  <2>1. stream \in [Partitions -> Seq(Commands)] /\ PartitionOf[c] \in Partitions
    BY IngressAssumption DEF CommandTypeOK, TypeOK
  <2>2. PICK p \in Partitions : p = PartitionOf[c]
    BY <2>1
  <2>3. PICK r : r = Append(stream[p], c)
    OBVIOUS
  <2>4. stream' = [stream EXCEPT ![p] = r]
    BY <1>4, <2>2, <2>3, KnownId DEF Store
  <2>5. stream[p] \in Seq(Commands)
    BY <2>1
  <2>6. /\ r \in Seq(Commands) /\ Len(stream[p]) \in Nat
        /\ Len(r) = Len(stream[p]) + 1 /\ r[Len(stream[p]) + 1] = c
        /\ \A i \in 1..Len(stream[p]) : r[i] = stream[p][i]
    BY <2>3, <2>5, AppendFacts
  <2>7. /\ stream' \in [Partitions -> Seq(Commands)]
        /\ \A q \in Partitions \ {p} : stream'[q] = stream[q]
        /\ stream'[p] = r
    BY <2>1, <2>4, <2>6
  <2>8. \A i \in 1..Len(stream[p]) : stream[p][i] # c
    BY <1>4, <2>2 DEF Stored
  <2>9. QED BY <1>4, <2>2, <2>6, <2>7, <2>8 DEF Grows
<1>5. ASSUME Store(c, CommandId(c))
      PROVE  /\ seen' = seen \cup {CommandId(c)}
             /\ (Stored(c) /\ UNCHANGED stream) \/ Grows(c)
  BY <1>4, <1>5, KnownId DEF Store
<1>6. /\ publisher' \in [Commands -> {"new", "published", "failed"}]
      /\ call' \in [Commands -> {"new", "early", "late", "refused", "accepted"}]
      /\ \A d \in Commands \ {c} : publisher'[d] = publisher[d] /\ call'[d] = call[d]
      /\ \/ publisher'[c] = "published" /\ call'[c] = "accepted"
              /\ Store(c, CommandId(c))
         \/ publisher'[c] = "failed" /\ call'[c] = "new"
  BY <1>1, <1>2, <1>3
<1>7. QED BY <1>1, <1>2, <1>5, <1>6

LEMMA PublishType ==
    ASSUME CommandTypeOK, Identified, NEW c \in Commands, PublishCommand(c)
    PROVE  CommandTypeOK'
<1>1. /\ UNCHANGED stream \/ Grows(c)
      /\ publisher' \in [Commands -> {"new", "published", "failed"}]
      /\ call' \in [Commands -> {"new", "early", "late", "refused", "accepted"}]
      /\ UNCHANGED faults \/ Fault
      /\ UNCHANGED <<consumer, loop, up, running, handled, acked, dropped>>
      /\ UNCHANGED <<request, before, due, scheduled, direct, lost, life>>
  BY PublishFacts
<1>2. TypeOK
  BY DEF CommandTypeOK
<1>3. faults' \in Nat
  BY <1>1, <1>2 DEF TypeOK, Fault
<1>4. PartitionOf[c] \in Partitions
  BY IngressAssumption
<1>5. /\ stream' \in [Partitions -> Seq(Commands)]
      /\ \A q \in Partitions : Len(stream[q]) <= Len(stream'[q])
  <2>1. \A q \in Partitions : Len(stream[q]) \in Nat
    BY <1>2 DEF TypeOK
  <2>2. CASE UNCHANGED stream
    BY <1>2, <2>1, <2>2 DEF TypeOK
  <2>3. CASE Grows(c)
    <3>1. PICK p \in Partitions : p = PartitionOf[c]
      BY <1>4
    <3>2. /\ stream' \in [Partitions -> Seq(Commands)]
          /\ Len(stream'[p]) = Len(stream[p]) + 1
          /\ \A q \in Partitions \ {p} : stream'[q] = stream[q]
      BY <2>3, <3>1 DEF Grows
    <3>3. Len(stream[p]) <= Len(stream'[p])
      BY <2>1, <3>2
    <3>4. \A q \in Partitions \ {p} : Len(stream[q]) <= Len(stream'[q])
      BY <2>1, <3>2
    <3>5. QED BY <3>2, <3>3, <3>4
  <2>4. QED BY <1>1, <2>2, <2>3
<1>6. \A q \in Partitions : consumer[q].at <= Len(stream'[q])
  <2>1. SUFFICES ASSUME NEW q \in Partitions
                 PROVE  consumer[q].at <= Len(stream'[q])
    OBVIOUS
  <2>2. /\ consumer[q].at \in Nat /\ consumer[q].at <= Len(stream[q])
        /\ Len(stream[q]) \in Nat /\ Len(stream'[q]) \in Nat
    BY <1>2, <1>5 DEF TypeOK
  <2>3. QED BY <1>5, <2>2
<1>7. /\ drawn' \in Nat /\ seen' \subseteq 1..drawn'
      /\ commandId' \in [Commands -> 0..drawn']
  <2>1. /\ commandId' = [commandId EXCEPT ![c] = CommandId(c)]
        /\ drawn' = IF commandId[c] # 0 THEN drawn ELSE drawn + 1
    BY DEF PublishCommand, Publish
  <2>2. /\ drawn \in Nat /\ CommandId(c) \in 1..(drawn + 1)
        /\ commandId[c] # 0 => CommandId(c) <= drawn
    BY KnownId
  <2>3. drawn' \in Nat /\ drawn <= drawn' /\ CommandId(c) \in 1..drawn'
    BY <2>1, <2>2
  <2>4. /\ seen \subseteq 1..drawn /\ commandId \in [Commands -> 0..drawn]
        /\ seen' \subseteq seen \cup {CommandId(c)}
    BY <1>2, PublishFacts DEF TypeOK
  <2>5. 1..drawn \subseteq 1..drawn' /\ 0..drawn \subseteq 0..drawn'
    BY <2>2, <2>3
  <2>6. CommandId(c) \in 0..drawn'
    BY <2>3
  <2>7. QED BY <2>1, <2>3, <2>4, <2>5, <2>6
<1>8. TypeOK'
  BY <1>1, <1>2, <1>3, <1>5, <1>6, <1>7 DEF TypeOK
<1>9. QED BY <1>1, <1>8 DEF CommandTypeOK, life

(* The stream, where it grows.                                             *)
LEMMA GrownStream ==
    ASSUME CommandTypeOK, Keyed, NEW c \in Commands, Grows(c)
    PROVE  /\ \A d \in Commands : Stored(d)' <=> Stored(d) \/ d = c
           /\ \A p \in Partitions : \A i \in 1..Len(stream'[p]) :
                \/ i \in 1..Len(stream[p]) /\ stream'[p][i] = stream[p][i]
                \/ /\ i = Len(stream[p]) + 1 /\ p = PartitionOf[c]
                   /\ stream'[p][i] = c
<1>1. /\ PartitionOf[c] \in Partitions
      /\ \A d \in Commands : PartitionOf[d] \in Partitions
      /\ \A p \in Partitions : stream[p] \in Seq(Commands)
  BY IngressAssumption DEF CommandTypeOK, TypeOK
<1>2. \A p \in Partitions : Len(stream[p]) \in Nat
  BY <1>1
<1>3. \A p \in Partitions : \A i \in 1..Len(stream'[p]) :
        \/ i \in 1..Len(stream[p]) /\ stream'[p][i] = stream[p][i]
        \/ i = Len(stream[p]) + 1 /\ p = PartitionOf[c] /\ stream'[p][i] = c
  BY <1>1, <1>2 DEF Grows
<1>4. \A p \in Partitions : \A i \in 1..Len(stream[p]) :
        i \in 1..Len(stream'[p]) /\ stream'[p][i] = stream[p][i]
  BY <1>1, <1>2 DEF Grows
<1>5. Stored(c)'
  BY <1>1, <1>2 DEF Grows, Stored
<1>6. ASSUME NEW d \in Commands, Stored(d) PROVE Stored(d)'
  BY <1>1, <1>4, <1>6 DEF Stored
<1>7. ASSUME NEW d \in Commands, Stored(d)', d # c PROVE Stored(d)
  BY <1>1, <1>3, <1>7 DEF Stored
<1>8. QED BY <1>3, <1>5, <1>6, <1>7

-----------------------------------------------------------------------------
(* The invariant is inductive.                                             *)

LEMMA InitInv == CommandInit => CommandInv
<1> SUFFICES ASSUME CommandInit PROVE CommandInv
  OBVIOUS
<1>1. CommandTypeOK
  BY InitType
<1>2. \A p \in Partitions : stream[p] = <<>> /\ Len(stream[p]) = 0
  BY DEF CommandInit
<1>3. \A p \in Partitions : 1..Len(stream[p]) = {}
  BY <1>2
<1>4. \A c \in Commands : ~Stored(c)
  BY <1>3, IngressAssumption DEF Stored
<1>5. Keyed /\ Distinct /\ Progress /\ Reached
  BY <1>3 DEF Keyed, Distinct, Progress, Reached
<1>6. Pending
  BY DEF Pending, CommandInit
<1>7. AckedWasHandled /\ Fresh
  BY DEF AckedWasHandled, Fresh, Begun, CommandInit
<1>8. \A c \in Commands : call[c] = "new" /\ publisher[c] = "new" /\ Unsent(c)
  BY DEF CommandInit, Unsent
<1>9. Routes
  BY <1>4, <1>8 DEF Routes, Route
<1>10. CallsInOrder
  BY DEF CallsInOrder, CommandInit
<1>11. QED BY <1>1, <1>5, <1>6, <1>7, <1>9, <1>10 DEF CommandInv

(* What depends on the streams, the calls and their routes only.           *)
LEMMA StoredFrame ==
    ASSUME UNCHANGED <<stream, publisher, calls>>, Keyed, Distinct, Routes,
           CallsInOrder
    PROVE  /\ Keyed' /\ Distinct' /\ Routes' /\ CallsInOrder'
           /\ \A c : Stored(c)' <=> Stored(c)
<1>1. /\ UNCHANGED stream /\ UNCHANGED publisher
      /\ UNCHANGED <<request, call, before, due, scheduled, direct, lost>>
  BY DEF calls
<1>2. \A c : Stored(c)' <=> Stored(c)
  BY <1>1 DEF Stored
<1>3. Keyed' /\ Distinct'
  BY <1>1 DEF Keyed, Distinct
<1>4. \A c : (Ruled(c)' <=> Ruled(c)) /\ (Unsent(c)' <=> Unsent(c))
               /\ (Sequenced(c)' <=> Sequenced(c))
  BY <1>1 DEF Ruled, RuleFor, Unsent, Sequenced
<1>5. Routes'
  BY <1>1, <1>2, <1>4 DEF Routes, Route
<1>6. \A c, d : Ahead(c, d)' <=> Ahead(c, d)
  BY <1>1, <1>2 DEF Ahead
<1>7. CallsInOrder'
  BY <1>1, <1>4, <1>6 DEF CallsInOrder
<1>8. QED BY <1>2, <1>3, <1>5, <1>7

(* A step that leaves the consumers and the handlers as they are, too.     *)
LEMMA QuietStep ==
    ASSUME CommandInv, CommandTypeOK',
           UNCHANGED <<stream, publisher, consumer, running, handled, acked,
                       dropped, calls>>
    PROVE  CommandInv'
<1>1. /\ UNCHANGED stream /\ UNCHANGED publisher /\ UNCHANGED consumer
      /\ UNCHANGED running /\ UNCHANGED handled /\ UNCHANGED acked
      /\ UNCHANGED dropped /\ UNCHANGED calls /\ UNCHANGED call
  BY DEF calls
<1>2. /\ Keyed' /\ Distinct' /\ Routes' /\ CallsInOrder'
      /\ \A c : Stored(c)' <=> Stored(c)
  BY <1>1, StoredFrame DEF CommandInv
<1>3. Pending' /\ Progress' /\ AckedWasHandled'
  BY <1>1 DEF CommandInv, Pending, Progress, Settled, AckedWasHandled
<1>4. \A c : Begun(c)' <=> Begun(c)
  BY <1>1 DEF Begun
<1>5. Reached' /\ Fresh'
  BY <1>1, <1>2, <1>4 DEF CommandInv, Reached, Fresh
<1>6. QED BY <1>2, <1>3, <1>5 DEF CommandInv

(* A step of the ingress that hands out no message: consumers stay where   *)
(* they are, and are done only with what is settled.                       *)
LEMMA SettlingStep ==
    ASSUME CommandInv, CommandTypeOK', AckedWasHandled',
           UNCHANGED <<stream, publisher, calls>>,
           \A p \in Partitions : consumer'[p].at = consumer[p].at,
           \A p \in Partitions :
               \/ consumer'[p].state = consumer[p].state
               \/ /\ consumer[p].state # "free"
                  /\ consumer'[p].state = "free" => Current(p) \in Settled',
           Settled \subseteq Settled', running' \subseteq running,
           \A c : Begun(c)' => Begun(c)
    PROVE  CommandInv'
<1>1. UNCHANGED stream /\ UNCHANGED call
  BY DEF calls
<1>2. /\ Keyed' /\ Distinct' /\ Routes' /\ CallsInOrder'
      /\ \A c : Stored(c)' <=> Stored(c)
  BY StoredFrame DEF CommandInv
<1>3. Pending'
  BY DEF CommandInv, Pending
<1>4. Progress'
  BY <1>1 DEF CommandInv, Progress, Current
<1>5. Reached' /\ Fresh'
  BY <1>1, <1>2 DEF CommandInv, Reached, Fresh
<1>6. QED BY <1>2, <1>3, <1>4, <1>5 DEF CommandInv

LEMMA DeliverInv ==
    ASSUME CommandInv, NEW i \in Instances, NEW p \in Partitions,
           p \in Consumed, Deliver(i, p), UNCHANGED <<calls, life>>
    PROVE  CommandInv'
<1>1. /\ CommandTypeOK /\ Keyed /\ Distinct /\ Pending /\ Progress /\ Reached
      /\ AckedWasHandled /\ Routes /\ Fresh /\ CallsInOrder
  BY DEF CommandInv
<1>2. CommandTypeOK'
  BY <1>1, DeliverType
<1>3. PICK h : h = NextDelivery(p)
  OBVIOUS
<1>4. /\ h.at \in 1..Len(stream[p]) /\ h.attempt \in 1..MaxDeliver
      /\ h.state = "delivered"
      /\ stream[p][h.at] \in Commands
      /\ consumer' = [consumer EXCEPT ![p] = h]
      /\ Invoke(i, stream[p][h.at], h.attempt)
  BY <1>1, <1>3, DeliverFacts
<1>5. PICK c \in Commands : c = stream[p][h.at]
  BY <1>4
<1>6. /\ UNCHANGED <<stream, publisher, handled, acked, dropped>>
      /\ consumer[p].state # "delivered"
  BY DEF Deliver
<1>7. /\ Keyed' /\ Distinct' /\ Routes' /\ CallsInOrder'
      /\ \A d : Stored(d)' <=> Stored(d)
  BY <1>1, <1>6, StoredFrame
<1>8. /\ consumer'[p] = h
      /\ \A q \in Partitions \ {p} : consumer'[q] = consumer[q]
  BY <1>1, <1>4 DEF CommandTypeOK, TypeOK
<1>9. /\ consumer[p].at \in Nat /\ consumer[p].state \in {"free", "delivered", "due"}
      /\ \A q \in Partitions : consumer[q].at \in Nat
  BY <1>1 DEF CommandTypeOK, TypeOK
<1>10. h.at = IF consumer[p].state = "due" THEN consumer[p].at ELSE consumer[p].at + 1
  BY <1>3 DEF NextDelivery
<1>11. PartitionOf[c] = p /\ Stored(c)
  BY <1>1, <1>4, <1>5 DEF Keyed, Stored
<1>12. \A r \in running' : r \in running \/ r.command = c
  BY <1>4, <1>5 DEF Invoke
<1>13. \A d : Begun(d)' => Begun(d) \/ d = c
  BY <1>6, <1>12 DEF Begun
<1>14. Pending'
  BY <1>1, <1>4, <1>8 DEF Pending
<1>15. Progress'
  <2>1. SUFFICES ASSUME NEW q \in Partitions, NEW j \in 1..Len(stream[q]),
                        \/ j < consumer'[q].at
                        \/ j = consumer'[q].at /\ consumer'[q].state = "free"
                 PROVE  stream[q][j] \in Settled
    BY <1>6 DEF Progress, Settled
  <2>2. CASE q = p
    <3>1. j < h.at
      BY <1>4, <1>8, <2>1, <2>2
    <3>2. \/ j < consumer[p].at
          \/ j = consumer[p].at /\ consumer[p].state = "free"
      BY <1>6, <1>9, <1>10, <3>1
    <3>3. QED BY <1>1, <2>2, <3>2 DEF Progress
  <2>3. CASE q # p
    BY <1>1, <1>8, <2>1, <2>3 DEF Progress
  <2>4. QED BY <2>2, <2>3
<1>16. Reached'
  <2>1. SUFFICES ASSUME NEW q \in Partitions, NEW j \in 1..Len(stream[q]),
                        Begun(stream[q][j])'
                 PROVE  j <= consumer'[q].at
    BY <1>6 DEF Reached
  <2>2. CASE Begun(stream[q][j])
    <3>1. j <= consumer[q].at
      BY <1>1, <2>2 DEF Reached
    <3>2. consumer[q].at <= consumer'[q].at
      BY <1>8, <1>9, <1>10
    <3>3. consumer'[q].at \in Nat
      BY <1>4, <1>8, <1>9
    <3>4. QED BY <1>9, <3>1, <3>2, <3>3
  <2>3. CASE stream[q][j] = c
    <3>1. q = p
      BY <1>1, <1>11, <2>3 DEF Keyed
    <3>2. j = h.at
      BY <1>1, <1>4, <1>5, <2>3, <3>1 DEF Distinct
    <3>3. QED BY <1>4, <1>8, <3>1, <3>2
  <2>4. UNCHANGED stream
    BY <1>6
  <2>5. QED BY <1>13, <2>1, <2>2, <2>3, <2>4
<1>17. AckedWasHandled'
  BY <1>1, <1>6 DEF AckedWasHandled
<1>18. Fresh'
  <2>1. UNCHANGED call
    BY DEF calls
  <2>2. \A r \in running' : Stored(r.command)'
    BY <1>1, <1>7, <1>11, <1>12 DEF Fresh
  <2>3. \A d \in Commands : call'[d] # "accepted" /\ ~Stored(d)' => ~Begun(d)'
    BY <1>1, <1>7, <1>11, <1>13, <2>1 DEF Fresh
  <2>4. QED BY <2>2, <2>3 DEF Fresh
<1>19. QED BY <1>2, <1>7, <1>14, <1>15, <1>16, <1>17, <1>18 DEF CommandInv

LEMMA ExpiresInv ==
    ASSUME CommandInv, NEW p \in Partitions, AckWaitExpires(p),
           UNCHANGED <<calls, life>>
    PROVE  CommandInv'
<1>1. CommandTypeOK /\ Pending /\ AckedWasHandled
  BY DEF CommandInv
<1>2. CommandTypeOK'
  BY <1>1, ExpiresType
<1>3. /\ consumer[p].state = "delivered"
      /\ UNCHANGED <<stream, publisher, running, handled, acked>>
  BY DEF AckWaitExpires
<1>4. PICK x \in {"free", "due"} :
        /\ consumer' = [consumer EXCEPT ![p].state = x]
        /\ x = "due" => consumer[p].attempt < MaxDeliver
        /\ \/ x = "free" /\ dropped' = dropped \cup {Current(p)}
           \/ x = "due" /\ UNCHANGED dropped
  BY DEF AckWaitExpires
<1>5. \A q \in Partitions :
        /\ consumer'[q].at = consumer[q].at
        /\ consumer'[q].state = IF q = p THEN x ELSE consumer[q].state
  BY <1>1, <1>4, StateType
<1>6. Settled \subseteq Settled' /\ (x = "free" => Current(p) \in Settled')
  BY <1>3, <1>4 DEF Settled
<1>7. \A c : Begun(c)' => Begun(c)
  BY <1>3 DEF Begun
<1>8. AckedWasHandled'
  BY <1>1, <1>3 DEF AckedWasHandled
<1>9. \A q \in Partitions :
        \/ consumer'[q].state = consumer[q].state
        \/ /\ consumer[q].state # "free"
           /\ consumer'[q].state = "free" => Current(q) \in Settled'
  BY <1>3, <1>5, <1>6
<1>10. running' \subseteq running /\ UNCHANGED <<stream, publisher, calls>>
  BY <1>3
<1>11. QED BY <1>2, <1>5, <1>6, <1>7, <1>8, <1>9, <1>10, SettlingStep

LEMMA ReplyInv ==
    ASSUME CommandInv, NEW r \in running, Reply(r), UNCHANGED <<calls, life>>
    PROVE  CommandInv'
<1>1. CommandTypeOK /\ AckedWasHandled
  BY DEF CommandInv
<1>2. CommandTypeOK'
  BY <1>1, ReplyType
<1>3. r.command \in Commands /\ r.by \in Subscribers
  BY <1>1 DEF CommandTypeOK, TypeOK, Invocations
<1>4. PICK p \in Partitions : p = PartitionOf[r.command]
  BY <1>3, IngressAssumption
<1>5. /\ running' = running \ {r}
      /\ handled' = handled \cup {<<r.command, r.by>>}
      /\ UNCHANGED <<stream, publisher, dropped>>
      /\ Ack(r.command) \/ UNCHANGED <<consumer, acked>>
  BY ReplyFacts
<1>6. \/ UNCHANGED <<consumer, acked>>
      \/ /\ consumer[p].state # "free" /\ Current(p) = r.command
         /\ consumer' = [consumer EXCEPT ![p].state = "free"]
         /\ acked' = acked \cup {r.command}
  BY <1>1, <1>3, <1>4, <1>5, AckFacts
<1>7. \A c : Begun(c)' => Begun(c)
  BY <1>3, <1>5 DEF Begun
<1>8. Settled \subseteq Settled'
  BY <1>5, <1>6 DEF Settled
<1>9. AckedWasHandled'
  BY <1>1, <1>3, <1>5, <1>6 DEF AckedWasHandled
<1>10. running' \subseteq running /\ UNCHANGED <<stream, publisher, calls>>
  BY <1>5
<1>11. CASE UNCHANGED <<consumer, acked>>
  BY <1>2, <1>7, <1>8, <1>9, <1>10, <1>11, SettlingStep
<1>12. CASE /\ consumer[p].state # "free" /\ Current(p) = r.command
            /\ consumer' = [consumer EXCEPT ![p].state = "free"]
            /\ acked' = acked \cup {r.command}
  <2>1. PICK x \in {"free", "due"} : x = "free"
    OBVIOUS
  <2>2. consumer' = [consumer EXCEPT ![p].state = x] /\ x # "due"
    BY <1>12, <2>1
  <2>3. \A q \in Partitions :
          /\ consumer'[q].at = consumer[q].at
          /\ consumer'[q].state = IF q = p THEN x ELSE consumer[q].state
    BY <1>1, <2>2, StateType
  <2>4. Current(p) \in Settled'
    BY <1>12 DEF Settled
  <2>5. \A q \in Partitions :
          \/ consumer'[q].state = consumer[q].state
          \/ /\ consumer[q].state # "free"
             /\ consumer'[q].state = "free" => Current(q) \in Settled'
    BY <1>12, <2>3, <2>4
  <2>6. QED BY <1>2, <1>7, <1>8, <1>9, <1>10, <2>3, <2>5, SettlingStep
<1>13. QED BY <1>6, <1>11, <1>12

LEMMA DiesInv ==
    ASSUME CommandInv, NEW r \in running, HandlerDies(r),
           UNCHANGED <<calls, life>>
    PROVE  CommandInv'
<1>1. CommandTypeOK /\ AckedWasHandled
  BY DEF CommandInv
<1>2. CommandTypeOK'
  BY <1>1, DiesType
<1>3. /\ running' \subseteq running
      /\ UNCHANGED <<stream, publisher, consumer, handled, acked, dropped>>
  BY DEF HandlerDies
<1>4. \A c : Begun(c)' => Begun(c)
  BY <1>3 DEF Begun
<1>5. AckedWasHandled' /\ Settled \subseteq Settled'
  BY <1>1, <1>3 DEF AckedWasHandled, Settled
<1>6. UNCHANGED <<stream, publisher, calls>>
  BY <1>3
<1>7. \A p \in Partitions : consumer'[p].at = consumer[p].at
                              /\ consumer'[p].state = consumer[p].state
  BY <1>3
<1>8. QED BY <1>2, <1>3, <1>4, <1>5, <1>6, <1>7, SettlingStep

(* What a step of a call leaves alone, where only routes and calls change. *)
LEMMA RoutingStep ==
    ASSUME CommandInv, CommandTypeOK', Routes', CallsInOrder',
           UNCHANGED <<stream, consumer, running, handled, acked, dropped>>,
           \A c \in Commands : call[c] = "accepted" => call'[c] = "accepted"
    PROVE  CommandInv'
<1>1. /\ UNCHANGED stream /\ UNCHANGED consumer /\ UNCHANGED running
      /\ UNCHANGED handled /\ UNCHANGED acked /\ UNCHANGED dropped
  OBVIOUS
<1>2. /\ \A c : Stored(c)' <=> Stored(c)
      /\ \A c : Begun(c)' <=> Begun(c)
  BY <1>1 DEF Stored, Begun
<1>3. Keyed' /\ Distinct' /\ Pending'
  BY <1>1 DEF CommandInv, Keyed, Distinct, Pending
<1>4. Progress' /\ AckedWasHandled'
  BY <1>1 DEF CommandInv, Progress, Settled, AckedWasHandled
<1>5. Reached' /\ Fresh'
  BY <1>1, <1>2 DEF CommandInv, Reached, Fresh
<1>6. QED BY <1>3, <1>4, <1>5 DEF CommandInv

(* The order of the calls, while no call begins anew.                      *)
LEMMA OrderFrame ==
    ASSUME CallsInOrder, CommandTypeOK, UNCHANGED <<stream, request, before>>,
           \A c \in Commands : call[c] = "accepted" => call'[c] = "accepted"
    PROVE  CallsInOrder'
<1>1. UNCHANGED stream /\ UNCHANGED request /\ UNCHANGED before
  OBVIOUS
<1>2. \A c, d : /\ Stored(c)' <=> Stored(c)
                /\ Sequenced(c)' <=> Sequenced(c)
                /\ Ahead(c, d)' <=> Ahead(c, d)
  BY <1>1 DEF Stored, Sequenced, Ruled, RuleFor, Ahead
<1>3. \A d \in Commands : before[d] \subseteq Commands
  BY DEF CommandTypeOK
<1>4. QED BY <1>1, <1>2, <1>3 DEF CallsInOrder

(* The routes of the commands other than the one that a step is about.     *)
LEMMA RouteFrame ==
    ASSUME NEW c, NEW d, Route(d),
           UNCHANGED <<stream, request, publisher>>, call'[d] = call[d],
           d \in due => d \in due',
           Unsent(d) => Unsent(d)'
    PROVE  Route(d)'
<1>1. UNCHANGED stream /\ UNCHANGED request /\ UNCHANGED publisher
  OBVIOUS
<1>2. /\ Stored(d)' <=> Stored(d)
      /\ Sequenced(d)' <=> Sequenced(d)
      /\ Ruled(d)' <=> Ruled(d)
  BY <1>1 DEF Stored, Sequenced, Ruled, RuleFor
<1>3. QED BY <1>1, <1>2 DEF Route

LEMMA SpreadFacts ==
    ASSUME NEW c, Spread(c)
    PROVE  \A d, s : <<d, s>> \in direct' => <<d, s>> \in direct \/ d = c
BY DEF Spread

LEMMA BlockedInv ==
    ASSUME CommandInv, NEW c \in Commands, Forbid(c) \/ Refuse(c)
    PROVE  CommandInv'
<1>1. CommandTypeOK /\ Routes /\ CallsInOrder
  BY DEF CommandInv
<1>2. CommandTypeOK'
  BY <1>1, CallType DEF CallStep
<1>3. /\ call' = [call EXCEPT ![c] = "refused"] /\ call[c] \in {"new", "late"}
      /\ UNCHANGED <<vars, request, before, due, scheduled, direct>>
  BY DEF Forbid, Refuse
<1>4. UNCHANGED <<stream, publisher, consumer, running, handled, acked, dropped>>
  BY <1>3 DEF vars
<1>5. call'[c] = "refused" /\ \A d \in Commands \ {c} : call'[d] = call[d]
  BY <1>1, <1>3 DEF CommandTypeOK
<1>6. \A d \in Commands : Unsent(d)' <=> Unsent(d)
  BY <1>3 DEF Unsent
<1>7. \A d \in Commands \ {c} : Route(d)'
  BY <1>1, <1>3, <1>4, <1>5, <1>6, RouteFrame DEF Routes
<1>8. Route(c)'
  <2>1. /\ Stored(c)' <=> Stored(c)
        /\ Ruled(c)' <=> Ruled(c)
    BY <1>3, <1>4 DEF Stored, Ruled, RuleFor
  <2>2. Route(c)
    BY <1>1 DEF Routes
  <2>3. UNCHANGED request /\ UNCHANGED due /\ UNCHANGED publisher
    BY <1>3, <1>4
  <2>4. QED BY <1>3, <1>5, <1>6, <2>1, <2>2, <2>3 DEF Route
<1>9. Routes'
  BY <1>7, <1>8 DEF Routes
<1>10. \A d \in Commands : call[d] = "accepted" => call'[d] = "accepted"
  BY <1>3, <1>5
<1>11. CallsInOrder'
  BY <1>1, <1>3, <1>4, <1>10, OrderFrame
<1>12. QED BY <1>2, <1>4, <1>9, <1>10, <1>11, RoutingStep

LEMMA ClearInv ==
    ASSUME CommandInv, NEW c \in Commands, ClearField(c)
    PROVE  CommandInv'
<1>1. CommandTypeOK /\ Routes /\ CallsInOrder
  BY DEF CommandInv
<1>2. CommandTypeOK'
  BY <1>1, CallType DEF CallStep
<1>3. PICK x \in {"early", "late"} :
        /\ call' = [call EXCEPT ![c] = x]
        /\ x = "early" => request[c].operation = "add" /\ request[c].delayed
                            /\ c \notin due
        /\ x = "late" => ~(request[c].operation = "add" /\ request[c].delayed
                             /\ c \notin due)
  BY DEF ClearField
<1>4. /\ call[c] = "new"
      /\ before' = IF publisher[c] = "failed" THEN before
                   ELSE [before EXCEPT ![c] = {d \in Commands : call[d] = "accepted"}]
      /\ UNCHANGED <<vars, request, due, scheduled, direct>>
  BY DEF ClearField
<1>5. UNCHANGED <<stream, publisher, consumer, running, handled, acked, dropped>>
  BY <1>4 DEF vars
<1>6. call'[c] = x /\ \A d \in Commands \ {c} : call'[d] = call[d]
  BY <1>1, <1>3 DEF CommandTypeOK
<1>7. \A d \in Commands : Unsent(d)' <=> Unsent(d)
  BY <1>4 DEF Unsent
<1>8. \A d \in Commands \ {c} : Route(d)'
  BY <1>1, <1>4, <1>5, <1>6, <1>7, RouteFrame DEF Routes
<1>9. \A d, e : /\ Stored(d)' <=> Stored(d)
                /\ Ruled(d)' <=> Ruled(d)
                /\ Sequenced(d)' <=> Sequenced(d)
                /\ Ahead(d, e)' <=> Ahead(d, e)
  BY <1>4, <1>5 DEF Stored, Ruled, RuleFor, Sequenced, Ahead
<1>10. Route(c)'
  <2>1. Route(c)
    BY <1>1 DEF Routes
  <2>2. UNCHANGED request /\ UNCHANGED due /\ UNCHANGED publisher
    BY <1>4, <1>5
  <2>3. QED BY <1>3, <1>4, <1>6, <1>7, <1>9, <2>1, <2>2 DEF Route
<1>11. Routes'
  BY <1>8, <1>10 DEF Routes
<1>12. \A d \in Commands : call[d] = "accepted" => call'[d] = "accepted"
  BY <1>4, <1>6
<1>13. CallsInOrder'
  <2>1. CASE publisher[c] = "failed"
    BY <1>1, <1>4, <1>5, <1>12, <2>1, OrderFrame
  <2>2. CASE publisher[c] # "failed"
    <3>1. ~Stored(c)
      <4>1. publisher[c] \in {"new", "published", "failed"} /\ Route(c)
        BY <1>1 DEF CommandTypeOK, TypeOK, Routes
      <4>2. QED BY <1>4, <2>2, <4>1 DEF Route
    <3>2. SUFFICES ASSUME NEW d \in Commands, NEW e \in before'[d]
                   PROVE  /\ call'[e] = "accepted"
                          /\ Sequenced(e) /\ Sequenced(d)
                               /\ PartitionOf[e] = PartitionOf[d] => Ahead(e, d)
      BY <1>9 DEF CallsInOrder
    <3>3. /\ before'[c] = {b \in Commands : call[b] = "accepted"}
          /\ \A b \in Commands \ {c} : before'[b] = before[b]
          /\ before[d] \subseteq Commands
      BY <1>1, <1>4, <2>2 DEF CommandTypeOK
    <3>4. CASE d = c
      <4>1. e \in Commands /\ call[e] = "accepted"
        BY <3>2, <3>3, <3>4
      <4>2. Sequenced(e) => Stored(e)
        BY <1>1, <4>1 DEF Routes, Route
      <4>3. \A j \in 1..Len(stream[PartitionOf[c]]) : stream[PartitionOf[c]][j] # c
        BY <3>1 DEF Stored
      <4>4. QED BY <1>12, <3>4, <4>1, <4>2, <4>3 DEF Ahead
    <3>5. CASE d # c
      BY <1>1, <1>12, <3>2, <3>3, <3>5 DEF CallsInOrder
    <3>6. QED BY <3>4, <3>5
  <2>3. QED BY <2>1, <2>2
<1>14. QED BY <1>2, <1>5, <1>11, <1>12, <1>13, RoutingStep

LEMMA DelayedInv ==
    ASSUME CommandInv, NEW c \in Commands, EmitDelayed(c)
    PROVE  CommandInv'
<1>1. CommandTypeOK /\ Routes /\ CallsInOrder
  BY DEF CommandInv
<1>2. CommandTypeOK'
  BY <1>1, CallType DEF CallStep
<1>3. /\ call[c] = "early" /\ call' = [call EXCEPT ![c] = "accepted"]
      /\ scheduled' \subseteq scheduled \cup {c}
      /\ UNCHANGED <<stream, publisher, consumer, running, handled, acked, dropped>>
      /\ UNCHANGED <<request, before, due, direct>>
  BY DEF EmitDelayed
<1>4. call'[c] = "accepted" /\ \A d \in Commands \ {c} : call'[d] = call[d]
  BY <1>1, <1>3 DEF CommandTypeOK
<1>5. \A d \in Commands \ {c} : Unsent(d) => Unsent(d)'
  BY <1>3 DEF Unsent
<1>6. \A d \in Commands \ {c} : Route(d)'
  BY <1>1, <1>3, <1>4, <1>5, RouteFrame DEF Routes
<1>7. Route(c)'
  <2>1. Route(c)
    BY <1>1 DEF Routes
  <2>2. ~Stored(c) /\ request[c].delayed
    BY <1>3, <2>1 DEF Route
  <2>3. ~Stored(c)' /\ ~Sequenced(c)'
    BY <1>3, <2>2 DEF Stored, Sequenced
  <2>4. QED BY <1>4, <2>3 DEF Route
<1>8. Routes'
  BY <1>6, <1>7 DEF Routes
<1>9. \A d \in Commands : call[d] = "accepted" => call'[d] = "accepted"
  BY <1>4
<1>10. CallsInOrder'
  BY <1>1, <1>3, <1>9, OrderFrame
<1>11. QED BY <1>2, <1>3, <1>8, <1>9, <1>10, RoutingStep

LEMMA PlainInv ==
    ASSUME CommandInv, NEW c \in Commands,
           EmitAdded(c) \/ EmitUpdated(c) \/ EmitSucceeded(c)
    PROVE  CommandInv'
<1>1. CommandTypeOK /\ Routes /\ CallsInOrder
  BY DEF CommandInv
<1>2. CommandTypeOK'
  BY <1>1, CallType DEF CallStep
<1>3. EmitPlain(c) /\ ~Ruled(c)
  BY DEF EmitAdded, EmitUpdated, EmitSucceeded, Ruled
<1>4. /\ call[c] = "late" /\ call' = [call EXCEPT ![c] = "accepted"] /\ Spread(c)
      /\ UNCHANGED <<stream, publisher, consumer, running, handled, acked, dropped>>
      /\ UNCHANGED <<request, before, due, scheduled>>
  BY <1>3, PlainFacts
<1>5. call'[c] = "accepted" /\ \A d \in Commands \ {c} : call'[d] = call[d]
  BY <1>1, <1>4 DEF CommandTypeOK
<1>6. \A d \in Commands \ {c} : Unsent(d) => Unsent(d)'
  BY <1>4, SpreadFacts DEF Unsent
<1>7. \A d \in Commands \ {c} : Route(d)'
  BY <1>1, <1>4, <1>5, <1>6, RouteFrame DEF Routes
<1>8. Route(c)'
  <2>1. Route(c)
    BY <1>1 DEF Routes
  <2>2. ~Stored(c)
    BY <1>3, <2>1 DEF Route
  <2>3. ~Stored(c)' /\ ~Sequenced(c)'
    BY <1>3, <1>4, <2>2 DEF Stored, Sequenced, Ruled, RuleFor
  <2>4. QED BY <1>5, <2>3 DEF Route
<1>9. Routes'
  BY <1>7, <1>8 DEF Routes
<1>10. \A d \in Commands : call[d] = "accepted" => call'[d] = "accepted"
  BY <1>5
<1>11. CallsInOrder'
  BY <1>1, <1>4, <1>10, OrderFrame
<1>12. QED BY <1>2, <1>4, <1>9, <1>10, <1>11, RoutingStep

LEMMA ElapseInv ==
    ASSUME CommandInv, NEW c \in Commands, Elapse(c)
    PROVE  CommandInv'
<1>1. CommandTypeOK /\ Routes /\ CallsInOrder
  BY DEF CommandInv
<1>2. CommandTypeOK'
  BY <1>1, CallType DEF CallStep
<1>3. /\ due \subseteq due'
      /\ UNCHANGED <<vars, request, call, before, scheduled, direct>>
  BY DEF Elapse
<1>4. UNCHANGED <<stream, publisher, consumer, running, handled, acked, dropped>>
  BY <1>3 DEF vars
<1>5. \A d \in Commands : Unsent(d)' <=> Unsent(d)
  BY <1>3 DEF Unsent
<1>6. Routes'
  BY <1>1, <1>3, <1>4, <1>5, RouteFrame DEF Routes
<1>7. \A d \in Commands : call[d] = "accepted" => call'[d] = "accepted"
  BY <1>3
<1>8. CallsInOrder'
  BY <1>1, <1>3, <1>4, <1>7, OrderFrame
<1>9. QED BY <1>2, <1>4, <1>6, <1>7, <1>8, RoutingStep

LEMMA FireInv ==
    ASSUME CommandInv, NEW c \in Commands, FireSchedule(c)
    PROVE  CommandInv'
<1>1. CommandTypeOK /\ Routes /\ CallsInOrder
  BY DEF CommandInv
<1>2. CommandTypeOK'
  BY <1>1, CallType DEF CallStep
<1>3. /\ c \in scheduled /\ scheduled' \subseteq scheduled /\ Spread(c)
      /\ UNCHANGED <<stream, publisher, consumer, running, handled, acked, dropped>>
      /\ UNCHANGED <<request, call, before, due>>
  BY DEF FireSchedule
<1>4. \A d \in Commands : Unsent(d) => Unsent(d)'
  <2>1. ~Unsent(c)
    BY <1>3 DEF Unsent
  <2>2. \A d \in Commands \ {c} : Unsent(d) => Unsent(d)'
    BY <1>3, SpreadFacts DEF Unsent
  <2>3. QED BY <2>1, <2>2
<1>5. Routes'
  BY <1>1, <1>3, <1>4, RouteFrame DEF Routes
<1>6. \A d \in Commands : call[d] = "accepted" => call'[d] = "accepted"
  BY <1>3
<1>7. CallsInOrder'
  BY <1>1, <1>3, <1>6, OrderFrame
<1>8. QED BY <1>2, <1>3, <1>5, <1>6, <1>7, RoutingStep

(* A plain event is of a command that is not in any stream.                *)
LEMMA DirectInv ==
    ASSUME CommandInv, NEW c \in Commands, NEW s \in Subscribers,
           HandleDirect(c, s)
    PROVE  CommandInv'
<1>1. /\ CommandTypeOK /\ Keyed /\ Distinct /\ Pending /\ Progress /\ Reached
      /\ AckedWasHandled /\ Routes /\ Fresh /\ CallsInOrder
  BY DEF CommandInv
<1>2. CommandTypeOK'
  BY <1>1, DirectType
<1>3. /\ <<c, s>> \in direct /\ direct' \subseteq direct
      /\ handled \subseteq handled' /\ handled' \subseteq handled \cup {<<c, s>>}
      /\ UNCHANGED <<stream, publisher, consumer, running, acked, dropped>>
      /\ UNCHANGED <<request, call, before, due, scheduled>>
  BY DEF HandleDirect
<1>4. call[c] = "accepted" /\ ~Stored(c)
  BY <1>1, <1>3 DEF Routes, Route, Unsent
<1>5. \A d : Begun(d)' => Begun(d) \/ d = c
  BY <1>3 DEF Begun
<1>6. \A d \in Commands : Unsent(d) => Unsent(d)'
  BY <1>3 DEF Unsent
<1>7. Routes'
  BY <1>1, <1>3, <1>6, RouteFrame DEF Routes
<1>8. CallsInOrder'
  BY <1>1, <1>3, OrderFrame
<1>9. Keyed' /\ Distinct' /\ Pending' /\ Progress'
  BY <1>1, <1>3 DEF Keyed, Distinct, Pending, Progress, Settled
<1>10. AckedWasHandled'
  BY <1>1, <1>3 DEF AckedWasHandled
<1>11. Reached'
  <2>1. \A p \in Partitions : \A j \in 1..Len(stream[p]) : stream[p][j] # c
    BY <1>1, <1>4 DEF Keyed, Stored
  <2>2. UNCHANGED stream /\ UNCHANGED consumer
    BY <1>3
  <2>3. QED BY <1>1, <1>5, <2>1, <2>2 DEF Reached
<1>12. Fresh'
  <2>1. \A d : Stored(d)' <=> Stored(d)
    BY <1>3 DEF Stored
  <2>2. UNCHANGED running /\ UNCHANGED call
    BY <1>3
  <2>3. QED BY <1>1, <1>4, <1>5, <2>1, <2>2 DEF Fresh
<1>13. QED BY <1>2, <1>7, <1>8, <1>9, <1>10, <1>11, <1>12 DEF CommandInv

LEMMA PublishStored ==
    ASSUME CommandTypeOK, Keyed, Identified, NEW c \in Commands, PublishCommand(c)
    PROVE  \A d \in Commands : Stored(d)' <=> Stored(d) \/ (Grows(c) /\ d = c)
<1>1. UNCHANGED stream \/ Grows(c)
  BY PublishFacts
<1>2. CASE UNCHANGED stream
  <2>1. \A d \in Commands : Stored(d)' <=> Stored(d)
    BY <1>2 DEF Stored
  <2>2. ~Grows(c)
    BY <1>2, <2>1, GrownStream DEF Grows
  <2>3. QED BY <2>1, <2>2
<1>3. CASE Grows(c)
  BY <1>3, GrownStream
<1>4. QED BY <1>1, <1>2, <1>3

LEMMA PublishInv ==
    ASSUME CommandInv, Identified, NEW c \in Commands, PublishCommand(c)
    PROVE  CommandInv'
<1>1. /\ CommandTypeOK /\ Keyed /\ Distinct /\ Pending /\ Progress /\ Reached
      /\ AckedWasHandled /\ Routes /\ Fresh /\ CallsInOrder
  BY DEF CommandInv
<1>2. CommandTypeOK'
  BY <1>1, PublishType
<1>3. /\ call[c] = "late" /\ Ruled(c)
      /\ UNCHANGED stream \/ Grows(c)
      /\ \A d \in Commands \ {c} : publisher'[d] = publisher[d] /\ call'[d] = call[d]
      /\ \/ publisher'[c] = "published" /\ call'[c] = "accepted"
              /\ (Stored(c) \/ Grows(c))
         \/ publisher'[c] = "failed" /\ call'[c] = "new"
      /\ UNCHANGED <<consumer, running, handled, acked, dropped>>
      /\ UNCHANGED <<request, before, due, scheduled, direct>>
  BY <1>1, PublishFacts
<1>4. \A d \in Commands : Stored(d)' <=> Stored(d) \/ (Grows(c) /\ d = c)
  BY <1>1, PublishStored
<1>5. \A p \in Partitions : \A i \in 1..Len(stream'[p]) :
        \/ i \in 1..Len(stream[p]) /\ stream'[p][i] = stream[p][i]
        \/ /\ Grows(c) /\ p = PartitionOf[c]
           /\ i = Len(stream[p]) + 1 /\ stream'[p][i] = c
  BY <1>1, <1>3, GrownStream
<1>6. \A p \in Partitions :
        /\ Len(stream[p]) \in Nat
        /\ consumer[p].at \in Nat /\ consumer[p].at <= Len(stream[p])
  BY <1>1 DEF CommandTypeOK, TypeOK
<1>7. Grows(c) => \A p \in Partitions : \A i \in 1..Len(stream[p]) : stream[p][i] # c
  BY <1>1 DEF Grows, Keyed
<1>8. /\ \A d : Begun(d)' <=> Begun(d)
      /\ \A d : Ruled(d)' <=> Ruled(d)
      /\ \A d : Sequenced(d)' <=> Sequenced(d)
      /\ \A d : Unsent(d)' <=> Unsent(d)
  BY <1>3 DEF Begun, Ruled, RuleFor, Sequenced, Unsent
<1>9. Keyed'
  BY <1>1, <1>5 DEF Keyed
<1>10. Distinct'
  <2>1. SUFFICES ASSUME NEW p \in Partitions,
                        NEW i \in 1..Len(stream'[p]), NEW j \in 1..Len(stream'[p]),
                        stream'[p][i] = stream'[p][j]
                 PROVE  i = j
    BY DEF Distinct
  <2>2. QED BY <1>1, <1>5, <1>7, <2>1 DEF Distinct
<1>11. Pending'
  BY <1>1, <1>3 DEF Pending
<1>12. Progress'
  <2>1. SUFFICES ASSUME NEW p \in Partitions, NEW i \in 1..Len(stream'[p]),
                        \/ i < consumer[p].at
                        \/ i = consumer[p].at /\ consumer[p].state = "free"
                 PROVE  stream'[p][i] \in Settled
    BY <1>3 DEF Progress, Settled
  <2>2. i <= Len(stream[p])
    BY <1>6, <2>1
  <2>3. i \in 1..Len(stream[p]) /\ stream'[p][i] = stream[p][i]
    BY <1>5, <1>6, <2>2
  <2>4. QED BY <1>1, <2>1, <2>3 DEF Progress
<1>13. Reached'
  <2>1. SUFFICES ASSUME NEW p \in Partitions, NEW j \in 1..Len(stream'[p]),
                        Begun(stream'[p][j])
                 PROVE  j <= consumer[p].at
    BY <1>3, <1>8 DEF Reached
  <2>2. CASE j \in 1..Len(stream[p]) /\ stream'[p][j] = stream[p][j]
    BY <1>1, <2>1, <2>2 DEF Reached
  <2>3. CASE Grows(c) /\ stream'[p][j] = c
    BY <1>1, <1>3, <2>1, <2>3 DEF Fresh, Grows
  <2>4. QED BY <1>5, <2>2, <2>3
<1>14. AckedWasHandled'
  BY <1>1, <1>3 DEF AckedWasHandled
<1>15. Routes'
  <2>1. ASSUME NEW d \in Commands, d # c PROVE Route(d)'
    <3>1. Route(d)
      BY <1>1 DEF Routes
    <3>2. UNCHANGED request /\ UNCHANGED due
      BY <1>3
    <3>3. QED BY <1>3, <1>4, <1>8, <2>1, <3>1, <3>2 DEF Route
  <2>2. Route(c)'
    <3>1. Route(c)
      BY <1>1 DEF Routes
    <3>2. Unsent(c) /\ (request[c].delayed => c \in due)
      BY <1>3, <3>1 DEF Route, Ruled
    <3>3. UNCHANGED request /\ UNCHANGED due
      BY <1>3
    <3>4. QED BY <1>3, <1>4, <1>8, <3>2, <3>3 DEF Route
  <2>3. QED BY <2>1, <2>2 DEF Routes
<1>16. Fresh'
  <2>1. \A r \in running : r.command \in Commands
    BY <1>1 DEF CommandTypeOK, TypeOK, Invocations
  <2>2. \A r \in running' : Stored(r.command)'
    BY <1>1, <1>3, <1>4, <2>1 DEF Fresh
  <2>3. \A d \in Commands : call'[d] # "accepted" /\ ~Stored(d)' => ~Begun(d)'
    BY <1>1, <1>3, <1>4, <1>8 DEF Fresh
  <2>4. QED BY <2>2, <2>3 DEF Fresh
<1>17. CallsInOrder'
  <2>1. SUFFICES ASSUME NEW d \in Commands, NEW e \in before[d]
                 PROVE  /\ call'[e] = "accepted"
                        /\ Sequenced(e) /\ Sequenced(d)
                             /\ PartitionOf[e] = PartitionOf[d] => Ahead(e, d)'
    BY <1>3, <1>8 DEF CallsInOrder
  <2>2. e \in Commands /\ call[e] = "accepted"
    BY <1>1, <2>1 DEF CallsInOrder, CommandTypeOK
  <2>3. e # c /\ call'[e] = "accepted"
    BY <1>3, <2>2
  <2>4. ASSUME Sequenced(e), Sequenced(d), PartitionOf[e] = PartitionOf[d]
        PROVE  Ahead(e, d)'
    <3>1. Ahead(e, d)
      BY <1>1, <2>1, <2>4 DEF CallsInOrder
    <3>2. Stored(e)'
      BY <1>4, <2>2, <3>1 DEF Ahead
    <3>3. PICK p \in Partitions : p = PartitionOf[e]
      BY <2>2, IngressAssumption
    <3>4. ASSUME NEW i \in 1..Len(stream'[p]), NEW j \in 1..Len(stream'[p]),
                 stream'[p][i] = e, stream'[p][j] = d
          PROVE  i < j
      <4>1. i \in 1..Len(stream[p]) /\ stream[p][i] = e
        BY <1>5, <2>3, <3>4
      <4>2. CASE j \in 1..Len(stream[p]) /\ stream[p][j] = d
        BY <3>1, <3>3, <4>1, <4>2 DEF Ahead
      <4>3. CASE j = Len(stream[p]) + 1
        BY <1>6, <4>1, <4>3
      <4>4. QED BY <1>5, <3>4, <4>2, <4>3
    <3>5. QED BY <3>2, <3>3, <3>4 DEF Ahead
  <2>5. QED BY <2>3, <2>4
<1>18. QED BY <1>2, <1>9, <1>10, <1>11, <1>12, <1>13, <1>14, <1>15, <1>16, <1>17
           DEF CommandInv

LEMMA StepInv == Inv /\ [CommandNext]_all => CommandInv'
<1> SUFFICES ASSUME CommandInv, Identified, [CommandNext]_all PROVE CommandInv'
  BY DEF Inv
<1>1. CASE UNCHANGED all
  <2>1. /\ UNCHANGED vars /\ UNCHANGED calls /\ UNCHANGED life
    BY <1>1 DEF all
  <2>2. /\ UNCHANGED <<stream, publisher, ids, consumer, running, handled, acked, dropped>>
        /\ UNCHANGED <<loop, up, faults>>
    BY <2>1 DEF vars
  <2>3. CommandTypeOK'
    <3>1. TypeOK'
      BY <2>2 DEF CommandInv, CommandTypeOK, TypeOK, ids
    <3>2. QED BY <2>1, <2>2, <3>1 DEF CommandInv, CommandTypeOK, calls, life
  <2>4. QED BY <2>1, <2>2, <2>3, QuietStep
<1>2. ASSUME NEW p \in Partitions, ServePartition(p) PROVE CommandInv'
  <2>1. UNCHANGED <<calls, life>>
    BY <1>2 DEF ServePartition
  <2>2. ASSUME NEW i \in Instances, ReplayTimesOut(i, p) PROVE CommandInv'
    <3>1. CommandTypeOK'
      BY <2>1, <2>2, TimesOutType DEF CommandInv
    <3>2. UNCHANGED <<stream, publisher, consumer, running, handled, acked, dropped>>
      BY <2>2 DEF ReplayTimesOut
    <3>3. QED BY <2>1, <3>1, <3>2, QuietStep
  <2>3. ASSUME NEW i \in Instances, p \in Consumed, Deliver(i, p) PROVE CommandInv'
    BY <2>1, <2>3, DeliverInv
  <2>4. CASE AckWaitExpires(p)
    BY <2>1, <2>4, ExpiresInv
  <2>5. QED BY <1>2, <2>2, <2>3, <2>4 DEF ServePartition
<1>3. CASE ServeReply
  BY <1>3, ReplyInv DEF ServeReply
<1>4. CASE LoseHandler
  BY <1>4, DiesInv DEF LoseHandler
<1>5. ASSUME NEW i \in Instances, LifeStep(i) PROVE CommandInv'
  <2>1. CommandTypeOK'
    BY <1>5, LifeType DEF CommandInv
  <2>2. QED BY <1>5, <2>1, LifeFacts, QuietStep
<1>6. ASSUME NEW c \in Commands, CallStep(c) PROVE CommandInv'
  BY <1>6, BlockedInv, ClearInv, DelayedInv, PlainInv, ElapseInv, FireInv DEF CallStep
<1>7. ASSUME NEW c \in Commands, PublishCommand(c) PROVE CommandInv'
  BY <1>7, PublishInv
<1>8. ASSUME NEW c \in Commands, NEW s \in Subscribers, HandleDirect(c, s)
      PROVE  CommandInv'
  BY <1>8, DirectInv
<1>9. QED BY <1>1, <1>2, <1>3, <1>4, <1>5, <1>6, <1>7, <1>8
          DEF CommandNext, LifeStep, CallStep

(* The ids, where nothing is published.                                    *)
LEMMA IdFrame ==
    ASSUME Identified, UNCHANGED <<stream, publisher, ids>>
    PROVE  Identified'
<1>1. /\ UNCHANGED stream /\ UNCHANGED publisher
      /\ UNCHANGED commandId /\ UNCHANGED seen
  BY DEF ids
<1>2. \A c : Stored(c)' <=> Stored(c)
  BY <1>1 DEF Stored
<1>3. QED BY <1>1, <1>2 DEF Identified

(* An id is carried by one component, before and after the publication.    *)
LEMMA PublishIds ==
    ASSUME CommandTypeOK, Keyed, Identified, NEW c \in Commands, PublishCommand(c)
    PROVE  Identified'
<1>1. /\ commandId' = [commandId EXCEPT ![c] = CommandId(c)]
      /\ commandId \in [Commands -> 0..drawn]
  BY DEF PublishCommand, Publish, CommandTypeOK, TypeOK
<1>2. /\ commandId'[c] = CommandId(c)
      /\ \A d \in Commands \ {c} : commandId'[d] = commandId[d]
  BY <1>1
<1>3. /\ CommandId(c) \in seen <=> Stored(c)
      /\ \A d \in Commands \ {c} : commandId[d] # CommandId(c)
  BY KnownId
<1>4. /\ \A d \in Commands \ {c} : publisher'[d] = publisher[d]
      /\ publisher'[c] = "published" => Stored(c) \/ Grows(c)
      /\ \/ seen' = seen \cup {CommandId(c)} /\ (Stored(c) \/ Grows(c))
         \/ UNCHANGED <<stream, seen>>
  BY PublishFacts
<1>5. \A d \in Commands : Stored(d)' <=> Stored(d) \/ (Grows(c) /\ d = c)
  BY PublishStored
<1>6. UNCHANGED stream => ~Grows(c)
  <2>1. SUFFICES ASSUME UNCHANGED stream, Grows(c) PROVE FALSE
    OBVIOUS
  <2>2. Stored(c)' <=> Stored(c)
    BY <2>1 DEF Stored
  <2>3. QED BY <1>5, <2>1, <2>2 DEF Grows
<1>7. \A d, e \in Commands :
        commandId'[d] = commandId'[e] /\ commandId'[d] # 0 => d = e
  BY <1>2, <1>3 DEF Identified
<1>8. \A d \in Commands : Stored(d)' <=> commandId'[d] \in seen'
  <2>1. ASSUME NEW d \in Commands, d # c
        PROVE  Stored(d)' <=> commandId'[d] \in seen'
    BY <1>2, <1>3, <1>4, <1>5, <2>1 DEF Identified
  <2>2. Stored(c)' <=> commandId'[c] \in seen'
    BY <1>2, <1>3, <1>4, <1>5, <1>6
  <2>3. QED BY <2>1, <2>2
<1>9. \A d \in Commands : publisher'[d] = "published" => Stored(d)'
  BY <1>4, <1>5 DEF Identified
<1>10. QED BY <1>7, <1>8, <1>9 DEF Identified

LEMMA StepIds == Inv /\ [CommandNext]_all => Identified'
<1> SUFFICES ASSUME CommandInv, Identified, [CommandNext]_all PROVE Identified'
  BY DEF Inv
<1>1. CASE UNCHANGED all
  BY <1>1, IdFrame DEF all, vars
<1>2. ASSUME NEW p \in Partitions, ServePartition(p) PROVE Identified'
  BY <1>2, IdFrame DEF ServePartition, ReplayTimesOut, Deliver, AckWaitExpires
<1>3. CASE ServeReply \/ LoseHandler
  BY <1>3, IdFrame DEF ServeReply, LoseHandler, Reply, HandlerDies
<1>4. ASSUME NEW i \in Instances, LifeStep(i) PROVE Identified'
  BY <1>4, LifeFacts, IdFrame
<1>5. ASSUME NEW c \in Commands, CallStep(c) PROVE Identified'
  BY <1>5, CallFacts, IdFrame
<1>6. ASSUME NEW c \in Commands, PublishCommand(c) PROVE Identified'
  BY <1>6, PublishIds DEF CommandInv
<1>7. ASSUME NEW c \in Commands, NEW s \in Subscribers, HandleDirect(c, s)
      PROVE  Identified'
  BY <1>7, IdFrame DEF HandleDirect
<1>8. QED BY <1>1, <1>2, <1>3, <1>4, <1>5, <1>6, <1>7
          DEF CommandNext, LifeStep, CallStep

LEMMA InitIds == CommandInit => Identified
<1> SUFFICES ASSUME CommandInit PROVE Identified
  OBVIOUS
<1>1. \A p \in Partitions : stream[p] = <<>> /\ Len(stream[p]) = 0
  BY DEF CommandInit
<1>2. \A c \in Commands : ~Stored(c)
  BY <1>1, IngressAssumption DEF Stored
<1>3. commandId = GivenId /\ seen = {} /\ \A c \in Commands : publisher[c] = "new"
  BY DEF CommandInit
<1>4. QED BY <1>2, <1>3, IngressAssumption DEF Identified

LEMMA AllAlways == CommandSpec => []Inv
<1>1. CommandInit => Inv
  BY InitInv, InitIds DEF Inv
<1>2. Inv /\ [CommandNext]_all => Inv'
  BY StepInv, StepIds DEF Inv
<1>3. QED BY <1>1, <1>2, PTL DEF CommandSpec

LEMMA InvAlways == CommandSpec => []CommandInv
<1>1. Inv => CommandInv
  BY DEF Inv
<1>2. QED BY <1>1, AllAlways, PTL

-----------------------------------------------------------------------------
(* Of the code around the ordered ingress: loops run only where they are   *)
(* started and only on partitions that got a consumer, a consumer is never *)
(* ahead of its stream and no message is delivered more than MaxDeliver    *)
(* times.                                                                  *)
THEOREM TypeCorrect == CommandSpec => []CommandTypeOK
<1>1. CommandInv => CommandTypeOK
  BY DEF CommandInv
<1>2. QED BY <1>1, InvAlways, PTL

(* However often the publication of a command fails, also after it was     *)
(* stored, and is repeated, it is in its stream once, and it is there when *)
(* a publication succeeded: publishIfConfigured writes the commandId to    *)
(* the component before it publishes, and ids are drawn only once.         *)
THEOREM PublishedExactlyOnce == CommandSpec => []PublishedOnce
<1>1. Inv => PublishedOnce
  BY DEF Inv, CommandInv, Distinct, Identified, PublishedOnce
<1>2. QED BY <1>1, AllAlways, PTL

(* consumePartition acknowledges a message only when a handler has         *)
(* replied: an acknowledged command was handled to its end.                *)
THEOREM AcknowledgedAfterHandling == CommandSpec => []AckedWasHandled
<1>1. CommandInv => AckedWasHandled
  BY DEF CommandInv
<1>2. QED BY <1>1, InvAlways, PTL

(* No handler is given a command of a partition before every command ahead *)
(* of it was acknowledged or given up, whatever instances, subscribers,    *)
(* faults and restarts there are.                                          *)
THEOREM PartitionsInOrder == CommandSpec => []NoOvertaking
<1>1. CommandInv => NoOvertaking
  <2>1. SUFFICES ASSUME CommandInv, NEW p \in Partitions,
                        NEW i \in 1..Len(stream[p]), NEW j \in 1..Len(stream[p]),
                        i < j, Begun(stream[p][j])
                 PROVE  stream[p][i] \in Settled
    BY DEF NoOvertaking, Begun
  <2>2. j <= consumer[p].at
    BY <2>1 DEF CommandInv, Reached
  <2>3. consumer[p].at \in Nat
    BY <2>1 DEF CommandInv, CommandTypeOK, TypeOK
  <2>4. i < consumer[p].at
    BY <2>1, <2>2, <2>3
  <2>5. QED BY <2>1, <2>4 DEF CommandInv, Progress
<1>2. QED BY <1>1, InvAlways, PTL

(* Calls for commands of one partition that follow each other keep their   *)
(* order in the handlers.                                                  *)
THEOREM CallsKeepOrder == CommandSpec => []CallOrderKept
<1>1. CommandInv => CallOrderKept
  <2>1. SUFFICES ASSUME CommandInv, NEW d \in Commands, NEW c \in before[d],
                        Sequenced(c), Sequenced(d),
                        PartitionOf[c] = PartitionOf[d], Begun(d)
                 PROVE  c \in Settled
    BY DEF CallOrderKept, Begun
  <2>2. c \in Commands /\ Ahead(c, d)
    BY <2>1 DEF CommandInv, CommandTypeOK, CallsInOrder
  <2>3. PICK p \in Partitions : p = PartitionOf[c] /\ p = PartitionOf[d]
    BY <2>1, <2>2, IngressAssumption
  <2>4. Stored(d)
    BY <2>1 DEF CommandInv, Fresh, Routes, Route
  <2>5. PICK j \in 1..Len(stream[p]) : stream[p][j] = d
    BY <2>3, <2>4 DEF Stored
  <2>6. PICK i \in 1..Len(stream[p]) : stream[p][i] = c
    BY <2>2, <2>3 DEF Ahead, Stored
  <2>7. i < j
    BY <2>2, <2>3, <2>5, <2>6 DEF Ahead
  <2>8. j <= consumer[p].at
    BY <2>1, <2>5 DEF CommandInv, Reached
  <2>9. consumer[p].at \in Nat
    BY <2>1 DEF CommandInv, CommandTypeOK, TypeOK
  <2>10. i < consumer[p].at
    BY <2>7, <2>8, <2>9
  <2>11. QED BY <2>1, <2>6, <2>10 DEF CommandInv, Progress
<1>2. QED BY <1>1, InvAlways, PTL

(* A command takes one route: while it is in a stream of the ordered       *)
(* ingress nothing of it is scheduled or on its way as a plain event, also *)
(* when addComponent is repeated after a publication that failed and the   *)
(* time of a delayed command comes meanwhile.                              *)
THEOREM OneRoute ==
    CommandSpec => [](\A c \in Commands : Stored(c) => Unsent(c))
<1>1. CommandInv => \A c \in Commands : Stored(c) => Unsent(c)
  BY DEF CommandInv, Routes, Route
<1>2. QED BY <1>1, InvAlways, PTL

-----------------------------------------------------------------------------
(* One subscriber and nothing lost or slow: what is being handled is the   *)
(* first delivery of the message its consumer has pending, and the loop    *)
(* that pulled it is still replaying it; a pending message and a replaying *)
(* loop have a handler at work.                                            *)
Replayed(r) ==
    LET p == PartitionOf[r.command] IN
    /\ r.attempt = 1 /\ Awaits(r.instance, r)
    /\ consumer[p].state = "delivered" /\ consumer[p].attempt = 1
    /\ Current(p) = r.command

AllReplayed == \A r \in running : Replayed(r)

OneEach == \A r, q \in running :
               PartitionOf[r.command] = PartitionOf[q.command] => r = q

NoneDue == \A p \in Partitions :
               /\ consumer[p].state # "due"
               /\ consumer[p].state = "delivered" =>
                    \E r \in running : PartitionOf[r.command] = p

LoopsServe == \A i \in Instances, p \in Partitions :
    loop[<<i, p>>] # Idle =>
      \E r \in running : r.instance = i /\ PartitionOf[r.command] = p

Serial == AllReplayed /\ OneEach /\ NoneDue /\ LoopsServe

SerialInv == faults = 0 => Serial

(* The handlers, their loops and their consumers are left alone.           *)
LEMMA SerialFrame ==
    ASSUME CommandTypeOK, Serial, UNCHANGED <<consumer, loop, running>>,
           \A p \in Partitions :
             consumer[p].state = "delivered" => Current(p)' = Current(p)
    PROVE  Serial'
<1>1. UNCHANGED consumer /\ UNCHANGED loop /\ UNCHANGED running
  OBVIOUS
<1>2. ASSUME NEW r \in running PROVE Replayed(r)'
  <2>1. PartitionOf[r.command] \in Partitions
    BY IngressAssumption DEF CommandTypeOK, TypeOK, Invocations
  <2>2. Replayed(r)
    BY DEF Serial, AllReplayed
  <2>3. QED BY <1>1, <2>1, <2>2 DEF Replayed, Awaits
<1>3. QED BY <1>1, <1>2 DEF Serial, AllReplayed, OneEach, NoneDue,
                              LoopsServe

(* A partition of which nothing is pending is handed its next message.     *)
LEMMA SerialDeliver ==
    ASSUME CommandTypeOK, Pending, Keyed, Serial, NEW s, Subscribers = {s},
           NEW i \in Instances, NEW p \in Partitions, Deliver(i, p),
           UNCHANGED faults
    PROVE  Serial'
<1>1. PICK h : h = NextDelivery(p)
  OBVIOUS
<1>2. /\ h.at \in 1..Len(stream[p]) /\ h.state = "delivered"
      /\ stream[p][h.at] \in Commands
      /\ consumer' = [consumer EXCEPT ![p] = h]
      /\ loop' = [loop EXCEPT ![<<i, p>>] =
                    [command |-> stream[p][h.at], attempt |-> h.attempt]]
      /\ Invoke(i, stream[p][h.at], h.attempt)
  BY <1>1, DeliverFacts
<1>3. consumer[p].state \notin {"delivered", "due"} /\ UNCHANGED stream
  BY DEF Deliver, Serial, NoneDue
<1>4. h.attempt = 1
  BY <1>1, <1>3 DEF NextDelivery
<1>5. PICK c \in Commands : c = stream[p][h.at]
  BY <1>2
<1>6. PartitionOf[c] = p
  BY <1>2, <1>5 DEF Keyed
<1>7. TypeOK
  BY DEF CommandTypeOK
<1>8. /\ consumer'[p] = h
      /\ \A q \in Partitions \ {p} : consumer'[q] = consumer[q]
  BY <1>2, <1>7 DEF TypeOK
<1>9. loop' = [loop EXCEPT ![<<i, p>>] = [command |-> c, attempt |-> 1]]
  BY <1>2, <1>4, <1>5
<1>10. \A j \in Instances, q \in Partitions :
          loop'[<<j, q>>] = IF j = i /\ q = p THEN [command |-> c, attempt |-> 1]
                            ELSE loop[<<j, q>>]
  BY <1>7, <1>9 DEF TypeOK
<1>11. PICK n : n = [instance |-> i, command |-> c, attempt |-> 1, by |-> s]
  OBVIOUS
<1>12. n.instance = i /\ n.command = c /\ n.attempt = 1
  BY <1>11
<1>13. running' = running \cup {n}
  <2>1. faults' # faults + 1
    BY <1>7 DEF TypeOK
  <2>2. running' = running \cup [instance : {i}, command : {c}, attempt : {1},
                                 by : Subscribers]
    BY <1>2, <1>4, <1>5, <2>1 DEF Invoke, Fault
  <2>3. [instance : {i}, command : {c}, attempt : {1}, by : {s}] = {n}
    <3>1. n \in [instance : {i}, command : {c}, attempt : {1}, by : {s}]
      BY <1>11
    <3>2. ASSUME NEW m \in [instance : {i}, command : {c}, attempt : {1}, by : {s}]
          PROVE  m = n
      BY <1>11
    <3>3. QED BY <3>1, <3>2
  <2>4. QED BY <2>2, <2>3
<1>14. \A r \in running :
          /\ PartitionOf[r.command] \in Partitions \ {p}
          /\ r.instance \in Instances
          /\ Replayed(r)
  <2>1. SUFFICES ASSUME NEW r \in running
                 PROVE  /\ PartitionOf[r.command] \in Partitions \ {p}
                        /\ r.instance \in Instances
                        /\ Replayed(r)
    OBVIOUS
  <2>2. PartitionOf[r.command] \in Partitions /\ r.instance \in Instances
    BY <1>7, IngressAssumption DEF TypeOK, Invocations
  <2>3. Replayed(r)
    BY DEF Serial, AllReplayed
  <2>4. QED BY <1>3, <2>2, <2>3 DEF Replayed
<1>15. Replayed(n)'
  <2>1. /\ consumer'[p].state = "delivered" /\ consumer'[p].attempt = 1
        /\ Current(p)' = c
    BY <1>2, <1>3, <1>4, <1>5, <1>8 DEF Current
  <2>2. loop'[<<i, p>>] = [command |-> c, attempt |-> 1]
    BY <1>10
  <2>3. QED BY <1>6, <1>12, <2>1, <2>2 DEF Replayed, Awaits
<1>16. \A r \in running : Replayed(r)'
  <2>1. SUFFICES ASSUME NEW r \in running PROVE Replayed(r)'
    OBVIOUS
  <2>2. PICK q \in Partitions \ {p} : q = PartitionOf[r.command]
    BY <1>14
  <2>3. consumer'[q] = consumer[q] /\ loop'[<<r.instance, q>>] = loop[<<r.instance, q>>]
    BY <1>8, <1>10, <1>14, <2>2
  <2>4. QED BY <1>3, <1>14, <2>2, <2>3 DEF Replayed, Awaits, Current
<1>17. \A r, q \in running' :
          PartitionOf[r.command] = PartitionOf[q.command] => r = q
  BY <1>6, <1>12, <1>13, <1>14 DEF Serial, OneEach
<1>18. \A q \in Partitions :
          /\ consumer'[q].state # "due"
          /\ consumer'[q].state = "delivered" =>
               \E r \in running' : PartitionOf[r.command] = q
  <2>1. n \in running' /\ PartitionOf[n.command] = p
    BY <1>6, <1>12, <1>13
  <2>2. \A r \in running : r \in running'
    BY <1>13
  <2>3. QED BY <1>2, <1>8, <2>1, <2>2 DEF Serial, NoneDue
<1>19. \A j \in Instances, q \in Partitions :
          loop'[<<j, q>>] # Idle =>
            \E r \in running' : r.instance = j /\ PartitionOf[r.command] = q
  BY <1>6, <1>10, <1>12, <1>13 DEF Serial, LoopsServe
<1>20. AllReplayed'
  BY <1>13, <1>15, <1>16 DEF AllReplayed
<1>21. OneEach'
  BY <1>17 DEF OneEach
<1>22. NoneDue'
  BY <1>18 DEF NoneDue
<1>23. LoopsServe'
  BY <1>19 DEF LoopsServe
<1>24. QED BY <1>20, <1>21, <1>22, <1>23 DEF Serial

(* The reply that a loop awaits settles the message and frees the loop.    *)
LEMMA SerialReply ==
    ASSUME CommandTypeOK, Serial, NEW r \in running, Reply(r), UNCHANGED faults
    PROVE  Serial'
<1>1. TypeOK
  BY DEF CommandTypeOK
<1>2. PICK p \in Partitions : p = PartitionOf[r.command]
  BY <1>1, IngressAssumption DEF TypeOK, Invocations
<1>3. Replayed(r) /\ r.instance \in Instances
  BY <1>1 DEF Serial, AllReplayed, TypeOK, Invocations
<1>4. faults' # faults + 1
  BY <1>1 DEF TypeOK
<1>5. /\ running' = running \ {r} /\ UNCHANGED stream
      /\ loop' = [loop EXCEPT ![<<r.instance, p>>] = Idle]
      /\ consumer' = [consumer EXCEPT ![p].state = "free"]
  BY <1>2, <1>3, <1>4 DEF Reply, Replayed, Ack, Fault
<1>6. /\ \A j \in Instances, q \in Partitions :
           loop'[<<j, q>>] = IF j = r.instance /\ q = p THEN Idle ELSE loop[<<j, q>>]
  BY <1>1, <1>3, <1>5 DEF TypeOK
<1>7. /\ consumer'[p].state = "free"
      /\ \A q \in Partitions \ {p} : consumer'[q] = consumer[q]
  BY <1>1, <1>5 DEF TypeOK
<1>8. \A m \in running' : /\ m \in running
                          /\ PartitionOf[m.command] \in Partitions \ {p}
                          /\ m.instance \in Instances
                          /\ Replayed(m)
  <2>1. SUFFICES ASSUME NEW m \in running, m # r
                 PROVE  /\ PartitionOf[m.command] \in Partitions \ {p}
                        /\ m.instance \in Instances
                        /\ Replayed(m)
    BY <1>5
  <2>2. PartitionOf[m.command] \in Partitions /\ m.instance \in Instances
    BY <1>1, IngressAssumption DEF TypeOK, Invocations
  <2>3. QED BY <1>2, <2>1, <2>2 DEF Serial, AllReplayed, OneEach
<1>9. \A m \in running' : Replayed(m)'
  <2>1. SUFFICES ASSUME NEW m \in running' PROVE Replayed(m)'
    OBVIOUS
  <2>2. PICK q \in Partitions \ {p} : q = PartitionOf[m.command]
    BY <1>8
  <2>3. consumer'[q] = consumer[q] /\ loop'[<<m.instance, q>>] = loop[<<m.instance, q>>]
    BY <1>6, <1>7, <1>8, <2>2
  <2>4. QED BY <1>5, <1>8, <2>2, <2>3 DEF Replayed, Awaits, Current
<1>10. \A q \in Partitions :
          /\ consumer'[q].state # "due"
          /\ consumer'[q].state = "delivered" =>
               \E m \in running' : PartitionOf[m.command] = q
  <2>1. \A m \in running : PartitionOf[m.command] # p => m \in running'
    BY <1>2, <1>5
  <2>2. QED BY <1>7, <2>1 DEF Serial, NoneDue
<1>11. \A j \in Instances, q \in Partitions :
          loop'[<<j, q>>] # Idle =>
            \E m \in running' : m.instance = j /\ PartitionOf[m.command] = q
  <2>1. SUFFICES ASSUME NEW j \in Instances, NEW q \in Partitions,
                        loop'[<<j, q>>] # Idle
                 PROVE  \E m \in running' :
                          m.instance = j /\ PartitionOf[m.command] = q
    OBVIOUS
  <2>2. loop[<<j, q>>] # Idle /\ ~(j = r.instance /\ q = p)
    BY <1>6, <2>1
  <2>3. PICK m \in running : m.instance = j /\ PartitionOf[m.command] = q
    BY <2>2 DEF Serial, LoopsServe
  <2>4. m # r
    BY <1>2, <2>2, <2>3
  <2>5. QED BY <1>5, <2>3, <2>4
<1>12. \A m, n \in running' :
          PartitionOf[m.command] = PartitionOf[n.command] => m = n
  BY <1>8 DEF Serial, OneEach
<1>13. QED BY <1>9, <1>10, <1>11, <1>12
           DEF Serial, AllReplayed, OneEach, NoneDue, LoopsServe

LEMMA SerialStep ==
    ASSUME NEW s, Subscribers = {s}, CommandInv, Identified, SerialInv,
           [CommandNext]_all
    PROVE  SerialInv'
<1>1. /\ CommandTypeOK /\ Keyed /\ Pending
  BY DEF CommandInv
<1>2. TypeOK /\ faults \in Nat
  BY <1>1 DEF CommandTypeOK, TypeOK
<1>3. SUFFICES ASSUME faults' = 0 PROVE Serial'
  BY DEF SerialInv
<1>4. ~Fault
  BY <1>2, <1>3 DEF Fault
<1>5. ASSUME UNCHANGED faults PROVE Serial
  BY <1>3, <1>5 DEF SerialInv
<1>6. ASSUME UNCHANGED <<stream, consumer, loop, running, faults>> PROVE Serial'
  BY <1>1, <1>5, <1>6, SerialFrame DEF Current
<1>7. CASE UNCHANGED all
  BY <1>6, <1>7 DEF all, vars
<1>8. ASSUME NEW p \in Partitions, ServePartition(p) PROVE Serial'
  <2>1. ASSUME NEW i \in Instances, ReplayTimesOut(i, p) PROVE FALSE
    <3>1. /\ loop[<<i, p>>] # Idle /\ UNCHANGED faults
          /\ ~\E r \in running : /\ r.instance = i /\ Awaits(i, r)
                                 /\ PartitionOf[r.command] = p
      BY <1>4, <2>1 DEF ReplayTimesOut, Ok
    <3>2. PICK r \in running : r.instance = i /\ PartitionOf[r.command] = p
      BY <1>5, <3>1 DEF Serial, LoopsServe
    <3>3. Awaits(i, r)
      BY <1>5, <3>1, <3>2 DEF Serial, AllReplayed, Replayed
    <3>4. QED BY <3>1, <3>2, <3>3
  <2>2. ASSUME NEW i \in Instances, Deliver(i, p) PROVE Serial'
    <3>1. UNCHANGED faults
      BY <1>4, <2>2 DEF Deliver, Invoke, Ok
    <3>2. QED BY <1>1, <1>5, <2>2, <3>1, SerialDeliver
  <2>3. CASE AckWaitExpires(p)
    <3>1. /\ consumer[p].state = "delivered" /\ UNCHANGED faults
          /\ \A i \in Instances :
               loop[<<i, p>>] # [command |-> Current(p), attempt |-> consumer[p].attempt]
      BY <1>4, <2>3 DEF AckWaitExpires, Ok
    <3>2. PICK r \in running : PartitionOf[r.command] = p
      BY <1>5, <3>1 DEF Serial, NoneDue
    <3>3. Replayed(r) /\ r.instance \in Instances
      BY <1>2, <1>5, <3>1 DEF Serial, AllReplayed, TypeOK, Invocations
    <3>4. loop[<<r.instance, p>>] =
             [command |-> Current(p), attempt |-> consumer[p].attempt]
      BY <3>2, <3>3 DEF Replayed, Awaits
    <3>5. QED BY <3>1, <3>3, <3>4
  <2>4. QED BY <1>8, <2>1, <2>2, <2>3 DEF ServePartition
<1>9. CASE ServeReply
  <2>1. PICK r \in running : Reply(r)
    BY <1>9 DEF ServeReply
  <2>2. UNCHANGED faults
    BY <1>4, <2>1 DEF Reply, Ok
  <2>3. QED BY <1>1, <1>5, <2>1, <2>2, SerialReply
<1>10. CASE LoseHandler
  BY <1>4, <1>10 DEF LoseHandler, HandlerDies
<1>11. ASSUME NEW i \in Instances, LifeStep(i) PROVE Serial'
  <2>1. UNCHANGED <<stream, consumer, running, faults>>
    BY <1>4, <1>11, LifeFacts
  <2>2. UNCHANGED loop
    BY <1>4, <1>11, LifeFacts DEF Crash
  <2>3. QED BY <1>6, <2>1, <2>2
<1>12. ASSUME NEW c \in Commands, CallStep(c) PROVE Serial'
  <2>1. UNCHANGED <<stream, consumer, loop, running>>
    BY <1>12 DEF CallStep, Forbid, ClearField, EmitDelayed, Refuse, EmitAdded,
                 EmitUpdated, EmitSucceeded, EmitPlain, Elapse, FireSchedule, vars
  <2>2. UNCHANGED faults
    BY <1>4, <1>12 DEF CallStep, Forbid, ClearField, EmitDelayed, Refuse, EmitAdded,
                 EmitUpdated, EmitSucceeded, EmitPlain, Elapse, FireSchedule, Spread,
                 Ok, vars
  <2>3. QED BY <1>6, <2>1, <2>2
<1>13. ASSUME NEW c \in Commands, PublishCommand(c) PROVE Serial'
  <2>1. /\ UNCHANGED stream \/ Grows(c)
        /\ UNCHANGED <<consumer, loop, running, faults>>
    BY <1>1, <1>4, <1>13, PublishFacts
  <2>2. \A p \in Partitions :
          consumer[p].state = "delivered" => Current(p)' = Current(p)
    <3>1. SUFFICES ASSUME NEW p \in Partitions, consumer[p].state = "delivered"
                   PROVE  Current(p)' = Current(p)
      OBVIOUS
    <3>2. consumer[p].at \in 1..Len(stream[p])
      BY <1>1, <3>1, CurrentType
    <3>3. CASE UNCHANGED stream
      BY <2>1, <3>3 DEF Current
    <3>4. CASE Grows(c)
      <4>1. CASE p = PartitionOf[c]
        BY <2>1, <3>2, <3>4, <4>1 DEF Grows, Current
      <4>2. CASE p # PartitionOf[c]
        BY <2>1, <3>4, <4>2 DEF Grows, Current
      <4>3. QED BY <4>1, <4>2
    <3>5. QED BY <2>1, <3>3, <3>4
  <2>3. QED BY <1>1, <1>5, <2>1, <2>2, SerialFrame
<1>14. ASSUME NEW c \in Commands, NEW t \in Subscribers, HandleDirect(c, t)
       PROVE  Serial'
  BY <1>4, <1>6, <1>14 DEF HandleDirect, Ok
<1>15. QED BY <1>7, <1>8, <1>9, <1>10, <1>11, <1>12, <1>13, <1>14
           DEF CommandNext, LifeStep, CallStep

(* With one subscriber, and as long as nothing is lost or slow, the        *)
(* handlers of a partition run one at a time, on one command, once: with a *)
(* second one the first reply settles the message while the other handler  *)
(* still runs, and the next command is handed out.                         *)
THEOREM OneHandlerAtATime ==
    ASSUME NEW s, Subscribers = {s}
    PROVE  CommandSpec => []OneAtATime
<1>1. CommandInit => SerialInv
  BY DEF CommandInit, SerialInv, Serial, AllReplayed, OneEach, NoneDue,
         LoopsServe
<1>2. Inv /\ SerialInv /\ [CommandNext]_all => SerialInv'
  BY SerialStep DEF Inv
<1>3. SerialInv => OneAtATime
  BY DEF SerialInv, Serial, AllReplayed, OneEach, Replayed, OneAtATime
<1>4. QED BY <1>1, <1>2, <1>3, AllAlways, PTL DEF CommandSpec
=============================================================================
