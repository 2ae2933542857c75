--------------------------- MODULE OrderedIngress ---------------------------
(***************************************************************************)
(* EbcaOrderedIngressService: commands with a partition key go through a   *)
(* JetStream stream with one durable consumer per partition; the instances *)
(* of a service pull from it, replay the command as a NATS request on its  *)
(* original topic and acknowledge it when a reply arrives.                 *)
(*                                                                         *)
(* Deliver, AckWaitExpires and the effect of an acknowledgement stand for  *)
(* the JetStream server under the consumer's configuration (one message    *)
(* pending, ack_wait, max_deliver); Invoke and Reply stand for NATS and    *)
(* the handlers, which run in whatever service subscribes to the topic.    *)
(***************************************************************************)
EXTENDS Naturals, Sequences, FiniteSets

CONSTANTS Commands,      \* the commands published: component objects
          Partitions,    \* the partitions of the ingress
          PartitionOf,   \* resolvePartition of a command's partition key
          Instances,     \* the instances that run consumer loops
          Subscribers,   \* the queue groups subscribed to the topic
          GivenId,       \* the commandId a command has from its caller, or 0
          Issued,        \* the number of ids that callers have drawn
          MaxDeliver,    \* maxDeliver of the rule
          MaxFaults,     \* bound on lost messages, slow and failing handlers
          None

ASSUME IngressAssumption ==
    /\ PartitionOf \in [Commands -> Partitions]
    /\ Issued \in Nat /\ GivenId \in [Commands -> 0..Issued]
    /\ \A c, d \in Commands :
         GivenId[c] = GivenId[d] /\ GivenId[c] # 0 => c = d
    /\ MaxDeliver \in Nat \ {0}
    /\ MaxFaults \in Nat
    /\ None \notin Commands

VARIABLES stream,     \* the messages of each partition, in stream order
          publisher,  \* what each command's publisher knows
          commandId,  \* the id that each component object carries, 0 for none
          drawn,      \* the number of random ids drawn so far: the last id
          seen,       \* the message ids in the duplicate window of the streams
          consumer,   \* the durable consumer of each partition
          loop,       \* the delivery each consumer loop is replaying
          up,         \* the instances that are not shutting down
          running,    \* the handler invocations in progress
          handled,    \* <<command, subscriber>>: a handler ran to its end
          acked,      \* the commands acknowledged
          dropped,    \* the commands given up after MaxDeliver deliveries
          faults

ids == <<commandId, drawn, seen>>
vars == <<stream, publisher, ids, consumer, loop, up, running, handled, acked,
          dropped, faults>>

Idle == [command |-> None, attempt |-> 0]
Deliveries == [command : Commands, attempt : 1..MaxDeliver]
Invocations == [instance : Instances, command : Commands,
                attempt : 1..MaxDeliver, by : Subscribers]

(* at is the position of the last message delivered, "delivered" while its *)
(* ack_wait runs, "due" when it is to be delivered again.                  *)
TypeOK ==
    /\ stream \in [Partitions -> Seq(Commands)]
    /\ publisher \in [Commands -> {"new", "published", "failed"}]
    /\ drawn \in Nat /\ seen \subseteq 1..drawn
    /\ commandId \in [Commands -> 0..drawn]
    /\ consumer \in [Partitions -> [at : Nat, attempt : 0..MaxDeliver,
                                    state : {"free", "delivered", "due"}]]
    /\ \A p \in Partitions : /\ consumer[p].at <= Len(stream[p])
                             /\ consumer[p].state = "due" =>
                                  consumer[p].attempt < MaxDeliver
    /\ loop \in [Instances \X Partitions -> Deliveries \cup {Idle}]
    /\ up \subseteq Instances
    /\ running \subseteq Invocations
    /\ handled \subseteq Commands \X Subscribers
    /\ acked \subseteq Commands /\ dropped \subseteq Commands
    /\ faults \in Nat

Init ==
    /\ stream = [p \in Partitions |-> <<>>]
    /\ publisher = [c \in Commands |-> "new"]
    /\ commandId = GivenId /\ drawn = Issued /\ seen = {}
    /\ consumer = [p \in Partitions |->
                     [at |-> 0, attempt |-> 0, state |-> "free"]]
    /\ loop = [ip \in Instances \X Partitions |-> Idle]
    /\ up = Instances
    /\ running = {} /\ handled = {}
    /\ acked = {} /\ dropped = {}
    /\ faults = 0

Ok == UNCHANGED faults
Fault == faults < MaxFaults /\ faults' = faults + 1

Stored(c) == \E i \in 1..Len(stream[PartitionOf[c]]) :
                 stream[PartitionOf[c]][i] = c
Current(p) == stream[p][consumer[p].at]

-----------------------------------------------------------------------------
(* Mutant: the id of the component is not looked at.                       *)
CommandIdAnew(c) == drawn + 1

(* A component that has no commandId gets a random one, and carries it from *)
(* before the publication on.                                              *)
CommandId(c) == IF commandId[c] # 0 THEN commandId[c] ELSE drawn + 1

(* JetStream drops a message whose msgID it has seen within its duplicate  *)
(* window (two minutes); calls are repeated within the window.             *)
Store(c, id) ==
    /\ stream' = IF id \in seen THEN stream
                 ELSE [stream EXCEPT ![PartitionOf[c]] = Append(@, c)]
    /\ seen' = seen \cup {id}

(* publishIfConfigured: the caller learns that the command is stored, or   *)
(* the publication fails, before or after it was stored, and the caller    *)
(* may add the same component object again.  (A new object that asks for   *)
(* the same is another command.)                                           *)
Publish(c) ==
    /\ publisher[c] \in {"new", "failed"}
    /\ commandId' = [commandId EXCEPT ![c] = CommandId(c)]
    /\ drawn' = IF commandId[c] # 0 THEN drawn ELSE drawn + 1
    /\ \/ /\ Ok
          /\ Store(c, CommandId(c))
          /\ publisher' = [publisher EXCEPT ![c] = "published"]
       \/ /\ Fault
          /\ Store(c, CommandId(c)) \/ UNCHANGED <<stream, seen>>
          /\ publisher' = [publisher EXCEPT ![c] = "failed"]
    /\ UNCHANGED <<consumer, loop, up, running, handled, acked, dropped>>

-----------------------------------------------------------------------------
(* The request of replayEnvelope reaches every queue group, or is lost.    *)
Invoke(i, c, n) ==
    \/ Ok /\ running' = running \cup
              [instance : {i}, command : {c}, attempt : {n}, by : Subscribers]
    \/ Fault /\ UNCHANGED running

(* Mutant: the consumer hands out messages while one is pending.           *)
DeliverAny(i, p) ==
    LET k == consumer[p]
        c == stream[p][k.at + 1] IN
    /\ i \in up /\ loop[<<i, p>>] = Idle
    /\ k.at < Len(stream[p])
    /\ consumer' = [consumer EXCEPT ![p] = [at |-> k.at + 1, attempt |-> 1,
                                            state |-> "delivered"]]
    /\ loop' = [loop EXCEPT ![<<i, p>>] = [command |-> c, attempt |-> 1]]
    /\ Invoke(i, c, 1)
    /\ UNCHANGED <<stream, publisher, ids, up, handled, acked, dropped>>

(* consumePartition: an idle loop pulls the next message of its partition, *)
(* or the pending one again, and replays it.                               *)
Deliver(i, p) ==
    LET k == consumer[p]
        at == IF k.state = "due" THEN k.at ELSE k.at + 1
        attempt == IF k.state = "due" THEN k.attempt + 1 ELSE 1
        c == stream[p][at] IN
    /\ i \in up /\ loop[<<i, p>>] = Idle
    /\ k.state # "delivered"
    /\ at <= Len(stream[p])
    /\ consumer' = [consumer EXCEPT ![p] = [at |-> at, attempt |-> attempt,
                                            state |-> "delivered"]]
    /\ loop' = [loop EXCEPT ![<<i, p>>] = [command |-> c, attempt |-> attempt]]
    /\ Invoke(i, c, attempt)
    /\ UNCHANGED <<stream, publisher, ids, up, handled, acked, dropped>>

Awaits(i, r) == loop[<<i, PartitionOf[r.command]>>] =
                    [command |-> r.command, attempt |-> r.attempt]

(* Mutant: the loop acknowledges and does not wait for a reply.            *)
ReplayTimesOutAcks(i, p) ==
    LET k == consumer[p]  c == loop[<<i, p>>].command IN
    /\ loop[<<i, p>>] # Idle
    /\ loop' = [loop EXCEPT ![<<i, p>>] = Idle]
    /\ IF k.state # "free" /\ Current(p) = c
       THEN /\ consumer' = [consumer EXCEPT ![p].state = "free"]
            /\ acked' = acked \cup {c}
       ELSE UNCHANGED <<consumer, acked>>
    /\ UNCHANGED <<stream, publisher, ids, up, running, handled, dropped,
                   faults>>

(* The replay request times out, or its instance dies: the error is logged *)
(* and the message stays unacknowledged.  A handler goes on.               *)
ReplayTimesOut(i, p) ==
    /\ loop[<<i, p>>] # Idle
    /\ \/ Ok /\ ~\E r \in running : r.instance = i /\ Awaits(i, r)
                                      /\ PartitionOf[r.command] = p
       \/ Fault
    /\ loop' = [loop EXCEPT ![<<i, p>>] = Idle]
    /\ UNCHANGED <<stream, publisher, ids, consumer, up, running, handled,
                   acked, dropped>>

(* message.ack(): the server settles the message if it is still pending,   *)
(* whichever of its deliveries the acknowledgement is for.                 *)
Ack(c) ==
    LET p == PartitionOf[c] IN
    IF consumer[p].state # "free" /\ Current(p) = c
    THEN /\ consumer' = [consumer EXCEPT ![p].state = "free"]
         /\ acked' = acked \cup {c}
    ELSE UNCHANGED <<consumer, acked>>

(* A handler ends, with a result or with an error, and its reply arrives.  *)
(* A request resolves with the first reply: the loop acknowledges, and the *)
(* acknowledgement may be lost.  Later replies find nobody waiting.        *)
Reply(r) ==
    LET i == r.instance  p == PartitionOf[r.command] IN
    /\ running' = running \ {r}
    /\ handled' = handled \cup {<<r.command, r.by>>}
    /\ IF Awaits(i, r)
       THEN /\ loop' = [loop EXCEPT ![<<i, p>>] = Idle]
            /\ \/ Ok /\ Ack(r.command)
               \/ Fault /\ UNCHANGED <<consumer, acked>>
       ELSE Ok /\ UNCHANGED <<loop, consumer, acked>>
    /\ UNCHANGED <<stream, publisher, ids, up, dropped>>

(* The instance that runs a handler dies; nobody replies.                  *)
HandlerDies(r) ==
    /\ Fault
    /\ running' = running \ {r}
    /\ UNCHANGED <<stream, publisher, ids, consumer, loop, up, handled, acked,
                   dropped>>

(* ack_wait runs out: the message is due again, or given up.  The timeout  *)
(* of the replay is the shorter one, so a loop that is still replaying the *)
(* delivery then was slow (or has ackWaitMs at its minimum of 1000).       *)
AckWaitExpires(p) ==
    LET k == consumer[p] IN
    /\ k.state = "delivered"
    /\ \/ Ok /\ \A i \in Instances :
                  loop[<<i, p>>] # [command |-> Current(p), attempt |-> k.attempt]
       \/ Fault
    /\ IF k.attempt < MaxDeliver
       THEN /\ consumer' = [consumer EXCEPT ![p].state = "due"]
            /\ UNCHANGED dropped
       ELSE /\ consumer' = [consumer EXCEPT ![p].state = "free"]
            /\ dropped' = dropped \cup {Current(p)}
    /\ UNCHANGED <<stream, publisher, ids, loop, up, running, handled, acked>>

(* onApplicationShutdown of one instance of a rolling restart: its loops   *)
(* finish the replay they are in and pull nothing more.                    *)
Stop(i) ==
    /\ i \in up /\ up # {i}
    /\ up' = up \ {i}
    /\ UNCHANGED <<stream, publisher, ids, consumer, loop, running, handled,
                   acked, dropped, faults>>

Next ==
    \/ \E c \in Commands : Publish(c)
    \/ \E i \in Instances, p \in Partitions : Deliver(i, p) \/ ReplayTimesOut(i, p)
    \/ \E r \in running : Reply(r) \/ HandlerDies(r)
    \/ \E p \in Partitions : AckWaitExpires(p)
    \/ \E i \in Instances : Stop(i)

Spec == Init /\ [][Next]_vars

-----------------------------------------------------------------------------
Settled == acked \cup dropped

(* A command is not handed to any handler before every command ahead of it *)
(* in its partition was acknowledged or given up: not when instances of    *)
(* the service compete for the partition, when deliveries are repeated,    *)
(* or when acknowledgements arrive late.                                   *)
NoOvertaking ==
    \A p \in Partitions : \A j \in 1..Len(stream[p]), i \in 1..Len(stream[p]) :
        /\ i < j
        /\ \/ \E r \in running : r.command = stream[p][j]
           \/ \E s \in Subscribers : <<stream[p][j], s>> \in handled
        => stream[p][i] \in Settled

(* An acknowledged command was handled to its end by some subscriber, also *)
(* when its acknowledgement is for an earlier delivery than the last.      *)
AckedWasHandled == \A c \in acked : \E s \in Subscribers : <<c, s>> \in handled

(* While nothing is lost or slow the handlers of a partition run one at a  *)
(* time, on one command, once.                                             *)
OneAtATime ==
    faults = 0 =>
        \A r, q \in running :
            PartitionOf[r.command] = PartitionOf[q.command] =>
                r.command = q.command /\ r.attempt = 1

(* However often the publication of a command fails, also after it was     *)
(* stored, and is repeated, the command is stored once; and a publication  *)
(* that succeeded did store it: its id is taken for no other command's.    *)
PublishedOnce ==
    /\ \A p \in Partitions : \A i, j \in 1..Len(stream[p]) :
         stream[p][i] = stream[p][j] => i = j
    /\ \A c \in Commands : publisher[c] = "published" => Stored(c)
=============================================================================
