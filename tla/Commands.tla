------------------------------ MODULE Commands ------------------------------
(***************************************************************************)
(* The calls that add, update or remove a command component, and the life  *)
(* of the instances that serve the ordered ingress.                        *)
(*                                                                         *)
(* A command is never stored as a component: addComponent clears its Redis *)
(* field and hands it to one of three routes: the delayed stream, the      *)
(* ordered ingress (module OrderedIngress) or a plain event.  An instance  *)
(* registers its rules, ensures streams and consumers and starts its loops *)
(* before it serves anything; it may be stopped, may crash, and starts     *)
(* again.                                                                  *)
(***************************************************************************)
EXTENDS OrderedIngress

CONSTANTS Rules,     \* the orderedIngress options of the handlers, in the
                     \* order in which their classes were loaded
          Requests,  \* what the calls may ask, for every command
          MaxStops   \* bound on the rolling restarts

DefaultPartitions == 16

(* EbcaPattern admits orderedIngress only for the ADDED topic of one       *)
(* component of one entity; a program with another rule does not load.     *)
Declarable(rule) == rule.event = "added" /\ rule.handles # None

NormalizePositiveInteger(value, fallback) ==
    IF value \in Nat \ {0} THEN value ELSE fallback

(* resolveRule: what is not declared has a default.                        *)
ResolveRule(rule) ==
    [handles |-> rule.handles, ingress |-> rule.ingress,
     stream |-> IF rule.stream = None THEN rule.ingress ELSE rule.stream,
     partitions |-> NormalizePositiveInteger(rule.partitions, DefaultPartitions)]

(* rulesByStream: a later rule of a stream replaces an earlier one.        *)
RulesByStream ==
    {ResolveRule(Rules[n]) : n \in {m \in DOMAIN Rules :
        \A k \in DOMAIN Rules :
            k > m => ResolveRule(Rules[k]).stream # ResolveRule(Rules[m]).stream}}

(* Mutant: the last partition gets no consumer.                            *)
ConsumedFewer == UNION {{<<rule.ingress, n>> : n \in 0..(rule.partitions - 2)} :
                            rule \in RulesByStream}

(* The partitions that get a consumer and a loop.                          *)
Consumed == UNION {{<<rule.ingress, n>> : n \in 0..(rule.partitions - 1)} :
                       rule \in RulesByStream}

(* The hash of the key is taken from outside, its length is 32 bits.       *)
ResolvePartition(rule, hash) == <<rule.ingress, hash % rule.partitions>>

(* A call asks for an operation on a command of the class "handles"; known *)
(* says whether its process has loaded the handler and so knows its rule,  *)
(* hash is that of the partition key, None when the key is blank; allowed  *)
(* is what checkComponentPermissions finds of the roles of the caller.     *)
RuleFor(q) == {ResolveRule(rule) : rule \in
                 {Rules[n] : n \in {m \in DOMAIN Rules :
                                      q.known /\ Rules[m].handles = q.handles}}}

ASSUME CommandsAssumption ==
    /\ MaxStops \in Nat
    /\ \A n \in DOMAIN Rules : Declarable(Rules[n])
    /\ Consumed \subseteq Partitions
    /\ \A requests \in Requests, c \in Commands :
         \A rule \in RuleFor(requests[c]) :
            requests[c].hash # None =>
                PartitionOf[c] = ResolvePartition(rule, requests[c].hash)

(* Rules that share a stream are those of one ingress.                     *)
ASSUME RulesAgree ==
    \A n, m \in DOMAIN Rules :
        LET r == ResolveRule(Rules[n])  q == ResolveRule(Rules[m]) IN
        r.stream = q.stream => r.ingress = q.ingress /\ r.partitions = q.partitions

VARIABLES request,    \* what the call for each command asks
          call,       \* where that call is
          before,     \* the commands accepted before each call first began
          due,        \* the delayed commands whose time has come
          scheduled,  \* the messages held by the delayed stream
          direct,     \* the plain events on their way to a subscriber
          lost,       \* the commands some plain message of which was lost
          phase,      \* of each instance
          stops

calls == <<request, call, before, due, scheduled, direct, lost>>
life == <<phase, stops>>
all == <<vars, calls, life>>

CommandTypeOK ==
    /\ TypeOK
    /\ request \in Requests
    /\ call \in [Commands -> {"new", "early", "late", "refused", "accepted"}]
    /\ before \in [Commands -> SUBSET Commands]
    /\ due \subseteq Commands /\ scheduled \subseteq Commands
    /\ direct \subseteq Commands \X Subscribers
    /\ lost \subseteq Commands
    /\ phase \in [Instances -> {"down", "starting", "up", "draining"}]
    /\ up = {i \in Instances : phase[i] = "up"}
    /\ \A i \in Instances, p \in Partitions :
         loop[<<i, p>>] # Idle =>
           phase[i] \in {"up", "draining"} /\ p \in Consumed
    /\ stops \in 0..MaxStops

CommandInit ==
    /\ stream = [p \in Partitions |-> <<>>]
    /\ publisher = [c \in Commands |-> "new"]
    /\ commandId = GivenId /\ drawn = Issued /\ seen = {}
    /\ consumer = [p \in Partitions |->
                     [at |-> 0, attempt |-> 0, state |-> "free"]]
    /\ loop = [ip \in Instances \X Partitions |-> Idle]
    /\ up = {} /\ running = {} /\ handled = {}
    /\ acked = {} /\ dropped = {} /\ faults = 0
    /\ request \in Requests
    /\ call = [c \in Commands |-> "new"]
    /\ before = [c \in Commands |-> {}]
    /\ due = {} /\ scheduled = {} /\ direct = {} /\ lost = {}
    /\ phase = [i \in Instances |-> "down"] /\ stops = 0

-----------------------------------------------------------------------------
(* onModuleInit: a rule that is not of a command, or a second rule of one  *)
(* handler topic, throws and the instance does not start.                  *)
RegisterRules(i) ==
    /\ phase[i] = "down"
    /\ \A n, m \in DOMAIN Rules : Rules[n].handles = Rules[m].handles => n = m
    /\ phase' = [phase EXCEPT ![i] = "starting"]
    /\ UNCHANGED <<vars, calls, stops>>

(* The stream and then each consumer of every rule is updated, or added    *)
(* when it is not found; any other error ends the start of the instance.   *)
EnsureFails(i) ==
    /\ phase[i] = "starting"
    /\ Fault
    /\ phase' = [phase EXCEPT ![i] = "down"]
    /\ UNCHANGED <<stream, publisher, ids, consumer, loop, up, running,
                   handled, acked, dropped, calls, stops>>

(* Everything is ensured and the loops start at once.                      *)
StartConsumerLoops(i) ==
    /\ phase[i] = "starting"
    /\ phase' = [phase EXCEPT ![i] = "up"]
    /\ up' = up \cup {i}
    /\ UNCHANGED <<stream, publisher, ids, consumer, loop, running, handled,
                   acked, dropped, faults, calls, stops>>

(* onApplicationShutdown, as a rolling restart sends it: the loops finish  *)
(* their replays, then the connection is drained.                          *)
BeginShutdown(i) ==
    /\ stops < MaxStops /\ stops' = stops + 1
    /\ Stop(i)
    /\ phase' = [phase EXCEPT ![i] = "draining"]
    /\ UNCHANGED calls

(* Mutant: the loops are not awaited.                                      *)
FinishShutdownAtOnce(i) ==
    /\ phase[i] = "draining"
    /\ phase' = [phase EXCEPT ![i] = "down"]
    /\ UNCHANGED <<vars, calls, stops>>

FinishShutdown(i) ==
    /\ phase[i] = "draining"
    /\ \A p \in Partitions : loop[<<i, p>>] = Idle
    /\ phase' = [phase EXCEPT ![i] = "down"]
    /\ UNCHANGED <<vars, calls, stops>>

(* The process dies with its replays; the handlers they reached go on.     *)
Crash(i) ==
    /\ phase[i] \in {"up", "draining"}
    /\ Fault
    /\ phase' = [phase EXCEPT ![i] = "down"]
    /\ up' = up \ {i}
    /\ loop' = [ip \in DOMAIN loop |-> IF ip[1] = i THEN Idle ELSE loop[ip]]
    /\ UNCHANGED <<stream, publisher, ids, consumer, running, handled, acked,
                   dropped, calls, stops>>

-----------------------------------------------------------------------------
(* checkComponentPermissions throws before anything else happens.          *)
Forbid(c) ==
    /\ up # {} /\ call[c] = "new" /\ ~request[c].allowed
    /\ call' = [call EXCEPT ![c] = "refused"]
    /\ UNCHANGED <<vars, request, before, due, scheduled, direct, lost, life>>

(* A call, of a process of the service that is up, deletes the field of    *)
(* its command in Redis.  Whether the command is to be delayed is decided  *)
(* by the time at which the call began.  The call may be repeated when its *)
(* publication failed.                                                     *)
ClearField(c) ==
    /\ up # {} /\ call[c] = "new" /\ request[c].allowed
    /\ call' = [call EXCEPT ![c] =
                  IF /\ request[c].operation = "add"
                     /\ request[c].delayed /\ c \notin due
                  THEN "early" ELSE "late"]
    /\ before' = IF publisher[c] = "failed" THEN before
                 ELSE [before EXCEPT ![c] = {d \in Commands : call[d] = "accepted"}]
    /\ UNCHANGED <<vars, request, due, scheduled, direct, lost, life>>

(* emitDelayed publishes a message with a schedule and waits for nothing.  *)
EmitDelayed(c) ==
    /\ call[c] = "early"
    /\ call' = [call EXCEPT ![c] = "accepted"]
    /\ \/ Ok /\ scheduled' = scheduled \cup {c} /\ UNCHANGED lost
       \/ Fault /\ lost' = lost \cup {c} /\ UNCHANGED scheduled
    /\ UNCHANGED <<stream, publisher, ids, consumer, loop, up, running,
                   handled, acked, dropped, request, before, due, direct,
                   life>>

Ruled(c) == request[c].operation = "add" /\ RuleFor(request[c]) # {}

(* publishIfConfigured throws when the key of the command is blank.        *)
Refuse(c) ==
    /\ call[c] = "late" /\ Ruled(c) /\ request[c].hash = None
    /\ call' = [call EXCEPT ![c] = "refused"]
    /\ UNCHANGED <<vars, request, before, due, scheduled, direct, lost, life>>

(* Mutant: the publication is not awaited.                                 *)
PublishCommandLater(c) ==
    /\ Ruled(c) /\ request[c].hash # None
    /\ \/ /\ call[c] = "late"
          /\ UNCHANGED vars
       \/ /\ call[c] = "accepted" /\ publisher[c] # "published"
          /\ Publish(c)
    /\ call' = [call EXCEPT ![c] = "accepted"]
    /\ UNCHANGED <<request, before, due, scheduled, direct, lost, life>>

(* The command is published to its partition, and the call returns when    *)
(* the stream has confirmed it.                                            *)
PublishCommand(c) ==
    /\ call[c] = "late" /\ Ruled(c) /\ request[c].hash # None
    /\ Publish(c)
    /\ call' = [call EXCEPT ![c] = IF publisher'[c] = "published"
                                   THEN "accepted" ELSE "new"]
    /\ UNCHANGED <<request, before, due, scheduled, direct, lost, life>>

(* NATS hands a plain event to one member of each queue group, or loses it.*)
Spread(c) ==
    \/ Ok /\ direct' = direct \cup ({c} \X Subscribers) /\ UNCHANGED lost
    \/ Fault /\ lost' = lost \cup {c} /\ UNCHANGED direct

(* The plain event of a call ends it.                                      *)
EmitPlain(c) ==
    /\ call[c] = "late"
    /\ call' = [call EXCEPT ![c] = "accepted"]
    /\ Spread(c)
    /\ UNCHANGED <<stream, publisher, ids, consumer, loop, up, running,
                   handled, acked, dropped, request, before, due, scheduled,
                   life>>

(* An ADDED event when no rule is known.                                   *)
EmitAdded(c) == request[c].operation = "add" /\ ~Ruled(c) /\ EmitPlain(c)

(* updateComponent: the UPDATED event of the command as it is given.       *)
EmitUpdated(c) == request[c].operation = "update" /\ EmitPlain(c)

(* removeComponent: an UPDATED event that announces its success.           *)
EmitSucceeded(c) == request[c].operation = "remove" /\ EmitPlain(c)

(* The time of a delayed command comes.                                    *)
Elapse(c) ==
    /\ request[c].delayed /\ c \notin due
    /\ due' = due \cup {c}
    /\ UNCHANGED <<vars, request, call, before, scheduled, direct, lost, life>>

(* The stream delivers the message and republishes it without its prefix:  *)
(* on the topic of the command, outside the ordered ingress.               *)
FireSchedule(c) ==
    /\ c \in scheduled \cap due
    /\ scheduled' = scheduled \ {c}
    /\ Spread(c)
    /\ UNCHANGED <<stream, publisher, ids, consumer, loop, up, running,
                   handled, acked, dropped, request, call, before, due, life>>

(* A subscriber handles a plain event, or dies with it.                    *)
HandleDirect(c, s) ==
    /\ <<c, s>> \in direct
    /\ direct' = direct \ {<<c, s>>}
    /\ \/ Ok /\ handled' = handled \cup {<<c, s>>} /\ UNCHANGED lost
       \/ Fault /\ lost' = lost \cup {c} /\ UNCHANGED handled
    /\ UNCHANGED <<stream, publisher, ids, consumer, loop, up, running, acked,
                   dropped, request, call, before, due, scheduled, life>>

-----------------------------------------------------------------------------
(* The steps of the ordered ingress; loops run on consumed partitions.     *)
ServePartition(p) ==
    /\ \/ \E i \in Instances : ReplayTimesOut(i, p)
       \/ p \in Consumed /\ \E i \in Instances : Deliver(i, p)
       \/ AckWaitExpires(p)
    /\ UNCHANGED <<calls, life>>

ServeReply ==
    /\ \E r \in running : Reply(r)
    /\ UNCHANGED <<calls, life>>

LoseHandler ==
    /\ \E r \in running : HandlerDies(r)
    /\ UNCHANGED <<calls, life>>

CommandNext ==
    \/ \E p \in Partitions : ServePartition(p)
    \/ ServeReply \/ LoseHandler
    \/ \E i \in Instances :
         \/ RegisterRules(i) \/ EnsureFails(i)
         \/ StartConsumerLoops(i) \/ BeginShutdown(i) \/ FinishShutdown(i)
         \/ Crash(i)
    \/ \E c \in Commands :
         \/ Forbid(c) \/ ClearField(c) \/ EmitDelayed(c) \/ Refuse(c)
         \/ PublishCommand(c)
         \/ EmitAdded(c) \/ EmitUpdated(c) \/ EmitSucceeded(c)
         \/ Elapse(c) \/ FireSchedule(c)
         \/ \E s \in Subscribers : HandleDirect(c, s)

CommandSpec == CommandInit /\ [][CommandNext]_all

(* Loops keep pulling, a replay and a message pending do not wait forever, *)
(* and a handler ends; a process that went down is started again; time     *)
(* passes, and the delayed stream and the subscribers do their work.       *)
FairCommandSpec ==
    /\ CommandSpec
    /\ \A i \in Instances :
         WF_all(RegisterRules(i) \/ StartConsumerLoops(i) \/ FinishShutdown(i))
    /\ \A p \in Partitions : WF_all(ServePartition(p))
    /\ WF_all(ServeReply)
    /\ \A c \in Commands :
         WF_all(Elapse(c) \/ FireSchedule(c)
                  \/ \E s \in Subscribers : HandleDirect(c, s))

-----------------------------------------------------------------------------
Sequenced(c) == Ruled(c) /\ ~request[c].delayed

(* A command whose call began after the call for another command of its    *)
(* partition had returned is not handed to any handler before the other    *)
(* one was acknowledged or given up: not when publications fail and are    *)
(* repeated, nor when instances are restarted or crash meanwhile.          *)
CallOrderKept ==
    \A d \in Commands : \A c \in before[d] :
        /\ Sequenced(c) /\ Sequenced(d) /\ PartitionOf[c] = PartitionOf[d]
        /\ \/ \E r \in running : r.command = d
           \/ \E s \in Subscribers : <<d, s>> \in handled
        => c \in Settled

Handled(c) == \/ c \in Settled \cup lost
              \/ \A s \in Subscribers : <<c, s>> \in handled

(* In the end every command that was accepted, or stored although its      *)
(* publication failed, has reached every subscriber, or was settled by the *)
(* ordered ingress, or lost a plain message: whatever its route, also when *)
(* it was delayed, and when instances restart, crash or fail to start.     *)
(* (Neither being accepted nor being handled is ever undone.)              *)
EventuallyHandled ==
    <>[](\A c \in Commands : call[c] = "accepted" \/ Stored(c) => Handled(c))
=============================================================================
