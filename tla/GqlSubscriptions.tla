-------------------------- MODULE GqlSubscriptions --------------------------
(***************************************************************************)
(* GraphQL component subscriptions: EbcaGqlProjectorController finds the   *)
(* audience of a lifecycle event, which for an owned component means to    *)
(* read the owner component, and EbcaGqlSubscriptionRegistryService hands  *)
(* the event to each subscription entitled to it: to a reader that waits,  *)
(* else into a bounded queue.  The registry runs on one JavaScript thread, *)
(* so publish is one step; only the projection awaits something.           *)
(*                                                                         *)
(* A subscription is read by the GraphQL server, which awaits one next()   *)
(* before it calls another, and may close it meanwhile.  Events are about  *)
(* one entity and numbered in the order in which they arrive.  There are   *)
(* no projection policies and audience resolvers of the application.       *)
(***************************************************************************)
EXTENDS Naturals, Sequences

CONSTANTS Subscriptions,
          Identities,
          IdentityOf,    \* who subscribed
          Wants,         \* the components its filter lets pass
          Comps,         \* the exposed component classes
          Owned,         \* those with audience `owner' and an ownerComponent
          QueueSize,     \* limits.maxSubscriptionQueueSize
          MaxEvents,     \* bound on events
          MaxTransfers,  \* bound on changes of the owner component
          Nobody

ASSUME GqlAssumption ==
    /\ IdentityOf \in [Subscriptions -> Identities]
    /\ Wants \in [Subscriptions -> SUBSET Comps]
    /\ Owned \subseteq Comps
    /\ QueueSize \in Nat \ {0}
    /\ MaxEvents \in Nat /\ MaxTransfers \in Nat
    /\ Nobody \notin Identities

VARIABLES events,     \* the component each event is about
          reading,    \* events whose owner component is being read
          resolved,   \* <<event, owner>>: audiences that were read
          owner,      \* whom the owner component names
          state,      \* of each subscription
          queue,      \* record.queue
          waiting,    \* record.pending is set
          received,   \* history: the events a subscriber got
          offered,    \* history: the events it was entitled to, as published
          shed,       \* history: the events its full queue gave up
          owners,     \* history: the owners since an event arrived
          transfers

records == <<state, queue, waiting>>
history == <<received, offered, shed>>
vars == <<events, reading, resolved, owner, records, history, owners, transfers>>

Owner == Identities \cup {Nobody}
Ids == 1..Len(events)

TypeOK ==
    /\ events \in Seq(Comps)
    /\ reading \subseteq Ids
    /\ resolved \subseteq Ids \X Owner
    /\ owner \in Owner
    /\ state \in [Subscriptions -> {"new", "open", "closed"}]
    /\ queue \in [Subscriptions -> Seq(Ids)]
    /\ \A s \in Subscriptions : Len(queue[s]) <= QueueSize
    /\ waiting \in [Subscriptions -> BOOLEAN]
    /\ received \in [Subscriptions -> Seq(Ids)]
    /\ offered \in [Subscriptions -> Seq(Ids)]
    /\ shed \in [Subscriptions -> SUBSET Ids]
    /\ owners \in Seq(SUBSET Owner) /\ Len(owners) = Len(events)
    /\ transfers \in Nat

Init ==
    /\ events = <<>>
    /\ reading = {} /\ resolved = {}
    /\ owner \in Owner
    /\ state = [s \in Subscriptions |-> "new"]
    /\ queue = [s \in Subscriptions |-> <<>>]
    /\ waiting = [s \in Subscriptions |-> FALSE]
    /\ received = [s \in Subscriptions |-> <<>>]
    /\ offered = [s \in Subscriptions |-> <<>>]
    /\ shed = [s \in Subscriptions |-> {}]
    /\ owners = <<>>
    /\ transfers = 0

-----------------------------------------------------------------------------
(* Mutant: an event without recipients goes to everybody.                  *)
CanReceiveOpen(s, c, recipients) ==
    /\ c \notin Owned \/ recipients = {} \/ IdentityOf[s] \in recipients
    /\ c \in Wants[s]

CanReceive(s, c, recipients) ==
    /\ c \notin Owned \/ IdentityOf[s] \in recipients
    /\ c \in Wants[s]

(* Mutants: a full queue gives up the event that arrives; or takes one too *)
(* many.                                                                   *)
PushDropsNewest(q, e) == IF Len(q) >= QueueSize THEN q ELSE Append(q, e)
PushOneMore(q, e) == Append(IF Len(q) > QueueSize THEN Tail(q) ELSE q, e)

(* A full queue gives up its oldest event.                                 *)
PushQueue(q, e) == Append(IF Len(q) >= QueueSize THEN Tail(q) ELSE q, e)

Elements(q) == {q[i] : i \in 1..Len(q)}
Shed(q, e) == Elements(Append(q, e)) \ Elements(PushQueue(q, e))

(* Mutant: publish queues the event also for a reader that waits.          *)
PublishQueues(e, c, recipients) ==
    LET to == {s \in Subscriptions : state[s] = "open"
                                     /\ CanReceive(s, c, recipients)} IN
    /\ offered' = [s \in Subscriptions |->
                     IF s \in to THEN Append(offered[s], e) ELSE offered[s]]
    /\ queue' = [s \in Subscriptions |->
                   IF s \in to THEN PushQueue(queue[s], e) ELSE queue[s]]
    /\ shed' = [s \in Subscriptions |->
                  IF s \in to THEN shed[s] \cup Shed(queue[s], e) ELSE shed[s]]
    /\ UNCHANGED <<state, waiting, received>>

(* publish and push.                                                       *)
Publish(e, c, recipients) ==
    LET to == {s \in Subscriptions : state[s] = "open"
                                     /\ CanReceive(s, c, recipients)}
        queued == {s \in to : ~waiting[s]} IN
    /\ offered' = [s \in Subscriptions |->
                     IF s \in to THEN Append(offered[s], e) ELSE offered[s]]
    /\ received' = [s \in Subscriptions |->
                      IF s \in to \ queued THEN Append(received[s], e)
                      ELSE received[s]]
    /\ waiting' = [s \in Subscriptions |-> waiting[s] /\ s \notin to]
    /\ queue' = [s \in Subscriptions |->
                   IF s \in queued THEN PushQueue(queue[s], e) ELSE queue[s]]
    /\ shed' = [s \in Subscriptions |->
                  IF s \in queued THEN shed[s] \cup Shed(queue[s], e)
                  ELSE shed[s]]
    /\ UNCHANGED state

(* handleEbcaLifecycle: nothing is awaited for a component that the world  *)
(* may see, so its event is published in the step in which it arrives.     *)
HandleLifecycle(c) ==
    /\ Len(events) < MaxEvents
    /\ events' = Append(events, c)
    /\ owners' = Append(owners, {owner})
    /\ IF c \in Owned
       THEN reading' = reading \cup {Len(events) + 1} /\ UNCHANGED <<records, history>>
       ELSE Publish(Len(events) + 1, c, {}) /\ UNCHANGED reading
    /\ UNCHANGED <<resolved, owner, transfers>>

(* getComponent of the owner component is answered; a failed read is taken *)
(* for an absent owner.  Answers may overtake each other.                  *)
ResolveOwner(e) ==
    /\ e \in reading
    /\ reading' = reading \ {e}
    /\ \E o \in {owner, Nobody} : resolved' = resolved \cup {<<e, o>>}
    /\ UNCHANGED <<events, owner, records, history, owners, transfers>>

PublishOwned(e, o) ==
    /\ <<e, o>> \in resolved
    /\ resolved' = resolved \ {<<e, o>>}
    /\ Publish(e, events[e], {o} \ {Nobody})
    /\ UNCHANGED <<events, reading, owner, owners, transfers>>

(* The application changes the owner component.                            *)
Transfer(o) ==
    /\ transfers < MaxTransfers /\ o # owner
    /\ transfers' = transfers + 1
    /\ owner' = o
    /\ owners' = [e \in Ids |-> IF e \in reading THEN owners[e] \cup {o}
                                ELSE owners[e]]
    /\ UNCHANGED <<events, reading, resolved, records, history>>

-----------------------------------------------------------------------------
Subscribe(s) ==
    /\ state[s] = "new"
    /\ state' = [state EXCEPT ![s] = "open"]
    /\ UNCHANGED <<events, reading, resolved, owner, queue, waiting, history,
                   owners, transfers>>

(* Mutant: next looks at the head of the queue and leaves it there.        *)
NextEventPeeks(s) ==
    /\ state[s] = "open" /\ ~waiting[s] /\ queue[s] # <<>>
    /\ Len(received[s]) < MaxEvents
    /\ received' = [received EXCEPT ![s] = Append(@, Head(queue[s]))]
    /\ UNCHANGED <<events, reading, resolved, owner, records, offered, shed,
                   owners, transfers>>

(* next(): the oldest event queued, or a promise.                          *)
NextEvent(s) ==
    /\ state[s] = "open" /\ ~waiting[s]
    /\ IF queue[s] = <<>>
       THEN /\ waiting' = [waiting EXCEPT ![s] = TRUE]
            /\ UNCHANGED <<queue, received>>
       ELSE /\ received' = [received EXCEPT ![s] = Append(@, Head(queue[s]))]
            /\ queue' = [queue EXCEPT ![s] = Tail(@)]
            /\ UNCHANGED waiting
    /\ UNCHANGED <<events, reading, resolved, owner, state, offered, shed,
                   owners, transfers>>

(* return() and throw(): a reader that waits is told that this is the end. *)
Close(s) ==
    /\ state[s] = "open"
    /\ state' = [state EXCEPT ![s] = "closed"]
    /\ waiting' = [waiting EXCEPT ![s] = FALSE]
    /\ UNCHANGED <<events, reading, resolved, owner, queue, history, owners,
                   transfers>>

Next ==
    \/ \E c \in Comps : HandleLifecycle(c)
    \/ \E e \in Ids : ResolveOwner(e) \/ \E o \in Owner : PublishOwned(e, o)
    \/ \E o \in Owner : Transfer(o)
    \/ \E s \in Subscriptions : Subscribe(s) \/ NextEvent(s) \/ Close(s)

Spec == Init /\ [][Next]_vars

-----------------------------------------------------------------------------
Precedes(q, a, b) ==
    \E i, j \in 1..Len(q) : i < j /\ q[i] = a /\ q[j] = b

(* What a subscriber has got and will get from its queue is what it was    *)
(* entitled to since it subscribed, in the order of publication and each   *)
(* once, except for what a full queue gave up, and ends when it closes.    *)
InOrderWithoutGaps ==
    \A s \in Subscriptions : LET got == received[s] \o queue[s] IN
        /\ Elements(got) = Elements(offered[s]) \ shed[s]
        /\ \A i, j \in 1..Len(got) :
             i < j => Precedes(offered[s], got[i], got[j])
        /\ \A i, j \in 1..Len(offered[s]) :
             i < j => offered[s][i] # offered[s][j]

(* An event is given up only for a subscriber that is QueueSize events     *)
(* behind; what is dropped is stale, never the newest.                     *)
OnlyStaleIsShed ==
    \A s \in Subscriptions : \A i \in 1..Len(offered[s]) :
        offered[s][i] \in shed[s] => Len(offered[s]) - i >= QueueSize

(* A reader waits only while nothing is queued for it.                     *)
NoReaderForgotten ==
    \A s \in Subscriptions : waiting[s] => queue[s] = <<>> /\ state[s] = "open"

(* An event about an owned component reaches only who was its owner at     *)
(* some time between the event's arrival and the answer about the owner.   *)
OnlyOwnersHear ==
    \A s \in Subscriptions : \A i \in 1..Len(offered[s]) :
        events[offered[s][i]] \in Owned =>
            IdentityOf[s] \in owners[offered[s][i]]
=============================================================================
