----------------------- MODULE GqlSubscriptionsProofs -----------------------
(***************************************************************************)
(* What holds of the GraphQL subscriptions for any subscriptions, filters, *)
(* components, owners and queue size.                                      *)
(***************************************************************************)
EXTENDS GqlSubscriptions, SequenceTheorems, TLAPS

-----------------------------------------------------------------------------
(* Type correctness.                                                       *)

LEMMA PushType ==
    ASSUME NEW n \in Nat, NEW q \in Seq(1..n), Len(q) <= QueueSize,
           NEW e \in 1..n
    PROVE  /\ PushQueue(q, e) \in Seq(1..n)
           /\ Len(PushQueue(q, e)) <= QueueSize
           /\ Shed(q, e) \subseteq 1..n
<1>1. QueueSize \in Nat \ {0}
  BY GqlAssumption
<1>2. Append(q, e) \in Seq(1..n)
  OBVIOUS
<1>3. Elements(Append(q, e)) \subseteq 1..n
  BY <1>2 DEF Elements
<1>4. CASE Len(q) >= QueueSize
  <2>1. q # <<>> /\ Tail(q) \in Seq(1..n) /\ Len(Tail(q)) = Len(q) - 1
    BY <1>1, <1>4
  <2>2. PushQueue(q, e) = Append(Tail(q), e)
    BY <1>4 DEF PushQueue
  <2>3. QED BY <1>1, <1>3, <2>1, <2>2 DEF Shed
<1>5. CASE ~(Len(q) >= QueueSize)
  <2>1. PushQueue(q, e) = Append(q, e)
    BY <1>5 DEF PushQueue
  <2>2. QED BY <1>1, <1>2, <1>3, <1>5, <2>1 DEF Shed
<1>6. QED BY <1>4, <1>5

LEMMA PopType ==
    ASSUME NEW T, NEW q \in Seq(T), NEW r \in Seq(T), q # <<>>
    PROVE  /\ Append(r, Head(q)) \in Seq(T)
           /\ Tail(q) \in Seq(T) /\ Len(Tail(q)) = Len(q) - 1
OBVIOUS

(* What TypeOK says of the subscriptions, of which n events are known.     *)
RecordsOK(n) ==
    /\ state \in [Subscriptions -> {"new", "open", "closed"}]
    /\ queue \in [Subscriptions -> Seq(1..n)]
    /\ \A s \in Subscriptions : Len(queue[s]) <= QueueSize
    /\ waiting \in [Subscriptions -> BOOLEAN]
    /\ received \in [Subscriptions -> Seq(1..n)]
    /\ offered \in [Subscriptions -> Seq(1..n)]
    /\ shed \in [Subscriptions -> SUBSET (1..n)]

LEMMA MoreEvents ==
    ASSUME NEW m \in Nat, NEW n \in Nat, m <= n, RecordsOK(m)
    PROVE  RecordsOK(n)
<1>1. 1..m \subseteq 1..n
  OBVIOUS
<1>2. Seq(1..m) \subseteq Seq(1..n)
  BY <1>1
<1>3. QED BY <1>1, <1>2 DEF RecordsOK

LEMMA PublishType ==
    ASSUME NEW n \in Nat, RecordsOK(n), NEW e \in 1..n, NEW c, NEW R,
           Publish(e, c, R)
    PROVE  RecordsOK(n)'
<1>1. \A s \in Subscriptions :
        /\ queue[s] \in Seq(1..n) /\ Len(queue[s]) <= QueueSize
        /\ PushQueue(queue[s], e) \in Seq(1..n)
        /\ Len(PushQueue(queue[s], e)) <= QueueSize
        /\ Shed(queue[s], e) \subseteq 1..n
  BY PushType DEF RecordsOK
<1>2. /\ state' \in [Subscriptions -> {"new", "open", "closed"}]
      /\ queue' \in [Subscriptions -> Seq(1..n)]
      /\ \A s \in Subscriptions : Len(queue'[s]) <= QueueSize
  BY <1>1 DEF RecordsOK, Publish
<1>3. waiting' \in [Subscriptions -> BOOLEAN]
  BY Zenon DEF Publish
<1>4. /\ received' \in [Subscriptions -> Seq(1..n)]
      /\ offered' \in [Subscriptions -> Seq(1..n)]
  <2>1. \A q \in Seq(1..n) : Append(q, e) \in Seq(1..n)
    OBVIOUS
  <2>2. /\ received \in [Subscriptions -> Seq(1..n)]
        /\ offered \in [Subscriptions -> Seq(1..n)]
    BY DEF RecordsOK
  <2>3. QED BY <2>1, <2>2, Zenon DEF Publish
<1>5. shed' \in [Subscriptions -> SUBSET (1..n)]
  BY <1>1 DEF RecordsOK, Publish
<1>6. QED BY <1>2, <1>3, <1>4, <1>5 DEF RecordsOK

(* What TypeOK says of the projections, and what it says altogether.       *)
ProjectionOK ==
    /\ events \in Seq(Comps)
    /\ reading \subseteq Ids
    /\ resolved \subseteq Ids \X Owner
    /\ owner \in Owner
    /\ owners \in Seq(SUBSET Owner) /\ Len(owners) = Len(events)
    /\ transfers \in Nat

LEMMA TypeParts == TypeOK <=> ProjectionOK /\ RecordsOK(Len(events))
BY DEF TypeOK, ProjectionOK, RecordsOK, Ids

LEMMA TypeLifecycle ==
    ASSUME TypeOK, NEW c \in Comps, HandleLifecycle(c)
    PROVE  TypeOK'
<1>1. PICK n \in Nat : n = Len(events)
  BY DEF TypeOK
<1>2. ProjectionOK /\ RecordsOK(n)
  BY <1>1, TypeParts
<1>3. /\ events' \in Seq(Comps) /\ Len(events') = n + 1
      /\ owners' \in Seq(SUBSET Owner) /\ Len(owners') = n + 1
  BY <1>1, <1>2 DEF ProjectionOK, HandleLifecycle
<1>4. UNCHANGED <<resolved, owner, transfers>>
  BY DEF HandleLifecycle
<1>5. reading' \subseteq Ids' /\ resolved' \subseteq Ids' \X Owner
  <2>1. reading' \subseteq reading \cup {n + 1}
    BY <1>1 DEF HandleLifecycle
  <2>2. Ids = 1..n /\ Ids' = 1..(n + 1)
    BY <1>1, <1>3 DEF Ids
  <2>3. reading \subseteq 1..n /\ resolved \subseteq (1..n) \X Owner
    BY <1>2, <2>2 DEF ProjectionOK
  <2>4. 1..n \subseteq 1..(n + 1) /\ n + 1 \in 1..(n + 1)
    OBVIOUS
  <2>5. QED BY <1>4, <2>1, <2>2, <2>3, <2>4
<1>6. ProjectionOK'
  BY <1>2, <1>3, <1>4, <1>5 DEF ProjectionOK
<1>7. RecordsOK(n + 1)
  BY <1>2, MoreEvents
<1>8. RecordsOK(n + 1)'
  <2>1. CASE c \in Owned
    <3>1. UNCHANGED <<state, queue, waiting, received, offered, shed>>
      BY <2>1 DEF HandleLifecycle, records, history
    <3>2. QED BY <1>7, <3>1 DEF RecordsOK
  <2>2. CASE c \notin Owned
    <3>1. Publish(n + 1, c, {})
      BY <1>1, <2>2 DEF HandleLifecycle
    <3>2. n + 1 \in Nat /\ n + 1 \in 1..(n + 1)
      OBVIOUS
    <3>3. QED BY <1>7, <3>1, <3>2, PublishType
  <2>3. QED BY <2>1, <2>2
<1>9. QED BY <1>3, <1>6, <1>8 DEF TypeOK, ProjectionOK, RecordsOK, Ids

(* A step that receives no event and publishes none.                       *)
LEMMA TypeProjection ==
    ASSUME TypeOK, NEW o \in Owner, Transfer(o)
    PROVE  TypeOK'
<1>1. PICK n \in Nat : n = Len(events)
  BY DEF TypeOK
<1>2. owners' \in Seq(SUBSET Owner) /\ Len(owners') = n
  <2>1. \A e \in 1..n : owners[e] \in SUBSET Owner
    BY <1>1 DEF TypeOK
  <2>2. owners' = [e \in 1..n |-> IF e \in reading THEN owners[e] \cup {o}
                                  ELSE owners[e]]
    BY <1>1 DEF Transfer, Ids
  <2>3. owners' \in [1..n -> SUBSET Owner]
    BY <2>1, <2>2
  <2>4. QED BY <2>3, SeqDef, LenProperties
<1>3. UNCHANGED <<events, reading, resolved, records, history>>
      /\ owner' = o /\ transfers' \in Nat
  BY DEF TypeOK, Transfer
<1>4. QED BY <1>1, <1>2, <1>3 DEF TypeOK, Ids, records, history

LEMMA TypeRead ==
    ASSUME TypeOK, NEW e \in Ids, ResolveOwner(e)
    PROVE  TypeOK'
<1>1. reading' \subseteq Ids /\ resolved' \subseteq Ids \X Owner
  BY DEF TypeOK, ResolveOwner, Owner
<1>2. UNCHANGED <<events, owner, records, history, owners, transfers>>
  BY DEF ResolveOwner
<1>3. QED BY <1>1, <1>2 DEF TypeOK, Ids, records, history

LEMMA TypePublish ==
    ASSUME TypeOK, NEW e \in Ids, NEW o \in Owner, PublishOwned(e, o)
    PROVE  TypeOK'
<1>1. PICK n \in Nat : n = Len(events)
  BY DEF TypeOK
<1>2. RecordsOK(n) /\ ProjectionOK
  BY <1>1, TypeParts
<1>3. RecordsOK(n)'
  <2>1. Publish(e, events[e], {o} \ {Nobody}) /\ e \in 1..n
    BY <1>1 DEF PublishOwned, Ids
  <2>2. QED BY <1>2, <2>1, PublishType
<1>4. UNCHANGED <<events, reading, owner, owners, transfers>>
      /\ resolved' \subseteq resolved
  BY DEF PublishOwned
<1>5. QED BY <1>1, <1>2, <1>3, <1>4 DEF TypeOK, ProjectionOK, RecordsOK, Ids

LEMMA TypeSubscription ==
    ASSUME TypeOK, NEW s \in Subscriptions,
           Subscribe(s) \/ NextEvent(s) \/ Close(s)
    PROVE  TypeOK'
<1>1. PICK n \in Nat : n = Len(events)
  BY DEF TypeOK
<1>2. RecordsOK(n) /\ ProjectionOK
  BY <1>1, TypeParts
<1>3. UNCHANGED <<events, reading, resolved, owner, owners, transfers>>
  BY DEF Subscribe, NextEvent, Close
<1>4. RecordsOK(n)'
  <2>1. CASE Subscribe(s) \/ Close(s)
    <3>1. /\ state' \in [Subscriptions -> {"new", "open", "closed"}]
          /\ UNCHANGED <<queue, received, offered, shed>>
      BY <1>2, <2>1 DEF RecordsOK, Subscribe, Close, history
    <3>2. waiting' \in [Subscriptions -> BOOLEAN]
      BY <1>2, <2>1 DEF RecordsOK, Subscribe, Close
    <3>3. QED BY <1>2, <3>1, <3>2 DEF RecordsOK
  <2>2. CASE NextEvent(s)
    <3>1. CASE queue[s] = <<>>
      <4>1. /\ waiting' = [waiting EXCEPT ![s] = TRUE]
            /\ UNCHANGED <<state, queue, received, offered, shed>>
        BY <2>2, <3>1 DEF NextEvent
      <4>2. QED BY <1>2, <4>1 DEF RecordsOK
    <3>2. CASE queue[s] # <<>>
      <4>1. /\ received' = [received EXCEPT ![s] = Append(@, Head(queue[s]))]
            /\ queue' = [queue EXCEPT ![s] = Tail(@)]
            /\ UNCHANGED <<state, waiting, offered, shed>>
        BY <2>2, <3>2 DEF NextEvent
      <4>2. queue[s] \in Seq(1..n) /\ Len(queue[s]) <= QueueSize
            /\ received[s] \in Seq(1..n)
        BY <1>2 DEF RecordsOK
      <4>3. /\ Append(received[s], Head(queue[s])) \in Seq(1..n)
            /\ Tail(queue[s]) \in Seq(1..n)
            /\ Len(Tail(queue[s])) = Len(queue[s]) - 1
        BY <3>2, <4>2, PopType
      <4>4. Len(queue[s]) \in Nat /\ QueueSize \in Nat
        BY <4>2, GqlAssumption
      <4>5. Len(Tail(queue[s])) <= QueueSize
        BY <4>2, <4>3, <4>4
      <4>6. QED BY <1>2, <4>1, <4>3, <4>5 DEF RecordsOK
    <3>3. QED BY <3>1, <3>2
  <2>3. QED BY <2>1, <2>2
<1>5. QED BY <1>1, <1>2, <1>3, <1>4 DEF TypeOK, ProjectionOK, RecordsOK, Ids

LEMMA TypeInit == Init => TypeOK
<1> SUFFICES ASSUME Init PROVE TypeOK
  OBVIOUS
<1>1. Ids = 1..0 /\ Len(events) = 0
  BY DEF Init, Ids
<1>2. ProjectionOK
  BY <1>1 DEF Init, ProjectionOK
<1>3. RecordsOK(0)
  BY GqlAssumption DEF Init, RecordsOK
<1>4. QED BY <1>1, <1>2, <1>3, TypeParts

LEMMA TypeNext == TypeOK /\ [Next]_vars => TypeOK'
<1> SUFFICES ASSUME TypeOK, [Next]_vars PROVE TypeOK'
  OBVIOUS
<1>1. CASE UNCHANGED vars
  BY <1>1 DEF TypeOK, vars, records, history, Ids
<1>2. CASE Next
  BY <1>2, TypeLifecycle, TypeRead, TypePublish, TypeProjection,
     TypeSubscription DEF Next
<1>3. QED BY <1>1, <1>2

(* Whatever arrives, is read, transferred or closed, every reachable state *)
(* is well-typed; no queue is ever longer than its limit.                  *)
THEOREM SubscriptionTypes == Spec => []TypeOK
BY TypeInit, TypeNext, PTL DEF Spec

-----------------------------------------------------------------------------
(* A reader waits only while nothing is queued for it.  A step that        *)
(* touches one subscription or none keeps the others.                      *)

LEMMA ReaderPublish ==
    ASSUME TypeOK, NoReaderForgotten, NEW e, NEW c, NEW R, Publish(e, c, R)
    PROVE  NoReaderForgotten'
<1> SUFFICES ASSUME NEW s \in Subscriptions, waiting'[s]
             PROVE  queue'[s] = <<>> /\ state'[s] = "open"
  BY DEF NoReaderForgotten
<1>1. waiting[s] /\ UNCHANGED state
  BY DEF Publish
<1>2. queue'[s] = queue[s]
  BY <1>1 DEF Publish
<1>3. QED BY <1>1, <1>2 DEF NoReaderForgotten

LEMMA ReaderStep ==
    ASSUME TypeOK, NoReaderForgotten, [Next]_vars
    PROVE  NoReaderForgotten'
<1>1. ASSUME UNCHANGED records PROVE NoReaderForgotten'
  BY <1>1 DEF NoReaderForgotten, records
<1>2. CASE UNCHANGED vars
  BY <1>1, <1>2 DEF vars
<1>3. ASSUME NEW c \in Comps, HandleLifecycle(c) PROVE NoReaderForgotten'
  BY <1>1, <1>3, ReaderPublish DEF HandleLifecycle
<1>4. ASSUME NEW e \in Ids, ResolveOwner(e) PROVE NoReaderForgotten'
  BY <1>1, <1>4 DEF ResolveOwner
<1>5. ASSUME NEW e \in Ids, NEW o \in Owner, PublishOwned(e, o)
      PROVE  NoReaderForgotten'
  BY <1>5, ReaderPublish DEF PublishOwned
<1>6. ASSUME NEW o \in Owner, Transfer(o) PROVE NoReaderForgotten'
  BY <1>1, <1>6 DEF Transfer
<1>7. ASSUME NEW s \in Subscriptions, Subscribe(s) PROVE NoReaderForgotten'
  <2>1. \A r \in Subscriptions : waiting'[r] =>
          waiting[r] /\ queue'[r] = queue[r] /\ state'[r] = state[r]
    BY <1>7 DEF Subscribe, TypeOK, NoReaderForgotten
  <2>2. QED BY <2>1 DEF NoReaderForgotten
<1>8. ASSUME NEW s \in Subscriptions, NextEvent(s) PROVE NoReaderForgotten'
  <2>1. ASSUME NEW r \in Subscriptions, waiting'[r]
        PROVE  queue'[r] = <<>> /\ state'[r] = "open"
    <3>1. CASE r = s
      BY <1>8, <2>1, <3>1 DEF NextEvent, TypeOK
    <3>2. CASE r # s
      <4>1. waiting[r] /\ queue'[r] = queue[r] /\ state'[r] = state[r]
        BY <1>8, <2>1, <3>2 DEF NextEvent, TypeOK
      <4>2. QED BY <4>1 DEF NoReaderForgotten
    <3>3. QED BY <3>1, <3>2
  <2>2. QED BY <2>1 DEF NoReaderForgotten
<1>9. ASSUME NEW s \in Subscriptions, Close(s) PROVE NoReaderForgotten'
  <2>1. \A r \in Subscriptions : waiting'[r] =>
          waiting[r] /\ queue'[r] = queue[r] /\ state'[r] = state[r]
    BY <1>9 DEF Close, TypeOK
  <2>2. QED BY <2>1 DEF NoReaderForgotten
<1>10. QED
  BY <1>2, <1>3, <1>4, <1>5, <1>6, <1>7, <1>8, <1>9 DEF Next

(* No interleaving of publications, next(), return() and throw() leaves a  *)
(* reader waiting beside a queue with events, or after the end.            *)
THEOREM NoReaderIsForgotten == Spec => []NoReaderForgotten
<1>1. Init => NoReaderForgotten
  BY DEF Init, NoReaderForgotten
<1>2. TypeOK /\ NoReaderForgotten /\ [Next]_vars => NoReaderForgotten'
  BY ReaderStep
<1>3. QED BY <1>1, <1>2, SubscriptionTypes, PTL DEF Spec

-----------------------------------------------------------------------------
(* Only owners hear.  The owner that was read for an event, like the owner *)
(* that may still be read for it, is one of the owners since it arrived.   *)

AudienceInv ==
    /\ \A e \in reading : owner \in owners[e]
    /\ \A e \in Ids, o \in Identities :
         <<e, o>> \in resolved => o \in owners[e]
    /\ OnlyOwnersHear

(* Publishing an event adds it to what entitled subscribers were offered.  *)
LEMMA PublishOffers ==
    ASSUME NEW n \in Nat, RecordsOK(n), NEW e \in 1..n, NEW c, NEW R,
           Publish(e, c, R), NEW s \in Subscriptions,
           NEW i \in 1..Len(offered'[s])
    PROVE  \/ i \in 1..Len(offered[s]) /\ offered'[s][i] = offered[s][i]
           \/ offered'[s][i] = e /\ CanReceive(s, c, R)
<1>1. offered[s] \in Seq(1..n)
  BY DEF RecordsOK
<1>2. \/ offered'[s] = offered[s]
      \/ offered'[s] = Append(offered[s], e) /\ CanReceive(s, c, R)
  BY DEF Publish
<1>3. CASE offered'[s] = offered[s]
  BY <1>3
<1>4. CASE offered'[s] = Append(offered[s], e) /\ CanReceive(s, c, R)
  <2>1. /\ Len(Append(offered[s], e)) = Len(offered[s]) + 1
        /\ Len(offered[s]) \in Nat
        /\ \A j \in 1..Len(offered[s]) :
             Append(offered[s], e)[j] = offered[s][j]
        /\ Append(offered[s], e)[Len(offered[s]) + 1] = e
    BY <1>1
  <2>2. QED BY <1>4, <2>1
<1>5. QED BY <1>2, <1>3, <1>4

(* A step that publishes nothing keeps the events and adds to the owners.  *)
LEMMA AudienceFrame ==
    ASSUME TypeOK, AudienceInv, UNCHANGED <<events, offered>>,
           \A e \in Ids : owners[e] \subseteq owners'[e]
    PROVE  OnlyOwnersHear'
<1> SUFFICES ASSUME NEW s \in Subscriptions, NEW i \in 1..Len(offered[s]),
                    events[offered[s][i]] \in Owned
             PROVE  IdentityOf[s] \in owners'[offered[s][i]]
  BY DEF OnlyOwnersHear
<1>1. offered[s][i] \in Ids
  BY DEF TypeOK
<1>2. IdentityOf[s] \in owners[offered[s][i]]
  BY DEF AudienceInv, OnlyOwnersHear
<1>3. QED BY <1>1, <1>2

LEMMA AudienceLifecycle ==
    ASSUME TypeOK, AudienceInv, NEW c \in Comps, HandleLifecycle(c)
    PROVE  AudienceInv'
<1>1. PICK n \in Nat : n = Len(events)
  BY DEF TypeOK
<1>2. ProjectionOK /\ RecordsOK(n) /\ Ids = 1..n
  BY <1>1, TypeParts DEF Ids
<1>3. /\ \A e \in 1..n : events'[e] = events[e] /\ owners'[e] = owners[e]
      /\ events'[n + 1] = c /\ owners'[n + 1] = {owner}
      /\ Len(events') = n + 1
      /\ UNCHANGED <<resolved, owner>>
  BY <1>1, <1>2 DEF ProjectionOK, HandleLifecycle
<1>4. \A e \in reading' : owner' \in owners'[e]
  <2>1. reading' \subseteq reading \cup {n + 1} /\ reading \subseteq 1..n
    BY <1>1, <1>2 DEF HandleLifecycle, ProjectionOK
  <2>2. QED BY <1>3, <2>1 DEF AudienceInv
<1>5. \A e \in Ids', o \in Identities :
        <<e, o>> \in resolved' => o \in owners'[e]
  <2>1. resolved \subseteq (1..n) \X Owner
    BY <1>2 DEF ProjectionOK
  <2>2. QED BY <1>2, <1>3, <2>1 DEF AudienceInv
<1>6. OnlyOwnersHear'
  <2> SUFFICES ASSUME NEW s \in Subscriptions, NEW i \in 1..Len(offered'[s]),
                      events'[offered'[s][i]] \in Owned
               PROVE  IdentityOf[s] \in owners'[offered'[s][i]]
    BY DEF OnlyOwnersHear
  <2>1. i \in 1..Len(offered[s]) /\ offered'[s][i] = offered[s][i]
    <3>1. CASE c \in Owned
      BY <3>1 DEF HandleLifecycle, history
    <3>2. CASE c \notin Owned
      <4>1. Publish(n + 1, c, {})
        BY <1>1, <3>2 DEF HandleLifecycle
      <4>2. RecordsOK(n + 1) /\ n + 1 \in Nat /\ n + 1 \in 1..(n + 1)
        BY <1>2, MoreEvents
      <4>3. \/ i \in 1..Len(offered[s]) /\ offered'[s][i] = offered[s][i]
            \/ offered'[s][i] = n + 1
        BY <4>1, <4>2, PublishOffers
      <4>4. QED BY <1>3, <3>2, <4>3
    <3>3. QED BY <3>1, <3>2
  <2>2. offered[s][i] \in 1..n
    BY <1>2, <2>1 DEF RecordsOK
  <2>3. events[offered[s][i]] \in Owned
    BY <1>3, <2>1, <2>2
  <2>4. IdentityOf[s] \in owners[offered[s][i]]
    BY <2>1, <2>3 DEF AudienceInv, OnlyOwnersHear
  <2>5. QED BY <1>3, <2>1, <2>2, <2>4
<1>7. QED BY <1>4, <1>5, <1>6 DEF AudienceInv

LEMMA AudiencePublish ==
    ASSUME TypeOK, AudienceInv, NEW e \in Ids, NEW o \in Owner,
           PublishOwned(e, o)
    PROVE  AudienceInv'
<1>1. PICK n \in Nat : n = Len(events) /\ Ids = 1..n
  BY DEF TypeOK, Ids
<1>2. RecordsOK(n)
  BY <1>1, TypeParts
<1>3. /\ UNCHANGED <<events, reading, owner, owners>>
      /\ resolved' \subseteq resolved /\ <<e, o>> \in resolved
      /\ Publish(e, events[e], {o} \ {Nobody})
  BY DEF PublishOwned
<1>4. OnlyOwnersHear'
  <2> SUFFICES ASSUME NEW s \in Subscriptions, NEW i \in 1..Len(offered'[s]),
                      events[offered'[s][i]] \in Owned
               PROVE  IdentityOf[s] \in owners[offered'[s][i]]
    BY <1>3 DEF OnlyOwnersHear
  <2>1. \/ i \in 1..Len(offered[s]) /\ offered'[s][i] = offered[s][i]
        \/ /\ offered'[s][i] = e
           /\ CanReceive(s, events[e], {o} \ {Nobody})
    BY <1>1, <1>2, <1>3, PublishOffers
  <2>2. CASE i \in 1..Len(offered[s]) /\ offered'[s][i] = offered[s][i]
    BY <2>2 DEF AudienceInv, OnlyOwnersHear
  <2>3. CASE offered'[s][i] = e /\ CanReceive(s, events[e], {o} \ {Nobody})
    <3>1. IdentityOf[s] = o
      BY <2>3 DEF CanReceive
    <3>2. IdentityOf[s] \in Identities
      BY GqlAssumption
    <3>3. QED BY <1>3, <2>3, <3>1, <3>2 DEF AudienceInv
  <2>4. QED BY <2>1, <2>2, <2>3
<1>5. QED BY <1>3, <1>4 DEF AudienceInv, Ids

LEMMA AudienceStep ==
    ASSUME TypeOK, AudienceInv, [Next]_vars
    PROVE  AudienceInv'
<1>1. ASSUME UNCHANGED <<events, reading, resolved, owner, owners, offered>>
      PROVE  AudienceInv'
  BY <1>1 DEF AudienceInv, OnlyOwnersHear, Ids
<1>2. CASE UNCHANGED vars
  BY <1>1, <1>2 DEF vars, history
<1>3. ASSUME NEW e \in Ids, ResolveOwner(e) PROVE AudienceInv'
  <2>1. /\ reading' \subseteq reading /\ e \in reading
        /\ \A r \in resolved' \ resolved : r = <<e, owner>> \/ r = <<e, Nobody>>
        /\ UNCHANGED <<events, owner, owners, offered>>
    BY <1>3 DEF ResolveOwner, history
  <2>2. OnlyOwnersHear'
    BY <2>1, AudienceFrame
  <2>3. Nobody \notin Identities /\ owner \in owners[e]
    BY <2>1, GqlAssumption DEF AudienceInv
  <2>4. QED BY <2>1, <2>2, <2>3 DEF AudienceInv, Ids
<1>4. ASSUME NEW o \in Owner, Transfer(o) PROVE AudienceInv'
  <2>1. /\ UNCHANGED <<events, reading, resolved, offered>> /\ owner' = o
        /\ \A e \in Ids : owners[e] \subseteq owners'[e]
        /\ \A e \in reading : o \in owners'[e]
    BY <1>4 DEF Transfer, history, TypeOK
  <2>2. OnlyOwnersHear'
    BY <2>1, AudienceFrame
  <2>3. QED BY <2>1, <2>2 DEF AudienceInv, Ids
<1>5. ASSUME NEW s \in Subscriptions, Subscribe(s) \/ NextEvent(s) \/ Close(s)
      PROVE  AudienceInv'
  BY <1>1, <1>5 DEF Subscribe, NextEvent, Close, history
<1>6. QED BY <1>2, <1>3, <1>4, <1>5, AudienceLifecycle, AudiencePublish DEF Next

(* However late the owner component is read and however often it changes,  *)
(* an event about an owned component reaches only who was its owner after  *)
(* the event arrived; a failed read reaches nobody.                        *)
THEOREM OwnersOnly == Spec => []OnlyOwnersHear
<1>1. Init => AudienceInv
  BY DEF Init, AudienceInv, OnlyOwnersHear, Ids
<1>2. TypeOK /\ AudienceInv /\ [Next]_vars => AudienceInv'
  BY AudienceStep
<1>3. AudienceInv => OnlyOwnersHear
  BY DEF AudienceInv
<1>4. QED BY <1>1, <1>2, <1>3, SubscriptionTypes, PTL DEF Spec
-----------------------------------------------------------------------------
(* The line of one subscription: off was offered, q is queued, r received  *)
(* and sh shed.  The queue is the end of what was offered; of what came    *)
(* before, each event was received or shed, and what was received keeps    *)
(* its order.  An event shed is QueueSize behind.                          *)

Before(off, q) == Len(off) - Len(q)

QueueIsEnd(off, q) ==
    /\ Len(q) <= Len(off)
    /\ \A i \in 1..Len(q) : q[i] = off[Before(off, q) + i]

Distinct(off) == \A i, j \in 1..Len(off) : i < j => off[i] # off[j]

FrontIsSettled(off, m, r, sh) ==
    /\ \A i \in 1..Len(off) : off[i] \in sh => i <= m
    /\ \A i \in 1..m : off[i] \notin sh => \E j \in 1..Len(r) : r[j] = off[i]
    /\ \A j \in 1..Len(r) :
         r[j] \notin sh /\ \E i \in 1..m : off[i] = r[j]

KeepsOrder(off, m, r) ==
    \A i, j \in 1..Len(r) : i < j =>
        \E k, l \in 1..m : k < l /\ off[k] = r[i] /\ off[l] = r[j]

ShedIsStale(off, sh) ==
    \A i \in 1..Len(off) : off[i] \in sh => Len(off) - i >= QueueSize

Line(off, q, r, sh) ==
    /\ QueueIsEnd(off, q)
    /\ Distinct(off)
    /\ FrontIsSettled(off, Before(off, q), r, sh)
    /\ KeepsOrder(off, Before(off, q), r)
    /\ ShedIsStale(off, sh)

LEMMA LineStart == Line(<<>>, <<>>, <<>>, {})
BY DEF Line, QueueIsEnd, Distinct, FrontIsSettled, KeepsOrder, ShedIsStale,
       Before

(* An event that is new to the line is put at its end.                     *)
New(off, sh, e) == e \notin sh /\ \A i \in 1..Len(off) : off[i] # e

LEMMA DistinctAppend ==
    ASSUME NEW off \in Seq(Nat), NEW e \in Nat, NEW sh, New(off, sh, e),
           Distinct(off)
    PROVE  Distinct(Append(off, e))
BY DEF Distinct, New

LEMMA SettledAppend ==
    ASSUME NEW off \in Seq(Nat), NEW m \in Nat, m <= Len(off),
           NEW r \in Seq(Nat), NEW sh, NEW e \in Nat, New(off, sh, e),
           FrontIsSettled(off, m, r, sh), KeepsOrder(off, m, r)
    PROVE  /\ FrontIsSettled(Append(off, e), m, r, sh)
           /\ KeepsOrder(Append(off, e), m, r)
<1> DEFINE new == Append(off, e)
<1>1. /\ new \in Seq(Nat) /\ Len(new) = Len(off) + 1
      /\ \A i \in 1..Len(off) : new[i] = off[i]
      /\ new[Len(off) + 1] = e
  OBVIOUS
<1>2. \A i \in 1..m : new[i] = off[i]
  BY <1>1
<1> HIDE DEF new
<1>3. FrontIsSettled(new, m, r, sh)
  <2>1. ASSUME NEW i \in 1..(Len(off) + 1), new[i] \in sh PROVE i <= m
    <3>1. i \in 1..Len(off) /\ off[i] \in sh
      BY <1>1, <2>1 DEF New
    <3>2. QED BY <3>1 DEF FrontIsSettled
  <2>2. \A i \in 1..m : new[i] \notin sh => \E j \in 1..Len(r) : r[j] = new[i]
    BY <1>2 DEF FrontIsSettled
  <2>3. \A j \in 1..Len(r) : r[j] \notin sh /\ \E i \in 1..m : new[i] = r[j]
    BY <1>2 DEF FrontIsSettled
  <2>4. QED BY <1>1, <2>1, <2>2, <2>3 DEF FrontIsSettled
<1>4. KeepsOrder(new, m, r)
  BY <1>2 DEF KeepsOrder
<1>5. QED BY <1>3, <1>4 DEF new

(* The end of what was offered grows with it.                              *)
LEMMA EndAppend ==
    ASSUME NEW off \in Seq(Nat), NEW q \in Seq(Nat), NEW e \in Nat,
           QueueIsEnd(off, q)
    PROVE  /\ QueueIsEnd(Append(off, e), Append(q, e))
           /\ Before(Append(off, e), Append(q, e)) = Before(off, q)
<1> DEFINE new == Append(off, e)
           more == Append(q, e)
<1>1. /\ new \in Seq(Nat) /\ Len(new) = Len(off) + 1
      /\ \A i \in 1..Len(off) : new[i] = off[i]
      /\ new[Len(off) + 1] = e
      /\ more \in Seq(Nat) /\ Len(more) = Len(q) + 1
      /\ \A i \in 1..Len(q) : more[i] = q[i]
      /\ more[Len(q) + 1] = e
  OBVIOUS
<1> HIDE DEF new, more
<1>2. /\ Len(q) \in Nat /\ Len(off) \in Nat /\ Len(q) <= Len(off)
      /\ Before(new, more) = Before(off, q)
      /\ Before(off, q) = Len(off) - Len(q)
  BY <1>1 DEF QueueIsEnd, Before
<1>3. ASSUME NEW i \in 1..Len(more) PROVE more[i] = new[Before(off, q) + i]
  <2>1. CASE i \in 1..Len(q)
    <3>1. more[i] = off[Before(off, q) + i]
      BY <1>1, <2>1 DEF QueueIsEnd
    <3>2. Before(off, q) + i \in 1..Len(off)
      BY <1>2, <2>1
    <3>3. QED BY <1>1, <3>1, <3>2
  <2>2. CASE i = Len(q) + 1
    <3>1. Before(off, q) + i = Len(off) + 1
      BY <1>2, <2>2
    <3>2. QED BY <1>1, <2>2, <3>1
  <2>3. QED BY <1>1, <1>2, <2>1, <2>2
<1>4. Len(more) <= Len(new)
  BY <1>1, <1>2
<1>5. QueueIsEnd(new, more)
  BY <1>2, <1>3, <1>4 DEF QueueIsEnd
<1>6. QED BY <1>2, <1>5 DEF new, more

(* Publication to a queue that has room.                                   *)
LEMMA LineQueues ==
    ASSUME NEW off \in Seq(Nat), NEW q \in Seq(Nat), NEW r \in Seq(Nat),
           NEW sh, NEW e \in Nat, Line(off, q, r, sh), New(off, sh, e)
    PROVE  Line(Append(off, e), Append(q, e), r, sh)
<1> DEFINE new == Append(off, e)
           more == Append(q, e)
<1>1. /\ new \in Seq(Nat) /\ Len(new) = Len(off) + 1
      /\ \A i \in 1..Len(off) : new[i] = off[i]
      /\ new[Len(off) + 1] = e
  OBVIOUS
<1>2. Before(new, more) = Before(off, q) /\ Before(off, q) \in Nat
      /\ Before(off, q) <= Len(off) /\ Len(off) \in Nat
  BY EndAppend DEF Line, QueueIsEnd, Before
<1>3. Distinct(new)
  BY DistinctAppend DEF Line
<1>4. /\ FrontIsSettled(new, Before(off, q), r, sh)
      /\ KeepsOrder(new, Before(off, q), r)
  BY <1>2, SettledAppend DEF Line
<1> HIDE DEF new, more
<1>5. QueueIsEnd(new, more)
  BY EndAppend DEF Line, new, more
<1>6. ShedIsStale(new, sh)
  <2> SUFFICES ASSUME NEW i \in 1..Len(new), new[i] \in sh
               PROVE  Len(new) - i >= QueueSize
    BY DEF ShedIsStale
  <2>1. i \in 1..Len(off) /\ off[i] \in sh
    BY <1>1, <1>2 DEF New
  <2>2. Len(off) - i >= QueueSize
    BY <2>1 DEF Line, ShedIsStale
  <2>3. QED BY <1>1, <1>2, <2>1, <2>2, GqlAssumption
<1>7. QED BY <1>2, <1>3, <1>4, <1>5, <1>6 DEF Line, new, more

(* The head leaves the queue to the reader, ...                            *)
LEMMA QueueIsEndTail ==
    ASSUME NEW off \in Seq(Nat), NEW q \in Seq(Nat), q # <<>>,
           QueueIsEnd(off, q)
    PROVE  /\ QueueIsEnd(off, Tail(q))
           /\ Before(off, q) \in Nat /\ Before(off, q) + 1 \in 1..Len(off)
           /\ Before(off, Tail(q)) = Before(off, q) + 1
           /\ Head(q) = off[Before(off, q) + 1]
<1>1. /\ Len(q) \in Nat /\ Len(q) >= 1 /\ Len(off) \in Nat
      /\ Tail(q) \in Seq(Nat) /\ Len(Tail(q)) = Len(q) - 1
      /\ \A i \in 1..Len(q) - 1 : Tail(q)[i] = q[i + 1]
      /\ Head(q) = q[1]
  OBVIOUS
<1>2. /\ Before(off, q) \in Nat /\ Before(off, q) + 1 \in 1..Len(off)
      /\ Before(off, Tail(q)) = Before(off, q) + 1
  BY <1>1 DEF QueueIsEnd, Before
<1>3. \A i \in 1..Len(Tail(q)) : Tail(q)[i] = off[Before(off, Tail(q)) + i]
  <2> SUFFICES ASSUME NEW i \in 1..Len(Tail(q))
               PROVE  Tail(q)[i] = off[Before(off, Tail(q)) + i]
    OBVIOUS
  <2>1. i + 1 \in 1..Len(q) /\ Tail(q)[i] = q[i + 1]
    BY <1>1
  <2>2. q[i + 1] = off[Before(off, q) + (i + 1)]
    BY <2>1 DEF QueueIsEnd
  <2>3. Before(off, q) + (i + 1) = Before(off, Tail(q)) + i
    BY <1>1, <1>2
  <2>4. QED BY <2>1, <2>2, <2>3
<1>4. Head(q) = off[Before(off, q) + 1]
  BY <1>1 DEF QueueIsEnd
<1>5. Len(Tail(q)) <= Len(off)
  BY <1>1 DEF QueueIsEnd
<1>6. QED BY <1>2, <1>3, <1>4, <1>5 DEF QueueIsEnd

(* ... which gets the event after those that were settled before.          *)
LEMMA SettledReceives ==
    ASSUME NEW off \in Seq(Nat), NEW m \in Nat, m < Len(off),
           NEW r \in Seq(Nat), NEW sh,
           FrontIsSettled(off, m, r, sh), KeepsOrder(off, m, r)
    PROVE  /\ FrontIsSettled(off, m + 1, Append(r, off[m + 1]), sh)
           /\ KeepsOrder(off, m + 1, Append(r, off[m + 1]))
<1>1. PICK e \in Nat : off[m + 1] = e
  <2>1. m + 1 \in 1..Len(off)
    OBVIOUS
  <2>2. QED BY <2>1
<1>2. PICK got \in Seq(Nat), n \in Nat :
        /\ got = Append(r, e) /\ n = Len(r)
        /\ Len(got) = n + 1 /\ got[n + 1] = e
        /\ \A h \in 1..n : got[h] = r[h]
  <2>1. /\ Append(r, e) \in Seq(Nat)
        /\ Len(r) \in Nat /\ Len(Append(r, e)) = Len(r) + 1
        /\ Append(r, e)[Len(r) + 1] = e
        /\ \A h \in 1..Len(r) : Append(r, e)[h] = r[h]
    OBVIOUS
  <2>2. QED BY <2>1
<1>3. n = Len(r) /\ Len(got) = n + 1
  BY <1>2
<1>4. \A h \in 1..n : got[h] = r[h]
  BY <1>2
<1>5. got[n + 1] = off[m + 1]
  BY <1>1, <1>2
<1>6. \A i \in 1..(n + 1) : i \in 1..n \/ i = n + 1
  OBVIOUS
<1>7. FrontIsSettled(off, m + 1, got, sh)
  <2>1. \A i \in 1..Len(off) : off[i] \in sh => i <= m + 1
    BY DEF FrontIsSettled
  <2>2. ASSUME NEW i \in 1..(m + 1), off[i] \notin sh
        PROVE  \E j \in 1..Len(got) : got[j] = off[i]
    <3>1. CASE i \in 1..m
      <4>1. PICK j \in 1..n : r[j] = off[i]
        BY <1>3, <2>2, <3>1 DEF FrontIsSettled
      <4>2. j \in 1..(n + 1) /\ got[j] = off[i]
        BY <1>4, <4>1
      <4>3. QED BY <1>3, <4>2
    <3>2. CASE i = m + 1
      <4>1. n + 1 \in 1..Len(got) /\ got[n + 1] = off[i]
        BY <1>3, <1>5, <3>2
      <4>2. QED BY <4>1
    <3>3. i \in 1..m \/ i = m + 1
      OBVIOUS
    <3>4. QED BY <3>1, <3>2, <3>3
  <2>3. ASSUME NEW j \in 1..(n + 1)
        PROVE  got[j] \notin sh /\ \E i \in 1..(m + 1) : off[i] = got[j]
    <3>1. CASE j \in 1..n
      <4>1. PICK i \in 1..m : off[i] = r[j] /\ r[j] \notin sh
        BY <1>3, <3>1 DEF FrontIsSettled
      <4>2. got[j] = r[j] /\ i \in 1..(m + 1)
        BY <1>4, <3>1
      <4>3. QED BY <4>1, <4>2
    <3>2. CASE j = n + 1
      <4>1. off[m + 1] \notin sh
        <5>1. ~(m + 1 <= m) /\ m + 1 \in 1..Len(off)
          OBVIOUS
        <5>2. QED BY <5>1 DEF FrontIsSettled
      <4>2. m + 1 \in 1..(m + 1) /\ got[j] = off[m + 1]
        BY <1>5, <3>2
      <4>3. QED BY <4>1, <4>2
    <3>3. QED BY <1>6, <3>1, <3>2
  <2>4. QED BY <1>3, <2>1, <2>2, <2>3 DEF FrontIsSettled
<1>8. KeepsOrder(off, m + 1, got)
  <2>1. ASSUME NEW i \in 1..(n + 1), NEW j \in 1..(n + 1), i < j
        PROVE  \E k, l \in 1..(m + 1) :
                 k < l /\ off[k] = got[i] /\ off[l] = got[j]
    <3>1. i \in 1..n
      BY <2>1
    <3>2. got[i] = r[i]
      BY <1>4, <3>1
    <3>3. CASE j \in 1..n
      <4>1. PICK k \in 1..m, l \in 1..m :
              k < l /\ off[k] = r[i] /\ off[l] = r[j]
        BY <1>3, <2>1, <3>1, <3>3 DEF KeepsOrder
      <4>2. k \in 1..(m + 1) /\ l \in 1..(m + 1) /\ got[j] = r[j]
        BY <1>4, <3>3
      <4>3. QED BY <3>2, <4>1, <4>2
    <3>4. CASE j = n + 1
      <4>1. PICK k \in 1..m : off[k] = r[i]
        BY <1>3, <3>1 DEF FrontIsSettled
      <4>2. k \in 1..(m + 1) /\ m + 1 \in 1..(m + 1) /\ k < m + 1
        OBVIOUS
      <4>3. off[k] = got[i] /\ off[m + 1] = got[j]
        BY <1>5, <3>2, <3>4, <4>1
      <4>4. QED BY <4>2, <4>3
    <3>5. QED BY <1>6, <3>3, <3>4
  <2>2. QED BY <1>3, <2>1 DEF KeepsOrder
<1>9. QED BY <1>1, <1>2, <1>7, <1>8

LEMMA LinePops ==
    ASSUME NEW off \in Seq(Nat), NEW q \in Seq(Nat), NEW r \in Seq(Nat),
           NEW sh, Line(off, q, r, sh), q # <<>>
    PROVE  Line(off, Tail(q), Append(r, Head(q)), sh)
<1>1. PICK m \in Nat : m = Before(off, q)
  BY QueueIsEndTail DEF Line
<1>2. /\ QueueIsEnd(off, Tail(q)) /\ m + 1 \in 1..Len(off)
      /\ Before(off, Tail(q)) = m + 1 /\ Head(q) = off[m + 1]
  BY <1>1, QueueIsEndTail DEF Line
<1>3. FrontIsSettled(off, m, r, sh) /\ KeepsOrder(off, m, r)
  BY <1>1 DEF Line
<1>4. /\ FrontIsSettled(off, m + 1, Append(r, off[m + 1]), sh)
      /\ KeepsOrder(off, m + 1, Append(r, off[m + 1]))
  <2>1. m < Len(off)
    BY <1>2
  <2>2. QED BY <1>3, <2>1, SettledReceives
<1>5. QED BY <1>2, <1>4 DEF Line

(* Publication to a reader that waits.                                     *)
LEMMA LineDelivers ==
    ASSUME NEW off \in Seq(Nat), NEW r \in Seq(Nat), NEW sh, NEW e \in Nat,
           Line(off, <<>>, r, sh), New(off, sh, e)
    PROVE  Line(Append(off, e), <<>>, Append(r, e), sh)
<1>1. Line(Append(off, e), Append(<<>>, e), r, sh)
  <2>1. <<>> \in Seq(Nat)
    OBVIOUS
  <2>2. QED BY <2>1, LineQueues
<1>2. /\ Append(<<>>, e) # <<>> /\ Append(<<>>, e) \in Seq(Nat)
      /\ Head(Append(<<>>, e)) = e /\ Tail(Append(<<>>, e)) = <<>>
      /\ Append(off, e) \in Seq(Nat)
  OBVIOUS
<1>3. QED BY <1>1, <1>2, LinePops

(* Publication to a full queue, which gives up its head.                   *)
LEMMA LineSheds ==
    ASSUME NEW off \in Seq(Nat), NEW q \in Seq(Nat), NEW r \in Seq(Nat),
           NEW sh, NEW e \in Nat, Line(off, q, r, sh), New(off, sh, e),
           Len(q) >= QueueSize
    PROVE  Line(Append(off, e), Append(Tail(q), e), r, sh \cup {Head(q)})
<1>1. QueueSize \in Nat \ {0} /\ q # <<>> /\ Len(q) \in Nat /\ Len(off) \in Nat
  BY GqlAssumption
<1>2. PICK m \in Nat : m = Before(off, q)
  BY <1>1, QueueIsEndTail DEF Line
<1>3. /\ QueueIsEnd(off, Tail(q)) /\ m + 1 \in 1..Len(off)
      /\ Before(off, Tail(q)) = m + 1 /\ Head(q) = off[m + 1]
  BY <1>1, <1>2, QueueIsEndTail DEF Line
<1>4. FrontIsSettled(off, m, r, sh) /\ KeepsOrder(off, m, r) /\ Distinct(off)
      /\ ShedIsStale(off, sh)
  BY <1>2 DEF Line
<1> DEFINE x == off[m + 1]
           all == sh \cup {x}
           new == Append(off, e)
           rest == Append(Tail(q), e)
<1>5. FrontIsSettled(off, m + 1, r, all)
  <2>1. \A i \in 1..Len(off) : off[i] = x => i = m + 1
    BY <1>3, <1>4 DEF Distinct
  <2>2. ASSUME NEW i \in 1..Len(off), off[i] \in all PROVE i <= m + 1
    <3>1. CASE off[i] = x
      BY <2>1, <3>1
    <3>2. CASE off[i] \in sh
      <4>1. i <= m
        BY <1>4, <3>2 DEF FrontIsSettled
      <4>2. QED BY <4>1
    <3>3. QED BY <2>2, <3>1, <3>2
  <2>3. ASSUME NEW i \in 1..(m + 1), off[i] \notin all
        PROVE  \E j \in 1..Len(r) : r[j] = off[i]
    <3>1. i # m + 1 /\ off[i] \notin sh
      BY <2>3
    <3>2. i \in 1..m
      BY <3>1
    <3>3. QED BY <1>4, <3>1, <3>2 DEF FrontIsSettled
  <2>4. ASSUME NEW j \in 1..Len(r)
        PROVE  r[j] \notin all /\ \E i \in 1..(m + 1) : off[i] = r[j]
    <3>1. PICK i \in 1..m : off[i] = r[j] /\ r[j] \notin sh
      BY <1>4 DEF FrontIsSettled
    <3>2. i \in 1..Len(off) /\ i # m + 1 /\ i \in 1..(m + 1)
      BY <1>1, <1>3
    <3>3. QED BY <2>1, <3>1, <3>2
  <2>5. QED BY <2>2, <2>3, <2>4 DEF FrontIsSettled
<1>6. KeepsOrder(off, m + 1, r)
  BY <1>4 DEF KeepsOrder
<1>7. ShedIsStale(off, sh) /\ ShedIsStale(new, all)
  <2>1. /\ Len(new) = Len(off) + 1 /\ new[Len(off) + 1] = e
        /\ \A i \in 1..Len(off) : new[i] = off[i]
    OBVIOUS
  <2>2. \A i \in 1..Len(off) : off[i] = x => i = m + 1
    BY <1>3, <1>4 DEF Distinct
  <2>3. e \notin all
    BY <1>3 DEF New
  <2>4. Len(new) - (m + 1) >= QueueSize
    BY <1>1, <1>2, <2>1 DEF Before
  <2> HIDE DEF new, all
  <2>5. ASSUME NEW i \in 1..(Len(off) + 1), new[i] \in all
        PROVE  Len(new) - i >= QueueSize
    <3>1. i \in 1..Len(off) /\ off[i] \in all
      <4>1. i # Len(off) + 1
        BY <2>1, <2>3, <2>5
      <4>2. i \in 1..Len(off)
        BY <1>1, <4>1
      <4>3. QED BY <2>1, <2>5, <4>2
    <3>2. CASE off[i] = x
      BY <2>2, <2>4, <3>1, <3>2
    <3>3. CASE off[i] \in sh
      <4>1. Len(off) - i >= QueueSize
        BY <1>4, <3>1, <3>3 DEF ShedIsStale
      <4>2. QED BY <1>1, <2>1, <3>1, <4>1
    <3>4. QED BY <3>1, <3>2, <3>3 DEF all
  <2>6. QED BY <1>4, <2>1, <2>5 DEF ShedIsStale
<1>8. New(off, all, e)
  BY <1>3 DEF New
<1>9. /\ FrontIsSettled(new, m + 1, r, all) /\ KeepsOrder(new, m + 1, r)
      /\ Distinct(new)
  <2>1. m + 1 \in Nat /\ m + 1 <= Len(off)
    BY <1>3
  <2> HIDE DEF all
  <2>2. QED BY <1>4, <1>5, <1>6, <1>8, <2>1, SettledAppend, DistinctAppend
<1>10. QueueIsEnd(new, rest) /\ Before(new, rest) = m + 1
  <2>1. Tail(q) \in Seq(Nat)
    BY <1>1
  <2>2. QED BY <1>3, <2>1, EndAppend
<1>11. Line(new, rest, r, all)
  BY <1>7, <1>9, <1>10 DEF Line
<1>12. QED BY <1>3, <1>11

LEMMA ElementsAppend ==
    ASSUME NEW q \in Seq(Nat), NEW e \in Nat
    PROVE  Elements(Append(q, e)) = Elements(q) \cup {e}
<1>1. /\ Len(q) \in Nat /\ Len(Append(q, e)) = Len(q) + 1
      /\ \A i \in 1..Len(q) : Append(q, e)[i] = q[i]
      /\ Append(q, e)[Len(q) + 1] = e
  OBVIOUS
<1>2. 1..Len(q) + 1 = (1..Len(q)) \cup {Len(q) + 1}
  BY <1>1
<1>3. QED BY <1>1, <1>2 DEF Elements

LEMMA ElementsTail ==
    ASSUME NEW q \in Seq(Nat), q # <<>>
    PROVE  Elements(q) = {Head(q)} \cup Elements(Tail(q))
<1>1. /\ Len(q) \in Nat /\ Len(q) >= 1 /\ Head(q) = q[1]
      /\ Len(Tail(q)) = Len(q) - 1
      /\ \A i \in 1..Len(q) - 1 : Tail(q)[i] = q[i + 1]
  OBVIOUS
<1>2. ASSUME NEW x \in Elements(q)
      PROVE  x \in {Head(q)} \cup Elements(Tail(q))
  <2>1. PICK i \in 1..Len(q) : x = q[i]
    BY DEF Elements
  <2>2. CASE i = 1
    BY <1>1, <2>1, <2>2
  <2>3. CASE i # 1
    <3>1. i - 1 \in 1..Len(Tail(q)) /\ Tail(q)[i - 1] = q[(i - 1) + 1]
      BY <1>1, <2>3
    <3>2. (i - 1) + 1 = i
      OBVIOUS
    <3>3. QED BY <2>1, <3>1, <3>2 DEF Elements
  <2>4. QED BY <2>2, <2>3
<1>3. ASSUME NEW x \in {Head(q)} \cup Elements(Tail(q))
      PROVE  x \in Elements(q)
  <2>1. CASE x = Head(q)
    BY <1>1, <2>1 DEF Elements
  <2>2. CASE x \in Elements(Tail(q))
    <3>1. PICK i \in 1..Len(Tail(q)) : x = Tail(q)[i]
      BY <2>2 DEF Elements
    <3>2. i + 1 \in 1..Len(q) /\ x = q[i + 1]
      BY <1>1, <3>1
    <3>3. QED BY <3>2 DEF Elements
  <2>3. QED BY <2>1, <2>2
<1>4. QED BY <1>2, <1>3

(* What a full queue gives up is its head, and it alone.                 *)
LEMMA ShedIsHead ==
    ASSUME NEW off \in Seq(Nat), NEW q \in Seq(Nat), NEW r \in Seq(Nat),
           NEW sh, NEW e \in Nat, Line(off, q, r, sh), New(off, sh, e)
    PROVE  /\ Len(q) >= QueueSize =>
                /\ PushQueue(q, e) = Append(Tail(q), e)
                /\ Shed(q, e) = {Head(q)} /\ q # <<>>
                /\ \E i \in 1..Len(off) : off[i] = Head(q)
           /\ ~(Len(q) >= QueueSize) =>
                PushQueue(q, e) = Append(q, e) /\ Shed(q, e) = {}
<1>1. CASE Len(q) >= QueueSize
  <2>1. q # <<>>
    BY <1>1, GqlAssumption
  <2>2. PushQueue(q, e) = Append(Tail(q), e)
    BY <1>1 DEF PushQueue
  <2>3. /\ Len(q) \in Nat /\ Len(q) >= 1 /\ Head(q) = q[1] /\ Head(q) \in Nat
        /\ Tail(q) \in Seq(Nat) /\ Len(Tail(q)) = Len(q) - 1
        /\ \A i \in 1..Len(q) - 1 : Tail(q)[i] = q[i + 1]
    BY <2>1
  <2>4. PICK m \in Nat : m = Before(off, q) /\ m + 1 \in 1..Len(off)
                         /\ Head(q) = off[m + 1]
    BY <2>1, QueueIsEndTail DEF Line
  <2>5. Elements(Append(q, e)) = {Head(q)} \cup Elements(Tail(q)) \cup {e}
    <3>1. Elements(Append(q, e)) = Elements(q) \cup {e}
      BY ElementsAppend
    <3>2. Elements(q) = {Head(q)} \cup Elements(Tail(q))
      BY <2>1, ElementsTail
    <3>3. QED BY <3>1, <3>2
  <2>6. Elements(Append(Tail(q), e)) = Elements(Tail(q)) \cup {e}
    BY <2>3, ElementsAppend
  <2>7. Head(q) # e
    BY <2>4 DEF New
  <2>8. Head(q) \notin Elements(Tail(q))
    <3> SUFFICES ASSUME NEW i \in 1..Len(Tail(q)), Tail(q)[i] = Head(q)
                 PROVE  FALSE
      BY DEF Elements
    <3>1. i + 1 \in 1..Len(q) /\ q[i + 1] = Head(q)
      BY <2>3
    <3>2. q[i + 1] = off[m + (i + 1)] /\ m = Len(off) - Len(q)
      BY <2>4, <3>1 DEF Line, QueueIsEnd, Before
    <3>3. m + (i + 1) \in 1..Len(off) /\ m + 1 < m + (i + 1)
      BY <2>3, <2>4, <3>1, <3>2
    <3>4. QED BY <2>4, <3>1, <3>2, <3>3 DEF Line, Distinct
  <2>9. Shed(q, e) = {Head(q)}
    BY <2>2, <2>5, <2>6, <2>7, <2>8 DEF Shed
  <2>10. \E i \in 1..Len(off) : off[i] = Head(q)
    BY <2>4
  <2>11. QED BY <1>1, <2>1, <2>2, <2>9, <2>10
<1>2. CASE ~(Len(q) >= QueueSize)
  <2>1. PushQueue(q, e) = Append(q, e)
    BY <1>2 DEF PushQueue
  <2>2. QED BY <1>2, <2>1 DEF Shed
<1>3. QED BY <1>1, <1>2

(* The line of a subscription is in order and without gaps.                *)
LEMMA LineInOrder ==
    ASSUME NEW off \in Seq(Nat), NEW q \in Seq(Nat), NEW r \in Seq(Nat),
           NEW sh, Line(off, q, r, sh)
    PROVE  /\ Elements(r \o q) = Elements(off) \ sh
           /\ \A i, j \in 1..Len(r \o q) :
                i < j => Precedes(off, (r \o q)[i], (r \o q)[j])
<1> DEFINE got == r \o q
           m == Before(off, q)
<1>1. /\ Len(r) \in Nat /\ Len(q) \in Nat /\ Len(off) \in Nat
      /\ Len(got) = Len(r) + Len(q)
      /\ \A i \in 1..Len(r) : got[i] = r[i]
      /\ \A i \in 1..Len(q) : got[Len(r) + i] = q[i]
  <2>1. \A i \in 1..Len(q) :
          /\ Len(r) + i \in 1..(Len(r) + Len(q)) /\ ~(Len(r) + i <= Len(r))
          /\ (Len(r) + i) - Len(r) = i
    OBVIOUS
  <2>2. /\ Len(got) = Len(r) + Len(q)
        /\ \A i \in 1..(Len(r) + Len(q)) :
             got[i] = IF i <= Len(r) THEN r[i] ELSE q[i - Len(r)]
    BY ConcatProperties
  <2> HIDE DEF got
  <2>3. QED BY <2>1, <2>2
<1>2. /\ m \in Nat /\ m + Len(q) = Len(off)
      /\ \A i \in 1..Len(q) : q[i] = off[m + i]
  BY <1>1 DEF Line, QueueIsEnd, Before
<1>3. FrontIsSettled(off, m, r, sh) /\ KeepsOrder(off, m, r)
  BY DEF Line
<1> HIDE DEF got, m
<1>4. \A i \in 1..Len(got) :
        \/ i \in 1..Len(r) /\ got[i] = r[i]
        \/ /\ i - Len(r) \in 1..Len(q)
           /\ m + (i - Len(r)) \in 1..Len(off) /\ m + (i - Len(r)) > m
           /\ got[i] = off[m + (i - Len(r))]
  <2> SUFFICES ASSUME NEW i \in 1..Len(got), i \notin 1..Len(r)
               PROVE  /\ i - Len(r) \in 1..Len(q)
                      /\ m + (i - Len(r)) \in 1..Len(off)
                      /\ m + (i - Len(r)) > m
                      /\ got[i] = off[m + (i - Len(r))]
    BY <1>1
  <2>1. i - Len(r) \in 1..Len(q) /\ Len(r) + (i - Len(r)) = i
    BY <1>1
  <2>2. got[i] = q[i - Len(r)]
    BY <1>1, <2>1
  <2>3. m + (i - Len(r)) \in 1..Len(off) /\ m + (i - Len(r)) > m
    BY <1>1, <1>2, <2>1
  <2>4. QED BY <1>2, <2>1, <2>2, <2>3
<1>5. ASSUME NEW x \in Elements(got) PROVE x \in Elements(off) /\ x \notin sh
  <2>1. PICK i \in 1..Len(got) : x = got[i]
    BY DEF Elements
  <2>2. CASE i \in 1..Len(r) /\ got[i] = r[i]
    <3>1. PICK k \in 1..m : off[k] = r[i] /\ r[i] \notin sh
      BY <1>3, <2>2 DEF FrontIsSettled
    <3>2. k \in 1..Len(off)
      BY <1>1, <1>2
    <3>3. QED BY <2>1, <2>2, <3>1, <3>2 DEF Elements
  <2>3. CASE i \notin 1..Len(r)
    <3>1. PICK k \in 1..Len(off) : k > m /\ off[k] = x
      BY <1>4, <2>1, <2>3
    <3>2. QED BY <1>2, <1>3, <3>1 DEF FrontIsSettled, Elements
  <2>4. QED BY <1>1, <2>2, <2>3
<1>6. ASSUME NEW x \in Elements(off), x \notin sh PROVE x \in Elements(got)
  <2>1. PICK k \in 1..Len(off) : x = off[k]
    BY DEF Elements
  <2>2. CASE k \in 1..m
    <3>1. PICK j \in 1..Len(r) : r[j] = off[k]
      BY <1>3, <1>6, <2>1, <2>2 DEF FrontIsSettled
    <3>2. j \in 1..Len(got) /\ got[j] = x
      BY <1>1, <2>1, <3>1
    <3>3. QED BY <3>2 DEF Elements
  <2>3. CASE k \notin 1..m
    <3>1. k - m \in 1..Len(q) /\ m + (k - m) = k
      BY <1>1, <1>2, <2>3
    <3>2. q[k - m] = x
      BY <1>2, <2>1, <3>1
    <3>3. Len(r) + (k - m) \in 1..Len(got) /\ got[Len(r) + (k - m)] = x
      BY <1>1, <3>1, <3>2
    <3>4. QED BY <3>3 DEF Elements
  <2>4. QED BY <2>2, <2>3
<1>7. ASSUME NEW i \in 1..Len(got), NEW j \in 1..Len(got), i < j
      PROVE  Precedes(off, got[i], got[j])
  <2>1. CASE j \in 1..Len(r)
    <3>1. i \in 1..Len(r)
      BY <1>1, <1>7, <2>1
    <3>2. PICK k \in 1..m, l \in 1..m :
            k < l /\ off[k] = r[i] /\ off[l] = r[j]
      BY <1>3, <1>7, <2>1, <3>1 DEF KeepsOrder
    <3>3. k \in 1..Len(off) /\ l \in 1..Len(off)
      BY <1>1, <1>2
    <3>4. QED BY <1>1, <2>1, <3>1, <3>2, <3>3 DEF Precedes
  <2>2. CASE i \in 1..Len(r) /\ j \notin 1..Len(r)
    <3>1. PICK k \in 1..m : off[k] = r[i]
      BY <1>3, <2>2 DEF FrontIsSettled
    <3>2. PICK l \in 1..Len(off) : l > m /\ off[l] = got[j]
      BY <1>4, <2>2
    <3>3. k \in 1..Len(off) /\ k < l
      BY <1>1, <1>2, <3>1, <3>2
    <3>4. QED BY <1>1, <2>2, <3>1, <3>2, <3>3 DEF Precedes
  <2>3. CASE i \notin 1..Len(r) /\ j \notin 1..Len(r)
    <3>1. /\ m + (i - Len(r)) \in 1..Len(off) /\ got[i] = off[m + (i - Len(r))]
          /\ m + (j - Len(r)) \in 1..Len(off) /\ got[j] = off[m + (j - Len(r))]
      BY <1>4, <2>3
    <3>2. m + (i - Len(r)) < m + (j - Len(r))
      BY <1>1, <1>2, <1>7
    <3>3. QED BY <3>1, <3>2 DEF Precedes
  <2>4. QED BY <1>1, <1>7, <2>1, <2>2, <2>3
<1>8. Elements(got) = Elements(off) \ sh
  BY <1>5, <1>6
<1>9. QED BY <1>7, <1>8 DEF got

-----------------------------------------------------------------------------
(* The lines of all subscriptions.  An event is awaited while its owner is *)
(* read or was read but not yet used: it is on no line, and awaited once.  *)

Awaited(e) == e \in reading \/ \E o \in Owner : <<e, o>> \in resolved

AwaitedIsNew ==
    /\ \A e \in Ids, o, p \in Owner : <<e, o>> \in resolved =>
         e \notin reading /\ (<<e, p>> \in resolved => o = p)
    /\ \A e \in Ids, s \in Subscriptions :
         Awaited(e) => New(offered[s], shed[s], e)

Lines == \A s \in Subscriptions :
             Line(offered[s], queue[s], received[s], shed[s])

LineInv == AwaitedIsNew /\ Lines

LEMMA NatSequences ==
    ASSUME NEW n \in Nat, RecordsOK(n), NEW s \in Subscriptions
    PROVE  /\ offered[s] \in Seq(Nat) /\ queue[s] \in Seq(Nat)
           /\ received[s] \in Seq(Nat)
<1>1. Seq(1..n) \subseteq Seq(Nat)
  OBVIOUS
<1>2. QED BY <1>1 DEF RecordsOK

(* Publication of an event that is new keeps each line, and each other     *)
(* event that is new to the line stays so.                                 *)
LEMMA NewAppend ==
    ASSUME NEW off \in Seq(Nat), NEW e \in Nat, NEW sh, NEW x, x # e,
           New(off, sh, x)
    PROVE  New(Append(off, e), sh, x)
BY DEF New

LEMMA LinePublish ==
    ASSUME NEW n \in Nat, RecordsOK(n), NoReaderForgotten, Lines,
           NEW e \in 1..n, NEW c, NEW R, Publish(e, c, R),
           NEW s \in Subscriptions, New(offered[s], shed[s], e)
    PROVE  /\ Line(offered'[s], queue'[s], received'[s], shed'[s])
           /\ \A x \in Nat : x # e /\ New(offered[s], shed[s], x) =>
                New(offered'[s], shed'[s], x)
<1>1. PICK off, q, r \in Seq(Nat), sh \in SUBSET (1..n) :
        off = offered[s] /\ q = queue[s] /\ r = received[s] /\ sh = shed[s]
  BY NatSequences DEF RecordsOK
<1>2. Line(off, q, r, sh) /\ New(off, sh, e) /\ e \in Nat
  BY <1>1 DEF Lines
<1>3. \/ /\ offered'[s] = off /\ queue'[s] = q
         /\ received'[s] = r /\ shed'[s] = sh
      \/ /\ waiting[s] /\ offered'[s] = Append(off, e) /\ queue'[s] = q
         /\ received'[s] = Append(r, e) /\ shed'[s] = sh
      \/ /\ offered'[s] = Append(off, e) /\ queue'[s] = PushQueue(q, e)
         /\ received'[s] = r /\ shed'[s] = sh \cup Shed(q, e)
  BY <1>1, Zenon DEF Publish
<1>4. CASE /\ offered'[s] = off /\ queue'[s] = q
           /\ received'[s] = r /\ shed'[s] = sh
  BY <1>1, <1>2, <1>4
<1>5. CASE /\ waiting[s] /\ offered'[s] = Append(off, e) /\ queue'[s] = q
           /\ received'[s] = Append(r, e) /\ shed'[s] = sh
  <2>1. q = <<>>
    BY <1>1, <1>5 DEF NoReaderForgotten
  <2>2. Line(Append(off, e), q, Append(r, e), sh)
    BY <1>2, <2>1, LineDelivers
  <2>3. \A x \in Nat : x # e /\ New(off, sh, x) => New(Append(off, e), sh, x)
    BY <1>2, NewAppend
  <2>4. QED BY <1>1, <1>5, <2>2, <2>3
<1>6. CASE /\ offered'[s] = Append(off, e) /\ queue'[s] = PushQueue(q, e)
           /\ received'[s] = r /\ shed'[s] = sh \cup Shed(q, e)
  <2>1. CASE Len(q) >= QueueSize
    <3>1. /\ PushQueue(q, e) = Append(Tail(q), e) /\ Shed(q, e) = {Head(q)}
          /\ \E i \in 1..Len(off) : off[i] = Head(q)
      BY <1>2, <2>1, ShedIsHead
    <3>2. Line(Append(off, e), Append(Tail(q), e), r, sh \cup {Head(q)})
      BY <1>2, <2>1, LineSheds
    <3>3. ASSUME NEW x \in Nat, x # e, New(off, sh, x)
          PROVE  New(Append(off, e), sh \cup {Head(q)}, x)
      <4>1. New(off, sh \cup {Head(q)}, x)
        BY <3>1, <3>3 DEF New
      <4>2. QED BY <1>2, <3>3, <4>1, NewAppend
    <3>4. QED BY <1>1, <1>6, <3>1, <3>2, <3>3
  <2>2. CASE ~(Len(q) >= QueueSize)
    <3>1. PushQueue(q, e) = Append(q, e) /\ shed'[s] = sh
      BY <1>2, <1>6, <2>2, ShedIsHead
    <3>2. Line(Append(off, e), Append(q, e), r, sh)
      BY <1>2, LineQueues
    <3>3. \A x \in Nat : x # e /\ New(off, sh, x) => New(Append(off, e), sh, x)
      BY <1>2, NewAppend
    <3>4. QED BY <1>1, <1>6, <3>1, <3>2, <3>3
  <2>3. QED BY <2>1, <2>2
<1>7. QED BY <1>3, <1>4, <1>5, <1>6

(* The event that arrives is new to every line.                            *)
LEMMA LineLifecycle ==
    ASSUME TypeOK, NoReaderForgotten, LineInv, NEW c \in Comps,
           HandleLifecycle(c)
    PROVE  LineInv'
<1>1. PICK n \in Nat : n = Len(events) /\ Ids = 1..n
  BY DEF TypeOK, Ids
<1>2. /\ ProjectionOK /\ RecordsOK(n) /\ RecordsOK(n + 1)
      /\ Ids' = 1..(n + 1) /\ n + 1 \in Nat /\ n + 1 \in 1..(n + 1)
  <2>1. ProjectionOK /\ RecordsOK(n)
    BY <1>1, TypeParts
  <2>2. Ids' = 1..(n + 1)
    BY <1>1, <2>1 DEF Ids, ProjectionOK, HandleLifecycle
  <2>3. QED BY <2>1, <2>2, MoreEvents
<1>3. \A s \in Subscriptions : New(offered[s], shed[s], n + 1)
  <2> SUFFICES ASSUME NEW s \in Subscriptions
               PROVE  New(offered[s], shed[s], n + 1)
    OBVIOUS
  <2>1. \A i \in 1..Len(offered[s]) : offered[s][i] \in 1..n
    BY <1>2 DEF RecordsOK
  <2>2. shed[s] \subseteq 1..n /\ n + 1 \notin 1..n
    BY <1>2 DEF RecordsOK
  <2>3. QED BY <2>1, <2>2 DEF New
<1>4. resolved' = resolved /\ resolved \subseteq (1..n) \X Owner
      /\ reading \subseteq 1..n /\ reading' \subseteq reading \cup {n + 1}
  BY <1>1, <1>2 DEF HandleLifecycle, ProjectionOK
<1>5. \A e \in Ids', o, p \in Owner : <<e, o>> \in resolved' =>
        e \notin reading' /\ (<<e, p>> \in resolved' => o = p)
  <2> SUFFICES ASSUME NEW e \in Ids', NEW o \in Owner, NEW p \in Owner,
                      <<e, o>> \in resolved'
               PROVE  e \notin reading' /\ (<<e, p>> \in resolved' => o = p)
    OBVIOUS
  <2>1. e \in 1..n /\ e # n + 1
    BY <1>4
  <2>2. QED BY <1>1, <1>4, <2>1 DEF LineInv, AwaitedIsNew
<1>6. CASE c \in Owned
  <2>1. UNCHANGED <<queue, received, offered, shed>>
    BY <1>6 DEF HandleLifecycle, records, history
  <2>2. ASSUME NEW e \in Ids', NEW s \in Subscriptions, Awaited(e)'
        PROVE  New(offered[s], shed[s], e)
    <3>1. CASE e = n + 1
      BY <1>3, <3>1
    <3>2. CASE e # n + 1
      <4>1. e \in Ids /\ Awaited(e)
        BY <1>1, <1>2, <1>4, <2>2, <3>2 DEF Awaited, Owner
      <4>2. QED BY <4>1 DEF LineInv, AwaitedIsNew
    <3>3. QED BY <3>1, <3>2
  <2>3. QED BY <1>5, <2>1, <2>2 DEF LineInv, AwaitedIsNew, Lines
<1>7. CASE c \notin Owned
  <2>1. Publish(n + 1, c, {}) /\ reading' = reading
    BY <1>1, <1>7 DEF HandleLifecycle
  <2>2. \A s \in Subscriptions :
          /\ Line(offered'[s], queue'[s], received'[s], shed'[s])
          /\ \A x \in Nat : x # n + 1 /\ New(offered[s], shed[s], x) =>
               New(offered'[s], shed'[s], x)
    BY <1>2, <1>3, <2>1, LinePublish DEF LineInv
  <2>3. ASSUME NEW e \in Ids', NEW s \in Subscriptions, Awaited(e)'
        PROVE  New(offered'[s], shed'[s], e)
    <3>1. Awaited(e)
      BY <1>4, <2>1, <2>3 DEF Awaited, Owner
    <3>2. e \in Ids /\ e # n + 1 /\ e \in Nat
      <4>1. e \in 1..n
        BY <1>4, <3>1 DEF Awaited
      <4>2. QED BY <1>1, <4>1
    <3>3. New(offered[s], shed[s], e)
      BY <3>1, <3>2 DEF LineInv, AwaitedIsNew
    <3>4. QED BY <2>2, <3>2, <3>3
  <2>4. QED BY <1>5, <2>2, <2>3 DEF LineInv, AwaitedIsNew, Lines
<1>8. QED BY <1>6, <1>7

LEMMA LineOwned ==
    ASSUME TypeOK, NoReaderForgotten, LineInv, NEW e \in Ids,
           NEW o \in Owner, PublishOwned(e, o)
    PROVE  LineInv'
<1>1. PICK n \in Nat : n = Len(events) /\ Ids = 1..n
  BY DEF TypeOK, Ids
<1>2. RecordsOK(n)
  BY <1>1, TypeParts
<1>3. /\ UNCHANGED <<events, reading>> /\ <<e, o>> \in resolved
      /\ resolved' = resolved \ {<<e, o>>}
      /\ Publish(e, events[e], {o} \ {Nobody})
  BY DEF PublishOwned
<1>4. Awaited(e) /\ \A s \in Subscriptions : New(offered[s], shed[s], e)
  BY <1>3 DEF LineInv, AwaitedIsNew, Awaited
<1>5. \A s \in Subscriptions :
        /\ Line(offered'[s], queue'[s], received'[s], shed'[s])
        /\ \A x \in Nat : x # e /\ New(offered[s], shed[s], x) =>
             New(offered'[s], shed'[s], x)
  BY <1>1, <1>2, <1>3, <1>4, LinePublish DEF LineInv
<1>6. ASSUME NEW x \in Ids, NEW s \in Subscriptions, Awaited(x)'
      PROVE  New(offered'[s], shed'[s], x)
  <2>1. Awaited(x) /\ x # e
    BY <1>3, <1>6 DEF Awaited, Owner, LineInv, AwaitedIsNew
  <2>2. New(offered[s], shed[s], x) /\ x \in Nat
    BY <1>1, <2>1 DEF LineInv, AwaitedIsNew
  <2>3. QED BY <1>5, <2>1, <2>2
<1>7. Ids' = Ids
  BY <1>3 DEF Ids
<1>8. \A x \in Ids, y, z \in Owner : <<x, y>> \in resolved' =>
        x \notin reading' /\ (<<x, z>> \in resolved' => y = z)
  BY <1>3 DEF LineInv, AwaitedIsNew
<1>9. QED BY <1>5, <1>6, <1>7, <1>8 DEF LineInv, AwaitedIsNew, Lines

LEMMA LineRead ==
    ASSUME TypeOK, LineInv, NEW e \in Ids, ResolveOwner(e)
    PROVE  LineInv'
<1>1. PICK o \in Owner : resolved' = resolved \cup {<<e, o>>}
  BY DEF ResolveOwner, TypeOK, Owner
<1>2. /\ e \in reading /\ reading' = reading \ {e}
      /\ UNCHANGED <<events, queue, received, offered, shed>>
  BY DEF ResolveOwner, records, history
<1>3. \A x \in Ids : Awaited(x)' => Awaited(x)
  BY <1>1, <1>2 DEF Awaited, Owner
<1>4. \A x \in Ids, y, z \in Owner : <<x, y>> \in resolved' =>
        x \notin reading' /\ (<<x, z>> \in resolved' => y = z)
  BY <1>1, <1>2 DEF LineInv, AwaitedIsNew
<1>5. QED BY <1>2, <1>3, <1>4 DEF LineInv, AwaitedIsNew, Lines, Ids

LEMMA LineNext ==
    ASSUME TypeOK, LineInv, NEW s \in Subscriptions, NextEvent(s)
    PROVE  LineInv'
<1>1. UNCHANGED <<events, reading, resolved, offered, shed>>
  BY DEF NextEvent
<1>2. AwaitedIsNew'
  BY <1>1 DEF LineInv, AwaitedIsNew, Awaited, Ids
<1>3. PICK n \in Nat : n = Len(events) /\ RecordsOK(n)
  BY TypeParts DEF TypeOK
<1>4. CASE queue[s] = <<>>
  BY <1>1, <1>2, <1>4 DEF NextEvent, LineInv, Lines
<1>5. CASE queue[s] # <<>>
  <2>1. /\ received' = [received EXCEPT ![s] = Append(@, Head(queue[s]))]
        /\ queue' = [queue EXCEPT ![s] = Tail(@)]
    BY <1>5 DEF NextEvent
  <2>2. ASSUME NEW t \in Subscriptions
        PROVE  Line(offered[t], queue'[t], received'[t], shed[t])
    <3>1. Line(offered[t], queue[t], received[t], shed[t])
      BY DEF LineInv, Lines
    <3>2. CASE t = s
      <4>1. /\ queue'[t] = Tail(queue[t])
            /\ received'[t] = Append(received[t], Head(queue[t]))
        BY <2>1, <3>2 DEF TypeOK
      <4>2. /\ offered[t] \in Seq(Nat) /\ queue[t] \in Seq(Nat)
            /\ received[t] \in Seq(Nat)
        BY <1>3, NatSequences
      <4>3. QED BY <1>5, <3>1, <3>2, <4>1, <4>2, LinePops
    <3>3. CASE t # s
      <4>1. queue'[t] = queue[t] /\ received'[t] = received[t]
        BY <2>1, <3>3 DEF TypeOK
      <4>2. QED BY <3>1, <4>1
    <3>4. QED BY <3>2, <3>3
  <2>3. QED BY <1>1, <1>2, <2>2 DEF LineInv, Lines
<1>6. QED BY <1>4, <1>5

LEMMA LineStep ==
    ASSUME TypeOK, NoReaderForgotten, LineInv, [Next]_vars
    PROVE  LineInv'
<1>1. ASSUME UNCHANGED <<events, reading, resolved, queue, received, offered,
                         shed>>
      PROVE  LineInv'
  BY <1>1 DEF LineInv, AwaitedIsNew, Awaited, Lines, Ids
<1>2. CASE UNCHANGED vars
  BY <1>1, <1>2 DEF vars, records, history
<1>3. ASSUME NEW o \in Owner, Transfer(o) PROVE LineInv'
  BY <1>1, <1>3 DEF Transfer, records, history
<1>4. ASSUME NEW s \in Subscriptions, Subscribe(s) \/ Close(s) PROVE LineInv'
  BY <1>1, <1>4 DEF Subscribe, Close, history
<1>5. QED
  BY <1>2, <1>3, <1>4, LineLifecycle, LineOwned, LineRead, LineNext DEF Next

LEMMA LineAlways == Spec => [](TypeOK /\ LineInv)
<1>1. Init => LineInv
  <2> SUFFICES ASSUME Init PROVE LineInv
    OBVIOUS
  <2>1. AwaitedIsNew
    BY DEF Init, AwaitedIsNew, Awaited
  <2>2. Lines
    BY LineStart DEF Init, Lines
  <2>3. QED BY <2>1, <2>2 DEF LineInv
<1>2. TypeOK /\ NoReaderForgotten /\ LineInv /\ [Next]_vars => LineInv'
  BY LineStep
<1>3. QED BY <1>1, <1>2, SubscriptionTypes, NoReaderIsForgotten, PTL DEF Spec

(* However publications, next() and return() interleave, what a subscriber *)
(* got and has queued is what it was entitled to since it subscribed, in   *)
(* the order of publication and each once, less what its limit gave up.    *)
THEOREM NothingIsLost == Spec => []InOrderWithoutGaps
<1>1. TypeOK /\ LineInv => InOrderWithoutGaps
  <2> SUFFICES ASSUME TypeOK, LineInv, NEW s \in Subscriptions
               PROVE  LET got == received[s] \o queue[s] IN
                      /\ Elements(got) = Elements(offered[s]) \ shed[s]
                      /\ \A i, j \in 1..Len(got) :
                           i < j => Precedes(offered[s], got[i], got[j])
                      /\ \A i, j \in 1..Len(offered[s]) :
                           i < j => offered[s][i] # offered[s][j]
    BY DEF InOrderWithoutGaps
  <2>1. PICK n \in Nat : n = Len(events) /\ RecordsOK(n)
    BY TypeParts DEF TypeOK
  <2>2. /\ offered[s] \in Seq(Nat) /\ queue[s] \in Seq(Nat)
        /\ received[s] \in Seq(Nat)
    BY <2>1, NatSequences
  <2>3. Line(offered[s], queue[s], received[s], shed[s])
    BY DEF LineInv, Lines
  <2>4. Distinct(offered[s])
    BY <2>3 DEF Line
  <2>5. QED BY <2>2, <2>3, <2>4, LineInOrder DEF Distinct
<1>2. QED BY <1>1, LineAlways, PTL

(* A full queue gives up only what is QueueSize events behind, whatever    *)
(* the limit.                                                              *)
THEOREM ShedsTheStale == Spec => []OnlyStaleIsShed
<1>1. LineInv => OnlyStaleIsShed
  BY DEF LineInv, Lines, Line, ShedIsStale, OnlyStaleIsShed
<1>2. QED BY <1>1, LineAlways, PTL
=============================================================================
