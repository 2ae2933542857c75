-------------------------- MODULE WsSessionsProofs --------------------------
(***************************************************************************)
(* What holds of the WebSocket sessions for any sockets, identities and    *)
(* tokens, however much they ask and however often the owner changes.      *)
(***************************************************************************)
EXTENDS WsSessions, TLAPS

-----------------------------------------------------------------------------
(* Type correctness.                                                       *)

ConnectionsOK ==
    /\ ready \in BOOLEAN
    /\ net \in [Sockets -> {"new", "open", "closed"}]
    /\ resolving \subseteq Sockets /\ pending \subseteq Sockets
    /\ authenticated \in [Sockets -> Identities \cup {None}]
    /\ bound \subseteq Sockets /\ leftEarly \subseteq Sockets
    /\ rooms \in [Identities -> SUBSET Sockets]

AskingOK == requests \in Seq(Requests) /\ applied \subseteq 1..Len(requests)

ProjectingOK == /\ owner \in Identities \cup {None}
                /\ events \in Seq(Events)
                /\ transfers \in Nat

(* What a client may have seen of m events and k requests.                 *)
Views(m, k) == [opened : Nat, entered : Nat \cup {None}, inbox : Seq(1..m),
                told : SUBSET (1..k)]
ClientsOK(m, k) == client \in [Sockets -> Views(m, k)]

LEMMA TypeParts ==
    TypeOK <=> /\ ConnectionsOK /\ AskingOK /\ ProjectingOK
               /\ ClientsOK(Len(events), Len(requests)) /\ faults \in Nat
BY DEF TypeOK, ConnectionsOK, AskingOK, ProjectingOK, ClientsOK, Views

LEMMA TypePartsNext ==
    TypeOK' <=> /\ ConnectionsOK' /\ AskingOK' /\ ProjectingOK'
                /\ ClientsOK(Len(events), Len(requests))' /\ (faults \in Nat)'
BY DEF TypeOK, ConnectionsOK, AskingOK, ProjectingOK, ClientsOK, Views

LEMMA Wider ==
    ASSUME NEW m \in Nat, NEW k \in Nat, NEW m2 \in Nat, NEW k2 \in Nat,
           m <= m2, k <= k2
    PROVE  Views(m, k) \subseteq Views(m2, k2)
<1>1. 1..m \subseteq 1..m2 /\ 1..k \subseteq 1..k2
  OBVIOUS
<1>2. Seq(1..m) \subseteq Seq(1..m2) /\ SUBSET (1..k) \subseteq SUBSET (1..k2)
  BY <1>1
<1>3. QED BY <1>2 DEF Views

LEMMA Unseen == ASSUME NEW m \in Nat, NEW k \in Nat PROVE Unconnected \in Views(m, k)
<1>1. <<>> \in Seq(1..m) /\ {} \in SUBSET (1..k) /\ 0 \in Nat
  OBVIOUS
<1>2. QED BY <1>1 DEF Unconnected, Views

(* A view of m events and k requests, after one of its fields has changed. *)
LEMMA Changed ==
    ASSUME NEW m \in Nat, NEW k \in Nat, NEW v \in Views(m, k)
    PROVE  /\ v.opened \in Nat /\ v.entered \in Nat \cup {None}
           /\ v.inbox \in Seq(1..m) /\ v.told \in SUBSET (1..k)
           /\ \A x \in Nat : [v EXCEPT !.opened = x] \in Views(m, k)
           /\ \A x \in Nat \cup {None} : [v EXCEPT !.entered = x] \in Views(m, k)
           /\ \A x \in Seq(1..m) : [v EXCEPT !.inbox = x] \in Views(m, k)
           /\ \A x \in SUBSET (1..k) : [v EXCEPT !.told = x] \in Views(m, k)
BY Zenon DEF Views

LEMMA Told ==
    ASSUME NEW m \in Nat, NEW k \in Nat, ClientsOK(m, k), NEW s \in Sockets,
           NEW n \in 1..k
    PROVE  Tell(s, n) \in [Sockets -> Views(m, k)]
<1>1. client[s] \in Views(m, k)
  BY DEF ClientsOK
<1>2. client[s].told \cup {n} \in SUBSET (1..k)
  BY <1>1, Changed
<1>3. [client[s] EXCEPT !.told = @ \cup {n}] \in Views(m, k)
  BY <1>1, <1>2, Changed, Zenon
<1>4. [client EXCEPT ![s].told = @ \cup {n}] \in [Sockets -> Views(m, k)]
  BY <1>3, Zenon DEF ClientsOK
<1>5. QED BY <1>4, Zenon DEF Tell, ClientsOK

LEMMA Emitted ==
    ASSUME NEW m \in Nat, NEW k \in Nat, ClientsOK(m, k), NEW to, NEW n \in 1..m
    PROVE  Emit(to, n) \in [Sockets -> Views(m, k)]
<1>1. ASSUME NEW s \in Sockets
      PROVE  [client[s] EXCEPT !.inbox = Append(@, n)] \in Views(m, k)
  <2>1. client[s] \in Views(m, k)
    BY DEF ClientsOK
  <2>2. client[s].inbox \in Seq(1..m)
    BY <2>1, Changed
  <2>3. Append(client[s].inbox, n) \in Seq(1..m)
    BY <2>2
  <2>4. QED BY <2>1, <2>3, Changed, Zenon
<1>2. QED BY <1>1, Zenon DEF Emit, ClientsOK

(* What the adapter makes of a token is an identity.                       *)
LEMMA Adapted ==
    ASSUME NEW s \in Sockets, Token(s) # None
    PROVE  IdentityOf[Token(s)] \in Identities
<1>1. Handshake[s].auth \in DOMAIN IdentityOf \cup {None}
      /\ Handshake[s].bearer \in DOMAIN IdentityOf \cup {None}
  BY WsAssumption
<1>2. Token(s) \in DOMAIN IdentityOf
  BY <1>1 DEF Token
<1>3. QED BY <1>2, WsAssumption

LEMMA DisconnectType ==
    ASSUME TypeOK, NEW s \in Sockets, HandleDisconnect(s)
    PROVE  /\ net' \in [Sockets -> {"new", "open", "closed"}]
           /\ pending' \subseteq Sockets /\ bound' \subseteq Sockets
           /\ authenticated' \in [Sockets -> Identities \cup {None}]
           /\ rooms' \in [Identities -> SUBSET Sockets]
           /\ client' \in [Sockets -> Views(Len(events), Len(requests))]
<1>1. Unconnected \in Views(Len(events), Len(requests))
  BY Unseen DEF TypeOK
<1>2. client' \in [Sockets -> Views(Len(events), Len(requests))]
  BY <1>1, TypeParts, Zenon DEF HandleDisconnect, ClientsOK
<1>3. QED BY <1>2 DEF TypeOK, HandleDisconnect

(* The steps of the connections keep the types.                            *)
Connecting(s) ==
    \/ HandleConnection(s) \/ Leave(s) \/ ResolveRefused(s)
    \/ ResolveIdentity(s) \/ ResolveFails(s) \/ HandleHello(s)

LEMMA ConnectingType ==
    ASSUME TypeOK, NEW s \in Sockets, Connecting(s)
    PROVE  TypeOK'
<1> USE DEF connections, asking, projecting
<1>0. /\ ConnectionsOK /\ AskingOK /\ ProjectingOK
      /\ ClientsOK(Len(events), Len(requests)) /\ faults \in Nat
  BY TypeParts
<1>1. UNCHANGED <<asking, projecting>>
  BY DEF Connecting, HandleConnection, Leave, ResolveRefused, ResolveIdentity,
         ResolveFails, HandleHello
<1>2. AskingOK' /\ ProjectingOK' /\ Len(events)' = Len(events)
      /\ Len(requests)' = Len(requests)
  BY <1>0, <1>1 DEF AskingOK, ProjectingOK
<1>3. faults' \in Nat
  BY <1>0 DEF Connecting, HandleConnection, Leave, ResolveRefused, ResolveIdentity,
              ResolveFails, HandleHello, Fault
<1>4. Len(events) \in Nat /\ Len(requests) \in Nat
  BY <1>0 DEF AskingOK, ProjectingOK
<1>5. client[s] \in Views(Len(events), Len(requests))
  BY <1>0 DEF ClientsOK
<1>6. /\ ConnectionsOK'
      /\ client' \in [Sockets -> Views(Len(events), Len(requests))]
  <2>1. CASE HandleConnection(s)
    <3>1. [client[s] EXCEPT !.opened = Len(events)] \in Views(Len(events), Len(requests))
      BY <1>4, <1>5, Changed
    <3>2. client' \in [Sockets -> Views(Len(events), Len(requests))]
      BY <1>0, <2>1, <3>1, Zenon DEF HandleConnection, ClientsOK
    <3>3. QED BY <1>0, <2>1, <3>2 DEF HandleConnection, ConnectionsOK
  <2>2. CASE Leave(s)
    BY <1>0, <2>2, DisconnectType DEF Leave, ConnectionsOK
  <2>3. CASE ResolveRefused(s)
    BY <1>0, <2>3, DisconnectType DEF ResolveRefused, ConnectionsOK, ClientsOK
  <2>4. CASE ResolveIdentity(s)
    BY <1>0, <2>4, Adapted DEF ResolveIdentity, ConnectionsOK, ClientsOK,
                               BindClientEvents
  <2>5. CASE ResolveFails(s)
    BY <1>0, <2>5 DEF ResolveFails, ConnectionsOK, ClientsOK
  <2>6. CASE HandleHello(s)
    <3>1. \A x \in Nat \cup {None} : [client[s] EXCEPT !.entered = x]
             \in Views(Len(events), Len(requests))
      BY <1>4, <1>5, Changed
    <3>2. Enters(s)[s] = [client[s] EXCEPT !.entered =
             IF client[s].entered = None THEN Len(events) ELSE client[s].entered]
      BY <1>0, Zenon DEF Enters, ClientsOK
    <3>3. (IF client[s].entered = None THEN Len(events) ELSE client[s].entered)
             \in Nat \cup {None}
      BY <1>4, <1>5, Changed
    <3>4. Enters(s)[s] \in Views(Len(events), Len(requests))
      BY <3>1, <3>2, <3>3, Zenon
    <3>5. client' \in [Sockets -> Views(Len(events), Len(requests))]
      <4>1. ASSUME NEW q \in Sockets
            PROVE  Enters(s)[q] \in Views(Len(events), Len(requests))
        BY <1>0, <3>4, Zenon DEF Enters, ClientsOK
      <4>2. Enters(s) = [q \in Sockets |-> Enters(s)[q]]
        BY <1>0, Zenon DEF Enters, ClientsOK
      <4>3. QED BY <2>6, <4>1, <4>2, Zenon DEF HandleHello
    <3>6. QED BY <1>0, <2>6, <3>5 DEF HandleHello, ConnectionsOK
  <2>7. QED BY <2>1, <2>2, <2>3, <2>4, <2>5, <2>6 DEF Connecting
<1>7. ClientsOK(Len(events), Len(requests))'
  BY <1>2, <1>6 DEF ClientsOK, Views
<1>8. QED BY <1>2, <1>3, <1>6, <1>7, TypePartsNext

LEMMA EnvelopeType ==
    ASSUME TypeOK, NEW s \in Sockets, HandleEnvelope(s)
    PROVE  TypeOK'
<1>0. /\ ConnectionsOK /\ AskingOK /\ ProjectingOK
      /\ ClientsOK(Len(events), Len(requests)) /\ faults \in Nat
  BY TypeParts
<1>1. /\ UNCHANGED <<connections, projecting, faults>> /\ applied' = applied
  BY DEF HandleEnvelope
<1>2. PICK k \in Kinds, wellFormed \in BOOLEAN :
        /\ requests' = Append(requests,
                              [by |-> s, kind |-> k, running |-> wellFormed])
        /\ client' = IF wellFormed THEN client ELSE Tell(s, Len(requests) + 1)
  BY DEF HandleEnvelope
<1>3. [by |-> s, kind |-> k, running |-> wellFormed] \in Requests
  BY DEF Requests
<1>4. /\ requests' \in Seq(Requests) /\ Len(requests') = Len(requests) + 1
      /\ Len(requests) \in Nat /\ Len(events) \in Nat
      /\ applied' \subseteq 1..Len(requests')
  BY <1>0, <1>1, <1>2, <1>3 DEF AskingOK, ProjectingOK
<1>5. ClientsOK(Len(events), Len(requests) + 1)
  BY <1>0, <1>4, Wider DEF ClientsOK
<1>6. client' \in [Sockets -> Views(Len(events), Len(requests) + 1)]
  <2>1. Tell(s, Len(requests) + 1) \in [Sockets -> Views(Len(events), Len(requests) + 1)]
    BY <1>4, <1>5, Told
  <2>2. QED BY <1>2, <1>5, <2>1 DEF ClientsOK
<1>7. ClientsOK(Len(events), Len(requests))'
  <2>1. Len(events)' = Len(events) /\ Len(requests)' = Len(requests) + 1
    BY <1>1, <1>4 DEF projecting
  <2>2. QED BY <1>6, <2>1 DEF ClientsOK, Views
<1>8. ConnectionsOK' /\ ProjectingOK' /\ (faults \in Nat)'
  BY <1>0, <1>1 DEF ConnectionsOK, ProjectingOK, connections, projecting
<1>9. QED BY <1>4, <1>7, <1>8, TypePartsNext DEF AskingOK

(* A request that has been settled.                                        *)
LEMMA SettledRequest ==
    ASSUME requests \in Seq(Requests), NEW n \in 1..Len(requests),
           requests' = [requests EXCEPT ![n].running = FALSE]
    PROVE  /\ requests' \in Seq(Requests) /\ Len(requests') = Len(requests)
           /\ \A m \in 1..Len(requests) :
                /\ requests'[m].by = requests[m].by
                /\ requests'[m].kind = requests[m].kind
                /\ requests'[m].running = (m # n /\ requests[m].running)
<1>1. requests[n] \in Requests
  OBVIOUS
<1>2. [requests[n] EXCEPT !.running = FALSE] \in Requests
  BY <1>1, Zenon DEF Requests
<1>3. DOMAIN requests' = DOMAIN requests
  OBVIOUS
<1>4. requests' \in Seq(Requests) /\ Len(requests') = Len(requests)
  BY <1>2, <1>3
<1>5. ASSUME NEW m \in 1..Len(requests)
      PROVE  /\ requests'[m].by = requests[m].by
             /\ requests'[m].kind = requests[m].kind
             /\ requests'[m].running = (m # n /\ requests[m].running)
  <2>1. requests[m].running \in BOOLEAN
    <3>1. requests[m] \in Requests
      OBVIOUS
    <3>2. QED BY <3>1 DEF Requests
  <2>2. CASE m = n
    <3>0. n \in DOMAIN requests
      OBVIOUS
    <3>1. requests'[n] = [requests[n] EXCEPT !.running = FALSE]
      BY <3>0, Zenon
    <3>2. /\ requests'[n].by = requests[n].by /\ requests'[n].kind = requests[n].kind
          /\ requests'[n].running = FALSE
      BY <1>1, <3>1 DEF Requests
    <3>3. QED BY <2>2, <3>2
  <2>3. CASE m # n
    BY <2>1, <2>3
  <2>4. QED BY <2>2, <2>3
<1>6. QED BY <1>4, <1>5

LEMMA SettleType ==
    ASSUME TypeOK, NEW n \in 1..Len(requests), Settle(n)
    PROVE  TypeOK'
<1>0. /\ ConnectionsOK /\ AskingOK /\ ProjectingOK
      /\ ClientsOK(Len(events), Len(requests)) /\ faults \in Nat
  BY TypeParts
<1>1. /\ UNCHANGED <<connections, projecting>>
      /\ requests' = [requests EXCEPT ![n].running = FALSE]
      /\ faults' \in Nat
  BY <1>0 DEF Settle, Ok, Fault
<1>2. requests' \in Seq(Requests) /\ Len(requests') = Len(requests)
  BY <1>0, <1>1, SettledRequest DEF AskingOK
<1>3. applied' \subseteq 1..Len(requests')
  BY <1>0, <1>2 DEF Settle, AskingOK
<1>4. requests[n].by \in Sockets
  <2>1. requests[n] \in Requests
    BY <1>0 DEF AskingOK
  <2>2. QED BY <2>1 DEF Requests
<1>5. Len(events) \in Nat /\ Len(requests) \in Nat
  BY <1>0 DEF AskingOK, ProjectingOK
<1>6. Tell(requests[n].by, n) \in [Sockets -> Views(Len(events), Len(requests))]
  BY <1>0, <1>4, <1>5, Told
<1>7. client' \in {client, Tell(requests[n].by, n)}
  BY DEF Settle
<1>8. client' \in [Sockets -> Views(Len(events), Len(requests))]
  BY <1>0, <1>6, <1>7 DEF ClientsOK
<1>9. ClientsOK(Len(events), Len(requests))'
  <2>1. Len(events)' = Len(events) /\ Len(requests)' = Len(requests)
    BY <1>1, <1>2 DEF projecting
  <2>2. QED BY <1>8, <2>1 DEF ClientsOK, Views
<1>10. ConnectionsOK' /\ ProjectingOK'
  BY <1>0, <1>1 DEF ConnectionsOK, ProjectingOK, connections, projecting
<1>11. QED BY <1>1, <1>2, <1>3, <1>9, <1>10, TypePartsNext DEF AskingOK

(* The events after a field of one has changed.                            *)
Reached(q, n, x) == [q EXCEPT ![n].at = x]
Addressed(q, n, i) == [q EXCEPT ![n].recipient = i]

LEMMA EventAt ==
    ASSUME NEW q \in Seq(Events), NEW n \in 1..Len(q), NEW x \in {"read", "emit", "done"}
    PROVE  LET r == Reached(q, n, x) IN
           /\ r \in Seq(Events) /\ Len(r) = Len(q)
           /\ \A m \in 1..Len(q) : m # n => r[m] = q[m]
           /\ r[n].at = x /\ r[n].scope = q[n].scope
           /\ r[n].recipient = q[n].recipient /\ r[n].owners = q[n].owners
<1> DEFINE r == Reached(q, n, x)
<1>1. q[n] \in Events /\ n \in DOMAIN q
  OBVIOUS
<1>2. [q[n] EXCEPT !.at = x] \in Events
  BY <1>1, Zenon DEF Events
<1>3. r[n] = [q[n] EXCEPT !.at = x]
  BY <1>1, Zenon DEF Reached
<1>4. /\ r[n].at = x /\ r[n].scope = q[n].scope
      /\ r[n].recipient = q[n].recipient /\ r[n].owners = q[n].owners
  BY <1>1, <1>3 DEF Events
<1>5. \A m \in 1..Len(q) : m # n => r[m] = q[m]
  BY DEF Reached
<1>6. r \in Seq(Events) /\ Len(r) = Len(q)
  BY <1>2 DEF Reached
<1>7. QED BY <1>4, <1>5, <1>6

LEMMA EventRecipient ==
    ASSUME NEW q \in Seq(Events), NEW n \in 1..Len(q), NEW x \in Identities \cup {None}
    PROVE  LET r == Addressed(q, n, x) IN
           /\ r \in Seq(Events) /\ Len(r) = Len(q)
           /\ \A m \in 1..Len(q) : m # n => r[m] = q[m]
           /\ r[n].at = q[n].at /\ r[n].scope = q[n].scope
           /\ r[n].recipient = x /\ r[n].owners = q[n].owners
<1> DEFINE r == Addressed(q, n, x)
<1>1. q[n] \in Events /\ n \in DOMAIN q
  OBVIOUS
<1>2. [q[n] EXCEPT !.recipient = x] \in Events
  BY <1>1, Zenon DEF Events
<1>3. r[n] = [q[n] EXCEPT !.recipient = x]
  BY <1>1, Zenon DEF Addressed
<1>4. /\ r[n].at = q[n].at /\ r[n].scope = q[n].scope
      /\ r[n].recipient = x /\ r[n].owners = q[n].owners
  BY <1>1, <1>3 DEF Events
<1>5. \A m \in 1..Len(q) : m # n => r[m] = q[m]
  BY DEF Addressed
<1>6. r \in Seq(Events) /\ Len(r) = Len(q)
  BY <1>2 DEF Addressed
<1>7. QED BY <1>4, <1>5, <1>6

LEMMA EventAnswered ==
    ASSUME NEW q \in Seq(Events), NEW n \in 1..Len(q), NEW x \in Identities \cup {None}
    PROVE  LET r == Addressed(Reached(q, n, "emit"), n, x) IN
           /\ r \in Seq(Events) /\ Len(r) = Len(q)
           /\ \A m \in 1..Len(q) : m # n => r[m] = q[m]
           /\ r[n].at = "emit" /\ r[n].scope = q[n].scope
           /\ r[n].recipient = x /\ r[n].owners = q[n].owners
<1> DEFINE p == Reached(q, n, "emit")
           r == Addressed(p, n, x)
<1>1. /\ p \in Seq(Events) /\ Len(p) = Len(q)
      /\ \A m \in 1..Len(q) : m # n => p[m] = q[m]
      /\ p[n].at = "emit" /\ p[n].scope = q[n].scope /\ p[n].owners = q[n].owners
  BY EventAt
<1>2. n \in 1..Len(p)
  BY <1>1
<1> HIDE DEF p
<1>3. /\ r \in Seq(Events) /\ Len(r) = Len(p)
      /\ \A m \in 1..Len(p) : m # n => r[m] = p[m]
      /\ r[n].at = p[n].at /\ r[n].scope = p[n].scope
      /\ r[n].recipient = x /\ r[n].owners = p[n].owners
  BY <1>1, <1>2, EventRecipient
<1>4. QED BY <1>1, <1>3 DEF p

(* The owner is read, or the read fails.                                   *)
LEMMA OwnerResolved ==
    ASSUME TypeOK, NEW n \in 1..Len(events), ResolveOwner(n)
    PROVE  /\ events' \in Seq(Events) /\ Len(events') = Len(events)
           /\ \A m \in 1..Len(events) : m # n => events'[m] = events[m]
           /\ events'[n].at = "emit" /\ events'[n].scope = events[n].scope
           /\ events'[n].owners = events[n].owners
           /\ \/ faults' = faults /\ events'[n].recipient = owner
              \/ faults' # 0 /\ events'[n].recipient = events[n].recipient
<1>1. events \in Seq(Events) /\ owner \in Identities \cup {None} /\ faults \in Nat
  BY DEF TypeOK
<1>2. CASE Ok /\ events' = [events EXCEPT ![n].at = "emit", ![n].recipient = owner]
  <2>1. events' = Addressed(Reached(events, n, "emit"), n, owner)
    BY <1>2, Zenon DEF Reached, Addressed
  <2> DEFINE r == Addressed(Reached(events, n, "emit"), n, owner)
  <2>2. /\ r \in Seq(Events) /\ Len(r) = Len(events)
        /\ \A m \in 1..Len(events) : m # n => r[m] = events[m]
        /\ r[n].at = "emit" /\ r[n].scope = events[n].scope
        /\ r[n].recipient = owner /\ r[n].owners = events[n].owners
    BY <1>1, EventAnswered
  <2>3. QED BY <1>2, <2>1, <2>2 DEF Ok
<1>3. CASE Fault /\ events' = [events EXCEPT ![n].at = "emit"]
  <2>1. events' = Reached(events, n, "emit")
    BY <1>3 DEF Reached
  <2>2. faults' # 0
    BY <1>1, <1>3 DEF Fault
  <2> DEFINE r == Reached(events, n, "emit")
  <2>3. /\ r \in Seq(Events) /\ Len(r) = Len(events)
        /\ \A m \in 1..Len(events) : m # n => r[m] = events[m]
        /\ r[n].at = "emit" /\ r[n].scope = events[n].scope
        /\ r[n].recipient = events[n].recipient /\ r[n].owners = events[n].owners
    BY <1>1, EventAt
  <2>4. QED BY <2>1, <2>2, <2>3
<1>4. QED BY <1>2, <1>3 DEF ResolveOwner

(* The event is emitted.                                                   *)
LEMMA EventDone ==
    ASSUME TypeOK, NEW n \in 1..Len(events), EmitProjection(n)
    PROVE  /\ events' \in Seq(Events) /\ Len(events') = Len(events)
           /\ \A m \in 1..Len(events) : m # n => events'[m] = events[m]
           /\ events'[n].at = "done" /\ events'[n].scope = events[n].scope
           /\ events'[n].owners = events[n].owners
<1>1. events \in Seq(Events)
  BY DEF TypeOK
<1>2. events' = Reached(events, n, "done")
  BY DEF EmitProjection, Reached
<1> DEFINE r == Reached(events, n, "done")
<1>3. /\ r \in Seq(Events) /\ Len(r) = Len(events)
      /\ \A m \in 1..Len(events) : m # n => r[m] = events[m]
      /\ r[n].at = "done" /\ r[n].scope = events[n].scope
      /\ r[n].owners = events[n].owners
  BY <1>1, EventAt
<1>4. QED BY <1>2, <1>3

(* The owner changes: the events whose owner is still to be read note it.  *)
LEMMA EventsTransferred ==
    ASSUME events \in Seq(Events), NEW i \in Identities \cup {None},
           events' = [n \in 1..Len(events) |->
                         IF events[n].at = "read"
                         THEN [events[n] EXCEPT !.owners = @ \cup {i}]
                         ELSE events[n]]
    PROVE  /\ events' \in Seq(Events) /\ Len(events') = Len(events)
           /\ \A n \in 1..Len(events) :
                /\ events'[n].at = events[n].at
                /\ events'[n].scope = events[n].scope
                /\ events'[n].recipient = events[n].recipient
                /\ events'[n].owners = IF events[n].at = "read"
                                       THEN events[n].owners \cup {i}
                                       ELSE events[n].owners
<1>1. ASSUME NEW n \in 1..Len(events)
      PROVE  /\ events'[n] \in Events
             /\ events'[n].at = events[n].at
             /\ events'[n].scope = events[n].scope
             /\ events'[n].recipient = events[n].recipient
             /\ events'[n].owners = IF events[n].at = "read"
                                    THEN events[n].owners \cup {i}
                                    ELSE events[n].owners
  <2>1. events[n] \in Events
    OBVIOUS
  <2>2. CASE events[n].at = "read"
    <3>1. events'[n] = [events[n] EXCEPT !.owners = events[n].owners \cup {i}]
      BY <2>2
    <3>2. events[n].owners \cup {i} \in SUBSET (Identities \cup {None})
      BY <2>1 DEF Events
    <3>3. events'[n] \in Events
      BY <2>1, <3>1, <3>2, Zenon DEF Events
    <3>4. QED BY <2>1, <2>2, <3>1, <3>3 DEF Events
  <2>3. CASE events[n].at # "read"
    <3>1. events'[n] = events[n]
      BY <2>3
    <3>2. QED BY <2>1, <2>3, <3>1
  <2>4. QED BY <2>2, <2>3
<1>2. Len(events) \in Nat
  OBVIOUS
<1>3. events' \in [1..Len(events) -> Events]
  BY <1>1
<1>4. events' \in Seq(Events) /\ Len(events') = Len(events)
  BY <1>2, <1>3
<1>5. QED BY <1>1, <1>4

LEMMA LifecycleType ==
    ASSUME TypeOK, HandleEbcaLifecycle
    PROVE  /\ TypeOK'
           /\ Len(events') = Len(events) + 1
           /\ \A n \in 1..Len(events) : events'[n] = events[n]
<1>0. /\ ConnectionsOK /\ AskingOK /\ ProjectingOK
      /\ ClientsOK(Len(events), Len(requests)) /\ faults \in Nat
  BY TypeParts
<1>1. UNCHANGED <<connections, asking, owner, transfers, faults>>
  BY DEF HandleEbcaLifecycle
<1>2. PICK e \in Events : events' = Append(events, e)
  <2>1. /\ [scope |-> "world", at |-> "done", recipient |-> None, owners |-> {}]
             \in Events
        /\ [scope |-> "owner", at |-> "read", recipient |-> None, owners |-> {owner}]
             \in Events
    BY <1>0 DEF Events, ProjectingOK
  <2>2. QED BY <2>1 DEF HandleEbcaLifecycle
<1>3. /\ events' \in Seq(Events) /\ Len(events') = Len(events) + 1
      /\ \A n \in 1..Len(events) : events'[n] = events[n]
      /\ Len(events) \in Nat /\ Len(requests) \in Nat
  BY <1>0, <1>2 DEF ProjectingOK, AskingOK
<1>4. ClientsOK(Len(events) + 1, Len(requests))
  BY <1>0, <1>3, Wider DEF ClientsOK
<1>5. client' \in [Sockets -> Views(Len(events) + 1, Len(requests))]
  <2>1. EmitToAll(Len(events) + 1) \in [Sockets -> Views(Len(events) + 1, Len(requests))]
    BY <1>3, <1>4, Emitted DEF EmitToAll
  <2>2. client' \in {client, EmitToAll(Len(events) + 1)}
    BY DEF HandleEbcaLifecycle
  <2>3. QED BY <1>4, <2>1, <2>2 DEF ClientsOK
<1>6. ClientsOK(Len(events), Len(requests))'
  <2>1. Len(events)' = Len(events) + 1 /\ Len(requests)' = Len(requests)
    BY <1>1, <1>3 DEF asking
  <2>2. QED BY <1>5, <2>1 DEF ClientsOK, Views
<1>7. ConnectionsOK' /\ AskingOK' /\ ProjectingOK' /\ (faults \in Nat)'
  BY <1>0, <1>1, <1>3 DEF ConnectionsOK, AskingOK, ProjectingOK, connections, asking
<1>8. QED BY <1>3, <1>6, <1>7, TypePartsNext

(* The other steps of projections leave the number of events.              *)
LEMMA ProjectingType ==
    ASSUME TypeOK, UNCHANGED <<connections, asking>>, faults' \in Nat,
           events' \in Seq(Events), Len(events') = Len(events),
           owner' \in Identities \cup {None}, transfers' \in Nat,
           client' \in [Sockets -> Views(Len(events), Len(requests))]
    PROVE  TypeOK'
<1>0. ConnectionsOK /\ AskingOK
  BY TypeParts
<1>1. ClientsOK(Len(events), Len(requests))'
  <2>1. Len(events)' = Len(events) /\ Len(requests)' = Len(requests)
    BY DEF asking
  <2>2. QED BY <2>1 DEF ClientsOK, Views
<1>2. ConnectionsOK' /\ AskingOK' /\ ProjectingOK'
  BY <1>0 DEF ConnectionsOK, AskingOK, ProjectingOK, connections, asking
<1>3. QED BY <1>1, <1>2, TypePartsNext

LEMMA ResolveOwnerType ==
    ASSUME TypeOK, NEW n \in 1..Len(events), ResolveOwner(n)
    PROVE  TypeOK'
<1>0. /\ ProjectingOK /\ ClientsOK(Len(events), Len(requests)) /\ faults \in Nat
  BY TypeParts
<1>1. events' \in Seq(Events) /\ Len(events') = Len(events)
  BY OwnerResolved
<1>2. UNCHANGED <<connections, asking, client, owner, transfers>> /\ faults' \in Nat
  BY <1>0 DEF ResolveOwner, Ok, Fault
<1>3. QED BY <1>0, <1>1, <1>2, ProjectingType DEF ProjectingOK, ClientsOK

LEMMA EmitProjectionType ==
    ASSUME TypeOK, NEW n \in 1..Len(events), EmitProjection(n)
    PROVE  TypeOK'
<1>0. /\ AskingOK /\ ProjectingOK /\ ClientsOK(Len(events), Len(requests))
      /\ faults \in Nat
  BY TypeParts
<1>1. events' \in Seq(Events) /\ Len(events') = Len(events)
  BY EventDone
<1>2. UNCHANGED <<connections, asking, owner, transfers, faults>>
  BY DEF EmitProjection
<1>3. client' \in [Sockets -> Views(Len(events), Len(requests))]
  <2>1. Len(events) \in Nat /\ Len(requests) \in Nat
    BY <1>0 DEF AskingOK, ProjectingOK
  <2>2. EmitToIdentity(events[n].recipient, n)
           \in [Sockets -> Views(Len(events), Len(requests))]
    BY <1>0, <2>1, Emitted DEF EmitToIdentity
  <2>3. QED BY <1>0, <2>2 DEF EmitProjection, ClientsOK
<1>4. QED BY <1>0, <1>1, <1>2, <1>3, ProjectingType DEF ProjectingOK

LEMMA TransferType ==
    ASSUME TypeOK, Transfer
    PROVE  TypeOK'
<1>0. /\ ProjectingOK /\ ClientsOK(Len(events), Len(requests)) /\ faults \in Nat
  BY TypeParts
<1>1. PICK i \in Identities \cup {None} :
        /\ owner' = i
        /\ events' = [n \in 1..Len(events) |->
                         IF events[n].at = "read"
                         THEN [events[n] EXCEPT !.owners = @ \cup {i}]
                         ELSE events[n]]
  BY DEF Transfer
<1>2. events' \in Seq(Events) /\ Len(events') = Len(events)
  BY <1>0, <1>1, EventsTransferred DEF ProjectingOK
<1>3. UNCHANGED <<connections, asking, client, faults>> /\ transfers' \in Nat
  BY <1>0 DEF Transfer, ProjectingOK
<1>4. QED BY <1>0, <1>1, <1>2, <1>3, ProjectingType DEF ClientsOK

LEMMA InitType == ASSUME Init PROVE TypeOK
<1>1. Unconnected \in Views(0, 0)
  BY Unseen
<1>2. Len(events) = 0 /\ Len(requests) = 0
  BY DEF Init
<1>3. ClientsOK(Len(events), Len(requests))
  BY <1>1, <1>2 DEF Init, ClientsOK
<1>4. ConnectionsOK /\ AskingOK /\ ProjectingOK /\ faults \in Nat
  <2>1. net \in [Sockets -> {"new", "open", "closed"}]
        /\ authenticated \in [Sockets -> Identities \cup {None}]
        /\ rooms \in [Identities -> SUBSET Sockets]
    BY DEF Init
  <2>2. <<>> \in Seq(Requests) /\ <<>> \in Seq(Events)
    OBVIOUS
  <2>3. QED BY <2>1, <2>2 DEF Init, ConnectionsOK, AskingOK, ProjectingOK
<1>5. QED BY <1>3, <1>4, TypeParts

LEMMA NextType == ASSUME TypeOK, [Next]_vars PROVE TypeOK'
<1>1. CASE AfterInit
  BY <1>1 DEF TypeOK, AfterInit, asking, projecting
<1>2. ASSUME NEW s \in Sockets, Connecting(s) PROVE TypeOK'
  BY <1>2, ConnectingType
<1>3. ASSUME NEW s \in Sockets, HandleEnvelope(s) PROVE TypeOK'
  BY <1>3, EnvelopeType
<1>4. ASSUME NEW n \in 1..Len(requests), Settle(n) PROVE TypeOK'
  BY <1>4, SettleType
<1>5. CASE HandleEbcaLifecycle
  BY <1>5, LifecycleType
<1>6. ASSUME NEW n \in 1..Len(events), ResolveOwner(n) PROVE TypeOK'
  BY <1>6, ResolveOwnerType
<1>7. ASSUME NEW n \in 1..Len(events), EmitProjection(n) PROVE TypeOK'
  BY <1>7, EmitProjectionType
<1>8. CASE Transfer
  BY <1>8, TransferType
<1>9. CASE UNCHANGED vars
  BY <1>9 DEF TypeOK, vars, connections, asking, projecting
<1>10. QED BY <1>1, <1>2, <1>3, <1>4, <1>5, <1>6, <1>7, <1>8, <1>9 DEF Next, Connecting

(* The gateway's maps and rooms, the requests, the events and what clients *)
(* see of them have their types: nothing is sent that does not exist.      *)
THEOREM TypeCorrect == Spec => []TypeOK
<1>1. QED BY InitType, NextType, PTL DEF Spec

-----------------------------------------------------------------------------
(* Connections, rooms and maps.                                            *)

(* Listeners belong to open sockets with an identity, and who is in a room *)
(* is listened to and has the room's identity.                             *)
Entered ==
    /\ \A s \in bound : /\ net[s] = "open" /\ authenticated[s] # None
                        /\ Authorized(s, authenticated[s])
    /\ \A i \in Identities : \A s \in rooms[i] :
           s \in bound /\ authenticated[s] = i

(* A token that is being resolved is that of a socket that is open or left *)
(* meanwhile.                                                              *)
Waiting == resolving \subseteq Open \cup leftEarly

(* Sockets are there after there is a server, and clients see nothing      *)
(* before they connect and after they left.                                *)
Served == \A s \in Sockets : /\ net[s] # "new" => ready
                             /\ net[s] # "open" => client[s] = Unconnected

Sessions == Entered /\ Waiting /\ MapsFollowSockets /\ Served

LEMMA EnteredKept ==
    ASSUME TypeOK, Entered, NEW s \in Sockets, Connecting(s)
    PROVE  Entered'
<1>0. /\ net \in [Sockets -> {"new", "open", "closed"}]
      /\ authenticated \in [Sockets -> Identities \cup {None}]
      /\ rooms \in [Identities -> SUBSET Sockets] /\ bound \subseteq Sockets
  BY DEF TypeOK
<1>1. ASSUME HandleDisconnect(s) PROVE Entered'
  BY <1>0, <1>1 DEF HandleDisconnect, Entered, Authorized
<1>2. CASE HandleConnection(s)
  BY <1>0, <1>2 DEF HandleConnection, Entered, Authorized
<1>3. CASE Leave(s)
  BY <1>1, <1>3 DEF Leave
<1>4. CASE ResolveRefused(s)
  BY <1>1, <1>4 DEF ResolveRefused, Entered, Authorized
<1>5. CASE ResolveIdentity(s)
  <2>1. IdentityOf[Token(s)] \in Identities /\ IdentityOf[Token(s)] # None
    BY <1>5, Adapted, WsAssumption DEF ResolveIdentity
  <2>2. /\ authenticated'[s] = IdentityOf[Token(s)] /\ Authorized(s, authenticated'[s])
        /\ \A q \in Sockets \ {s} : authenticated'[q] = authenticated[q]
    BY <1>0, <1>5 DEF ResolveIdentity, Authorized
  <2>3. \A q \in bound : authenticated'[q] = authenticated[q]
    BY <1>0, <2>2 DEF Entered, Authorized
  <2>4. UNCHANGED <<net, rooms>> /\ bound \subseteq bound'
        /\ \A q \in bound' : q \in bound \/ (q = s /\ net[s] = "open")
    BY <1>5 DEF ResolveIdentity, BindClientEvents
  <2>5. QED BY <1>0, <2>1, <2>2, <2>3, <2>4 DEF Entered, Authorized
<1>6. CASE ResolveFails(s)
  BY <1>6 DEF ResolveFails, Entered, Authorized
<1>7. CASE HandleHello(s)
  BY <1>0, <1>7 DEF HandleHello, Entered, Authorized
<1>8. QED BY <1>2, <1>3, <1>4, <1>5, <1>6, <1>7 DEF Connecting

LEMMA WaitingKept ==
    ASSUME TypeOK, Waiting, NEW s \in Sockets, Connecting(s)
    PROVE  Waiting'
BY DEF TypeOK, Waiting, Open, Connecting, HandleConnection, Leave, ResolveRefused,
       ResolveIdentity, ResolveFails, HandleHello, HandleDisconnect

LEMMA MapsKept ==
    ASSUME TypeOK, Waiting, MapsFollowSockets, NEW s \in Sockets, Connecting(s)
    PROVE  MapsFollowSockets'
<1>0. /\ net \in [Sockets -> {"new", "open", "closed"}]
      /\ authenticated \in [Sockets -> Identities \cup {None}]
  BY DEF TypeOK
<1>1. CASE HandleConnection(s)
  BY <1>0, <1>1 DEF HandleConnection, MapsFollowSockets, Open
<1>2. CASE Leave(s)
  BY <1>0, <1>2 DEF Leave, HandleDisconnect, MapsFollowSockets, Open
<1>3. CASE ResolveRefused(s)
  BY <1>0, <1>3 DEF ResolveRefused, HandleDisconnect, MapsFollowSockets, Open
<1>4. CASE ResolveIdentity(s)
  BY <1>0, <1>4 DEF ResolveIdentity, MapsFollowSockets, Open, Waiting
<1>5. CASE ResolveFails(s)
  BY <1>5 DEF ResolveFails, MapsFollowSockets, Open
<1>6. CASE HandleHello(s)
  BY <1>6 DEF HandleHello, MapsFollowSockets, Open
<1>7. QED BY <1>1, <1>2, <1>3, <1>4, <1>5, <1>6 DEF Connecting

LEMMA ServedKept ==
    ASSUME TypeOK, Entered, Served, NEW s \in Sockets, Connecting(s)
    PROVE  Served'
<1>0. /\ net \in [Sockets -> {"new", "open", "closed"}]
      /\ client \in [Sockets -> Views(Len(events), Len(requests))]
      /\ bound \subseteq Sockets
  BY TypeParts DEF ClientsOK, ConnectionsOK
<1>1. ASSUME HandleDisconnect(s), net[s] = "open", ready' = ready PROVE Served'
  BY <1>0, <1>1 DEF HandleDisconnect, Served
<1>2. CASE HandleConnection(s)
  <2>1. \A q \in Sockets \ {s} : client'[q] = client[q]
    BY <1>0, <1>2 DEF HandleConnection
  <2>2. QED BY <1>0, <1>2, <2>1 DEF HandleConnection, Served
<1>3. CASE Leave(s)
  BY <1>1, <1>3 DEF Leave
<1>4. CASE ResolveRefused(s)
  BY <1>1, <1>4 DEF ResolveRefused, Served
<1>5. CASE ResolveIdentity(s)
  BY <1>5 DEF ResolveIdentity, Served
<1>6. CASE ResolveFails(s)
  BY <1>6 DEF ResolveFails, Served
<1>7. CASE HandleHello(s)
  <2>1. net[s] = "open"
    BY <1>7 DEF HandleHello, Entered
  <2>2. \A q \in Sockets \ {s} : client'[q] = client[q]
    BY <1>0, <1>7 DEF HandleHello, Enters
  <2>3. QED BY <1>7, <2>1, <2>2 DEF HandleHello, Served
<1>8. QED BY <1>2, <1>3, <1>4, <1>5, <1>6, <1>7 DEF Connecting

(* Emitting and telling change only what open sockets have seen.           *)
LEMMA EmitOthers ==
    ASSUME NEW to, NEW n, NEW q \in Sockets, q \notin to,
           client \in [Sockets -> Views(Len(events), Len(requests))]
    PROVE  Emit(to, n)[q] = client[q]
BY DEF Emit

LEMMA TellOthers ==
    ASSUME NEW s \in Sockets, NEW n, NEW q \in Sockets, q # s \/ net[s] # "open",
           client \in [Sockets -> Views(Len(events), Len(requests))]
    PROVE  Tell(s, n)[q] = client[q]
BY DEF Tell

(* The steps that leave the connections as they are: those of requests and *)
(* of projections.                                                         *)
Working ==
    \/ \E s \in Sockets : HandleEnvelope(s)
    \/ \E n \in 1..Len(requests) : Settle(n)
    \/ HandleEbcaLifecycle \/ Transfer
    \/ \E n \in 1..Len(events) : ResolveOwner(n) \/ EmitProjection(n)

LEMMA WorkOnClosed ==
    ASSUME TypeOK, Entered, Working, NEW q \in Sockets, net[q] # "open"
    PROVE  client'[q] = client[q]
<1>0. /\ client \in [Sockets -> Views(Len(events), Len(requests))]
      /\ requests \in Seq(Requests) /\ events \in Seq(Events)
  BY TypeParts DEF ClientsOK, AskingOK, ProjectingOK
<1>1. ASSUME NEW s \in Sockets, NEW n PROVE Tell(s, n)[q] = client[q]
  BY <1>0, TellOthers
<1>2. ASSUME NEW s \in Sockets, HandleEnvelope(s) PROVE client'[q] = client[q]
  BY <1>1, <1>2 DEF HandleEnvelope
<1>3. ASSUME NEW n \in 1..Len(requests), Settle(n) PROVE client'[q] = client[q]
  <2>1. requests[n] \in Requests
    BY <1>0
  <2>2. requests[n].by \in Sockets
    BY <2>1 DEF Requests
  <2>3. QED BY <1>1, <1>3, <2>2 DEF Settle
<1>4. CASE HandleEbcaLifecycle
  <2>1. \A n : EmitToAll(n)[q] = client[q]
    BY <1>0, EmitOthers DEF EmitToAll, Open
  <2>2. QED BY <1>4, <2>1 DEF HandleEbcaLifecycle
<1>5. ASSUME NEW n \in 1..Len(events), ResolveOwner(n) PROVE client'[q] = client[q]
  BY <1>5 DEF ResolveOwner
<1>6. ASSUME NEW n \in 1..Len(events), EmitProjection(n) PROVE client'[q] = client[q]
  <2>1. events[n] \in Events
    BY <1>0
  <2>2. events[n].recipient \in Identities \cup {None}
    BY <2>1 DEF Events
  <2>3. \A i \in Identities : EmitToIdentity(i, n)[q] = client[q]
    BY <1>0, EmitOthers DEF EmitToIdentity, Entered
  <2>4. QED BY <1>6, <2>2, <2>3 DEF EmitProjection
<1>7. CASE Transfer
  BY <1>7 DEF Transfer
<1>8. QED BY <1>2, <1>3, <1>4, <1>5, <1>6, <1>7 DEF Working

LEMMA WorkingFrame == ASSUME Working PROVE UNCHANGED connections
BY DEF Working, HandleEnvelope, Settle, HandleEbcaLifecycle, ResolveOwner,
       EmitProjection, Transfer

LEMMA SessionsNext ==
    ASSUME TypeOK, Sessions, [Next]_vars
    PROVE  Sessions'
<1>0. Entered /\ Waiting /\ MapsFollowSockets /\ Served
  BY DEF Sessions
<1>1. CASE AfterInit
  BY <1>0, <1>1 DEF AfterInit, Sessions, Entered, Waiting, MapsFollowSockets, Served,
                    Open, Authorized
<1>2. ASSUME NEW s \in Sockets, Connecting(s) PROVE Sessions'
  BY <1>0, <1>2, EnteredKept, WaitingKept, MapsKept, ServedKept DEF Sessions
<1>3. CASE Working
  <2>1. UNCHANGED connections
    BY <1>3, WorkingFrame
  <2>2. Served'
    BY <1>0, <1>3, <2>1, WorkOnClosed DEF Served, connections
  <2>3. Entered' /\ Waiting' /\ MapsFollowSockets'
    BY <1>0, <2>1 DEF connections, Entered, Waiting, MapsFollowSockets, Open, Authorized
  <2>4. QED BY <2>2, <2>3 DEF Sessions
<1>4. CASE UNCHANGED vars
  BY <1>0, <1>4 DEF vars, connections, Sessions, Entered, Waiting, MapsFollowSockets,
                    Served, Open, Authorized
<1>5. QED BY <1>1, <1>2, <1>3, <1>4 DEF Next, Connecting, Working

LEMMA SessionsInit == ASSUME Init PROVE Sessions
BY DEF Init, Sessions, Entered, Waiting, MapsFollowSockets, Served, Open

LEMMA SessionsHold == Spec => [](TypeOK /\ Sessions)
<1>1. Init => TypeOK /\ Sessions
  BY InitType, SessionsInit
<1>2. TypeOK /\ Sessions /\ [Next]_vars => (TypeOK /\ Sessions)'
  BY NextType, SessionsNext
<1>3. QED BY <1>1, <1>2, PTL DEF Spec

(* Whatever a hello asks for and whenever sockets come and go, a room      *)
(* holds only open sockets that came with a token of its identity.         *)
THEOREM RoomsHoldTheirs == Spec => []RoomsAreTheirs
<1>1. TypeOK /\ Sessions => RoomsAreTheirs
  BY DEF TypeOK, Sessions, Entered, RoomsAreTheirs, Open
<1>2. QED BY <1>1, SessionsHold, PTL

(* Nothing of a socket outlives it in the gateway's maps, except for the   *)
(* identity of one that left while its token was being resolved.           *)
THEOREM MapsFollow == Spec => []MapsFollowSockets
<1>1. TypeOK /\ Sessions => MapsFollowSockets
  BY DEF Sessions
<1>2. QED BY <1>1, SessionsHold, PTL

-----------------------------------------------------------------------------
(* The audience of events.                                                 *)

LEMMA AppendHas ==
    ASSUME NEW T, NEW q \in Seq(T), NEW e \in T, NEW x
    PROVE  Contains(Append(q, e), x) <=> Contains(q, x) \/ x = e
<1>1. /\ Len(q) \in Nat /\ Len(Append(q, e)) = Len(q) + 1
      /\ \A k \in 1..Len(q) : Append(q, e)[k] = q[k]
      /\ Append(q, e)[Len(q) + 1] = e
  OBVIOUS
<1>2. QED BY <1>1 DEF Contains

LEMMA EmitSeen ==
    ASSUME TypeOK, NEW to, NEW n \in Nat, n # 0, NEW s \in Sockets
    PROVE  /\ Emit(to, n)[s].entered = client[s].entered
           /\ \A k : Contains(Emit(to, n)[s].inbox, k)
                       <=> Contains(client[s].inbox, k) \/ (s \in to /\ k = n)
<1> PICK m \in Nat : n <= m /\ Len(events) <= m
  <2>1. Len(events) \in Nat /\ Len(events) + n \in Nat
    BY DEF TypeOK
  <2>2. QED BY <2>1
<1>1. client[s] \in Views(m, Len(requests))
  <2>1. Len(events) \in Nat /\ Len(requests) \in Nat
    BY DEF TypeOK
  <2>2. client[s] \in Views(Len(events), Len(requests))
    BY TypeParts DEF ClientsOK
  <2>3. QED BY <2>1, <2>2, Wider
<1>2. client[s].inbox \in Seq(1..m)
  BY <1>1 DEF Views
<1>3. CASE s \in to
  <2>1. Emit(to, n)[s] = [client[s] EXCEPT !.inbox = Append(client[s].inbox, n)]
    BY <1>3, Zenon DEF Emit
  <2>2. /\ Emit(to, n)[s].entered = client[s].entered
        /\ Emit(to, n)[s].inbox = Append(client[s].inbox, n)
    BY <1>1, <2>1 DEF Views
  <2>3. QED BY <1>2, <1>3, <2>2, AppendHas
<1>4. CASE s \notin to
  BY <1>4 DEF Emit
<1>5. QED BY <1>3, <1>4

LEMMA TellSeen ==
    ASSUME TypeOK, NEW q \in Sockets, NEW n, NEW s \in Sockets
    PROVE  /\ Tell(q, n)[s].entered = client[s].entered
           /\ Tell(q, n)[s].inbox = client[s].inbox
<1>1. /\ client \in [Sockets -> Views(Len(events), Len(requests))]
      /\ client[s] \in Views(Len(events), Len(requests))
  BY TypeParts DEF ClientsOK
<1>2. CASE s = q /\ net[q] = "open"
  <2>1. Tell(q, n)[s] = [client[s] EXCEPT !.told = client[s].told \cup {n}]
    BY <1>1, <1>2, Zenon DEF Tell
  <2>2. QED BY <1>1, <2>1 DEF Views
<1>3. CASE ~(s = q /\ net[q] = "open")
  BY <1>1, <1>3, TellOthers
<1>4. QED BY <1>2, <1>3

(* Whose read found the event's recipient was an owner since it arrived,   *)
(* and who owns the entity now belongs to the owners of every event whose  *)
(* owner is still to be read.                                              *)
OwnersOf(n) ==
    LET e == events[n] IN
    /\ e.scope = "world" => e.at = "done"
    /\ e.at = "read" => owner \in e.owners /\ e.recipient = None
    /\ e.at = "emit" => /\ e.recipient \in e.owners \cup {None}
                        /\ faults = 0 => e.recipient \in e.owners
OwnersKnown == \A n \in 1..Len(events) : OwnersOf(n)

LEMMA FewerFaults ==
    ASSUME TypeOK, [Next]_vars, faults' = 0
    PROVE  faults = 0
<1>1. faults \in Nat
  BY DEF TypeOK
<1>2. faults' = faults \/ faults' = faults + 1
  BY DEF Next, vars, AfterInit, HandleConnection, Leave, ResolveRefused,
         ResolveIdentity, ResolveFails, HandleHello, HandleEnvelope, Settle,
         HandleEbcaLifecycle, ResolveOwner, EmitProjection, Transfer, Ok, Fault
<1>3. QED BY <1>1, <1>2

LEMMA ConnectingFrame ==
    ASSUME NEW s \in Sockets, Connecting(s)
    PROVE  UNCHANGED <<asking, projecting>>
BY DEF Connecting, HandleConnection, Leave, ResolveRefused, ResolveIdentity,
       ResolveFails, HandleHello

(* The steps that leave events and owner as they are.                      *)
LEMMA OwnersFrame ==
    ASSUME OwnersKnown, UNCHANGED projecting, faults' = 0 => faults = 0
    PROVE  OwnersKnown'
BY DEF OwnersKnown, OwnersOf, projecting

LEMMA OwnersKept ==
    ASSUME TypeOK, OwnersKnown, [Next]_vars
    PROVE  OwnersKnown'
<1>0. /\ events \in Seq(Events) /\ (faults' = 0 => faults = 0)
      /\ owner \in Identities \cup {None}
  BY FewerFaults DEF TypeOK
<1>1. CASE UNCHANGED projecting
  BY <1>0, <1>1, OwnersFrame
<1>2. CASE HandleEbcaLifecycle
  <2>1. PICK e : /\ events' = Append(events, e)
                 /\ \/ e = [scope |-> "world", at |-> "done", recipient |-> None,
                            owners |-> {}]
                    \/ e = [scope |-> "owner", at |-> "read", recipient |-> None,
                            owners |-> {owner}]
    BY <1>2 DEF HandleEbcaLifecycle
  <2> PICK k \in Nat : k = Len(events)
    BY <1>0
  <2>2. /\ Len(events') = k + 1 /\ events'[k + 1] = e
        /\ \A n \in 1..k : events'[n] = events[n]
    BY <1>0, <2>1
  <2>3. owner' = owner
    BY <1>2 DEF HandleEbcaLifecycle
  <2>4. OwnersOf(k + 1)'
    BY <2>1, <2>2, <2>3 DEF OwnersOf
  <2>5. \A n \in 1..k : OwnersOf(n)'
    BY <1>0, <2>2, <2>3 DEF OwnersOf, OwnersKnown
  <2>6. QED BY <2>2, <2>4, <2>5 DEF OwnersKnown
<1>3. ASSUME NEW n \in 1..Len(events), ResolveOwner(n) PROVE OwnersKnown'
  <2>1. /\ Len(events') = Len(events)
        /\ \A m \in 1..Len(events) : m # n => events'[m] = events[m]
        /\ events'[n].at = "emit" /\ events'[n].scope = events[n].scope
        /\ events'[n].owners = events[n].owners
        /\ \/ faults' = faults /\ events'[n].recipient = owner
           \/ faults' # 0 /\ events'[n].recipient = events[n].recipient
    BY <1>3, OwnerResolved
  <2>2. owner' = owner /\ events[n].at = "read"
    BY <1>3 DEF ResolveOwner
  <2>3. OwnersOf(n)
    BY DEF OwnersKnown
  <2>4. OwnersOf(n)'
    BY <2>1, <2>2, <2>3 DEF OwnersOf
  <2>5. \A m \in 1..Len(events) : m # n => OwnersOf(m)'
    BY <1>0, <2>1, <2>2 DEF OwnersOf, OwnersKnown
  <2>6. QED BY <2>1, <2>4, <2>5 DEF OwnersKnown
<1>4. ASSUME NEW n \in 1..Len(events), EmitProjection(n) PROVE OwnersKnown'
  <2>1. /\ Len(events') = Len(events)
        /\ \A m \in 1..Len(events) : m # n => events'[m] = events[m]
        /\ events'[n].at = "done"
    BY <1>4, EventDone
  <2>2. owner' = owner
    BY <1>4 DEF EmitProjection
  <2>3. QED BY <1>0, <2>1, <2>2 DEF OwnersOf, OwnersKnown
<1>5. CASE Transfer
  <2>1. PICK i \in Identities \cup {None} :
          /\ owner' = i
          /\ events' = [n \in 1..Len(events) |->
                           IF events[n].at = "read"
                           THEN [events[n] EXCEPT !.owners = @ \cup {i}]
                           ELSE events[n]]
    BY <1>5 DEF Transfer
  <2>2. /\ Len(events') = Len(events)
        /\ \A n \in 1..Len(events) :
             /\ events'[n].at = events[n].at
             /\ events'[n].scope = events[n].scope
             /\ events'[n].recipient = events[n].recipient
             /\ events'[n].owners = IF events[n].at = "read"
                                    THEN events[n].owners \cup {i}
                                    ELSE events[n].owners
    BY <1>0, <2>1, EventsTransferred
  <2>3. QED BY <1>0, <2>1, <2>2 DEF OwnersOf, OwnersKnown
<1>6. ASSUME NEW s \in Sockets, Connecting(s) PROVE UNCHANGED projecting
  BY <1>6, ConnectingFrame
<1>7. QED
  BY <1>1, <1>2, <1>3, <1>4, <1>5, <1>6
  DEF Next, Connecting, AfterInit, HandleEnvelope, Settle, vars

(* What the steps of a connection do to what clients have seen.            *)
LEMMA ConnectingViews ==
    ASSUME TypeOK, NEW s \in Sockets, Connecting(s), NEW q \in Sockets
    PROVE  \/ /\ client'[q] = Unconnected /\ net'[q] # "open"
           \/ /\ client'[q].inbox = client[q].inbox /\ client'[q].told = client[q].told
              /\ \/ client'[q].entered = client[q].entered
                 \/ HandleHello(s) /\ q = s /\ client'[q].entered = Len(events)
<1>0. /\ client \in [Sockets -> Views(Len(events), Len(requests))]
      /\ client[s] \in Views(Len(events), Len(requests))
      /\ net \in [Sockets -> {"new", "open", "closed"}]
  BY TypeParts DEF ClientsOK, ConnectionsOK
<1>1. CASE q # s
  <2>1. client'[q] = client[q]
    BY <1>0, <1>1 DEF Connecting, HandleConnection, Leave, ResolveRefused,
      ResolveIdentity, ResolveFails, HandleHello, HandleDisconnect, Enters
  <2>2. QED BY <2>1
<1>2. CASE q = s
  <2>1. CASE HandleConnection(s)
    <3>1. client'[s] = [client[s] EXCEPT !.opened = Len(events)]
      BY <1>0, <2>1, Zenon DEF HandleConnection
    <3>2. QED BY <1>0, <1>2, <3>1 DEF Views
  <2>2. CASE HandleHello(s)
    <3>1. client'[s] = [client[s] EXCEPT !.entered =
             IF client[s].entered = None THEN Len(events) ELSE client[s].entered]
      BY <1>0, <2>2, Zenon DEF HandleHello, Enters
    <3>2. /\ client'[s].inbox = client[s].inbox /\ client'[s].told = client[s].told
          /\ client'[s].entered = IF client[s].entered = None THEN Len(events)
                                  ELSE client[s].entered
      BY <1>0, <3>1 DEF Views
    <3>3. QED BY <1>2, <2>2, <3>2
  <2>3. CASE Leave(s)
    BY <1>0, <1>2, <2>3 DEF Leave, HandleDisconnect
  <2>4. CASE ResolveRefused(s)
    BY <1>0, <1>2, <2>4 DEF ResolveRefused, HandleDisconnect
  <2>5. CASE ResolveIdentity(s) \/ ResolveFails(s)
    BY <1>2, <2>5 DEF ResolveIdentity, ResolveFails
  <2>6. QED BY <2>1, <2>2, <2>3, <2>4, <2>5 DEF Connecting
<1>3. QED BY <1>1, <1>2

LEMMA NothingSeen ==
    /\ Unconnected.entered = None /\ Unconnected.told = {}
    /\ \A n : ~Contains(Unconnected.inbox, n)
BY DEF Unconnected, Contains

(* What the other steps do: only an emission adds to what was seen.        *)
LEMMA WorkViews ==
    ASSUME TypeOK, Working, NEW q \in Sockets
    PROVE  /\ client'[q].entered = client[q].entered
           /\ \/ client'[q].inbox = client[q].inbox
              \/ HandleEbcaLifecycle
              \/ \E n \in 1..Len(events) : EmitProjection(n)
<1>0. requests \in Seq(Requests) /\ Len(events) \in Nat
  BY DEF TypeOK
<1>1. ASSUME NEW s \in Sockets, HandleEnvelope(s)
      PROVE  client'[q].entered = client[q].entered /\ client'[q].inbox = client[q].inbox
  BY <1>1, TellSeen DEF HandleEnvelope
<1>2. ASSUME NEW n \in 1..Len(requests), Settle(n)
      PROVE  client'[q].entered = client[q].entered /\ client'[q].inbox = client[q].inbox
  <2>1. requests[n] \in Requests
    BY <1>0
  <2>2. requests[n].by \in Sockets
    BY <2>1 DEF Requests
  <2>3. QED BY <1>2, <2>2, TellSeen DEF Settle
<1>3. CASE HandleEbcaLifecycle
  <2>1. EmitToAll(Len(events) + 1)[q].entered = client[q].entered
    BY <1>0, EmitSeen DEF EmitToAll
  <2>2. QED BY <1>3, <2>1 DEF HandleEbcaLifecycle
<1>4. ASSUME NEW n \in 1..Len(events), EmitProjection(n)
      PROVE  client'[q].entered = client[q].entered
  <2>1. EmitToIdentity(events[n].recipient, n)[q].entered = client[q].entered
    BY <1>0, EmitSeen DEF EmitToIdentity
  <2>2. QED BY <1>4, <2>1 DEF EmitProjection
<1>5. CASE Transfer \/ \E n \in 1..Len(events) : ResolveOwner(n)
  BY <1>5 DEF Transfer, ResolveOwner
<1>6. QED BY <1>1, <1>2, <1>3, <1>4, <1>5 DEF Working

(* An event that is emitted to everyone adds nothing else.                 *)
LEMMA WorldSeen ==
    ASSUME TypeOK, NEW k \in Nat, k # 0, NEW q \in Sockets
    PROVE  \A n : Contains(EmitToAll(k)[q].inbox, n)
                    => Contains(client[q].inbox, n) \/ n = k
BY EmitSeen DEF EmitToAll

(* A projected event is seen by those in the room of its recipient.        *)
LEMMA ProjectionSeen ==
    ASSUME TypeOK, NEW n \in 1..Len(events), EmitProjection(n), NEW q \in Sockets, NEW k
    PROVE  Contains(client'[q].inbox, k) <=>
             \/ Contains(client[q].inbox, k)
             \/ /\ k = n /\ events[n].recipient # None
                /\ ready /\ q \in rooms[events[n].recipient]
<1> DEFINE to == IF ready THEN rooms[events[n].recipient] ELSE {}
<1>1. n \in Nat /\ n # 0
  BY DEF TypeOK
<1>2. Contains(Emit(to, n)[q].inbox, k)
        <=> Contains(client[q].inbox, k) \/ (q \in to /\ k = n)
  BY <1>1, EmitSeen
<1>3. QED BY <1>2 DEF EmitProjection, EmitToIdentity

(* Whose hello was heard is in the room of his identity.                   *)
Joined == \A s \in Sockets : client[s].entered # None =>
              authenticated[s] \in Identities /\ s \in rooms[authenticated[s]]

LEMMA JoinedKept ==
    ASSUME TypeOK, Entered, Joined, [Next]_vars
    PROVE  Joined'
<1>0. /\ authenticated \in [Sockets -> Identities \cup {None}]
      /\ rooms \in [Identities -> SUBSET Sockets] /\ bound \subseteq Sockets
  BY DEF TypeOK
<1>1. ASSUME NEW s \in Sockets, Connecting(s), NEW q \in Sockets,
             client'[q].entered # None
      PROVE  authenticated'[q] \in Identities /\ q \in rooms'[authenticated'[q]]
  <2>1. CASE HandleConnection(s) \/ ResolveFails(s)
    <3>1. client[q].entered # None
      BY <1>1, <2>1, ConnectingViews, NothingSeen DEF HandleHello, HandleConnection,
                                                      ResolveFails, Entered
    <3>2. QED BY <2>1, <3>1 DEF Joined, HandleConnection, ResolveFails
  <2>2. ASSUME HandleDisconnect(s)
        PROVE  authenticated'[q] \in Identities /\ q \in rooms'[authenticated'[q]]
    <3>1. q # s /\ client'[q] = client[q]
      BY <1>1, <2>2, TypeParts, NothingSeen DEF HandleDisconnect, ClientsOK
    <3>2. authenticated[q] \in Identities /\ q \in rooms[authenticated[q]]
      BY <1>1, <3>1 DEF Joined
    <3>3. QED BY <1>0, <2>2, <3>1, <3>2 DEF HandleDisconnect
  <2>3. CASE Leave(s)
    BY <2>2, <2>3 DEF Leave
  <2>4. CASE ResolveRefused(s)
    BY <1>1, <2>2, <2>4 DEF ResolveRefused, Joined
  <2>5. CASE ResolveIdentity(s)
    <3>1. client' = client /\ rooms' = rooms
      BY <2>5 DEF ResolveIdentity
    <3>2. authenticated[q] \in Identities /\ q \in rooms[authenticated[q]]
      BY <1>1, <3>1 DEF Joined
    <3>3. Authorized(q, authenticated[q])
      BY <3>2 DEF Entered
    <3>4. authenticated'[q] = authenticated[q]
      BY <1>0, <2>5, <3>3 DEF ResolveIdentity, Authorized
    <3>5. QED BY <3>1, <3>2, <3>4
  <2>6. CASE HandleHello(s)
    <3>1. authenticated' = authenticated /\ authenticated[s] \in Identities
      BY <1>0, <2>6 DEF HandleHello, Entered
    <3>2. rooms' = [rooms EXCEPT ![authenticated[s]] = rooms[authenticated[s]] \cup {s}]
      BY <2>6 DEF HandleHello
    <3>3. q = s \/ client[q].entered # None
      BY <1>1, ConnectingViews, NothingSeen
    <3>4. QED BY <1>0, <3>1, <3>2, <3>3 DEF Joined
  <2>7. QED BY <1>1, <2>1, <2>3, <2>4, <2>5, <2>6 DEF Connecting
<1>2. CASE Working
  BY <1>2, WorkViews, WorkingFrame DEF Joined, connections
<1>3. CASE AfterInit \/ UNCHANGED vars
  BY <1>3 DEF Joined, AfterInit, vars, connections
<1>4. QED BY <1>1, <1>2, <1>3 DEF Next, Connecting, Working, Joined

(* Nothing takes away from the events or from their owners.                *)
LEMMA EventsGrow ==
    ASSUME TypeOK, [Next]_vars
    PROVE  /\ Len(events) \in Nat /\ Len(events') \in Nat
           /\ Len(events) <= Len(events')
           /\ \A n \in 1..Len(events) :
                /\ events'[n].scope = events[n].scope
                /\ events[n].owners \subseteq events'[n].owners
                /\ events'[n].at = "done" /\ events'[n] # events[n] =>
                     EmitProjection(n) /\ events'[n].owners = events[n].owners
<1>0. events \in Seq(Events) /\ owner \in Identities \cup {None}
  BY DEF TypeOK
<1>1. CASE UNCHANGED events
  BY <1>0, <1>1
<1>2. CASE HandleEbcaLifecycle
  <2>1. events' \in Seq(Events)
    BY <1>2, LifecycleType DEF TypeOK
  <2>2. QED BY <1>0, <1>2, <2>1, LifecycleType
<1>3. ASSUME NEW n \in 1..Len(events), ResolveOwner(n)
      PROVE  /\ Len(events') = Len(events)
             /\ \A m \in 1..Len(events) : m # n => events'[m] = events[m]
             /\ events'[n].at = "emit" /\ events'[n].scope = events[n].scope
             /\ events'[n].owners = events[n].owners
  BY <1>3, OwnerResolved
<1>4. ASSUME NEW n \in 1..Len(events), EmitProjection(n)
      PROVE  /\ Len(events') = Len(events)
             /\ \A m \in 1..Len(events) : m # n => events'[m] = events[m]
             /\ events'[n].scope = events[n].scope
             /\ events'[n].owners = events[n].owners
  BY <1>4, EventDone
<1>5. CASE Transfer
  <2>1. PICK i \in Identities \cup {None} :
          events' = [n \in 1..Len(events) |->
                           IF events[n].at = "read"
                           THEN [events[n] EXCEPT !.owners = @ \cup {i}]
                           ELSE events[n]]
    BY <1>5 DEF Transfer
  <2>2. /\ Len(events') = Len(events)
        /\ \A n \in 1..Len(events) :
             /\ events'[n].at = events[n].at
             /\ events'[n].scope = events[n].scope
             /\ events'[n].owners = IF events[n].at = "read"
                                    THEN events[n].owners \cup {i}
                                    ELSE events[n].owners
    BY <1>0, <2>1, EventsTransferred
  <2>3. \A n \in 1..Len(events) : events'[n] # events[n] => events[n].at = "read"
    BY <2>1
  <2>4. ASSUME NEW n \in 1..Len(events)
        PROVE  /\ events'[n].scope = events[n].scope
               /\ events[n].owners \subseteq events'[n].owners
               /\ ~(events'[n].at = "done" /\ events'[n] # events[n])
    <3>1. events[n].owners \subseteq events'[n].owners
      BY <2>2
    <3>2. events'[n].at = events[n].at /\ events'[n].scope = events[n].scope
      BY <2>2
    <3>3. QED BY <2>3, <3>1, <3>2
  <2>5. QED BY <1>0, <2>2, <2>4
<1>6. CASE \E n \in 1..Len(events) : ResolveOwner(n) \/ EmitProjection(n)
  BY <1>0, <1>3, <1>4, <1>6
<1>7. ASSUME NEW s \in Sockets, Connecting(s) PROVE UNCHANGED events
  BY <1>7, ConnectingFrame DEF projecting
<1>8. QED
  BY <1>1, <1>2, <1>5, <1>6, <1>7
  DEF Next, Connecting, AfterInit, HandleEnvelope, Settle, vars, projecting

(* What a socket has seen after a step it had seen before, or it is told   *)
(* everybody, or it is in the room of the recipient.                       *)
LEMMA SeenBefore ==
    ASSUME TypeOK, [Next]_vars, NEW q \in Sockets, NEW n \in 1..Len(events'),
           Contains(client'[q].inbox, n), events'[n].scope = "owner",
           ~Contains(client[q].inbox, n)
    PROVE  /\ n \in 1..Len(events) /\ EmitProjection(n)
           /\ events[n].recipient # None /\ q \in rooms[events[n].recipient]
<1>1. ASSUME NEW s \in Sockets, Connecting(s) PROVE FALSE
  BY <1>1, ConnectingViews, NothingSeen
<1>2. CASE AfterInit \/ UNCHANGED vars
  BY <1>2 DEF AfterInit, vars
<1>3. CASE HandleEbcaLifecycle
  <2>1. Len(events) \in Nat /\ events \in Seq(Events)
    BY DEF TypeOK
  <2>2. CASE client' = client
    BY <2>2
  <2>3. CASE /\ events' = Append(events, [scope |-> "world", at |-> "done",
                                          recipient |-> None, owners |-> {}])
             /\ client' = EmitToAll(Len(events) + 1)
    <3> PICK k \in Nat : k = Len(events) + 1
      BY <2>1
    <3>1. Contains(EmitToAll(k)[q].inbox, n) => Contains(client[q].inbox, n) \/ n = k
      BY <2>1, WorldSeen
    <3>2. events'[k].scope = "world"
      BY <2>1, <2>3
    <3>3. QED BY <2>3, <3>1, <3>2
  <2>4. QED BY <1>3, <2>2, <2>3 DEF HandleEbcaLifecycle
<1>4. ASSUME NEW m \in 1..Len(events), EmitProjection(m)
      PROVE  /\ n \in 1..Len(events) /\ EmitProjection(n)
             /\ events[n].recipient # None /\ q \in rooms[events[n].recipient]
  BY <1>4, ProjectionSeen
<1>5. QED BY <1>1, <1>2, <1>3, <1>4, WorkViews DEF Next, Connecting, Working

LEMMA SentKept ==
    ASSUME TypeOK, Entered, OwnersKnown, OnlyOwnersAreSent, [Next]_vars
    PROVE  OnlyOwnersAreSent'
<1>1. SUFFICES ASSUME NEW q \in Sockets, NEW n \in 1..Len(events'),
                      events'[n].scope = "owner", Contains(client'[q].inbox, n)
               PROVE  \E i \in events'[n].owners : Authorized(q, i)
  BY DEF OnlyOwnersAreSent, Authorized
<1>2. CASE Contains(client[q].inbox, n)
  <2>1. n \in 1..Len(events)
    <3>1. client[q] \in Views(Len(events), Len(requests))
      BY TypeParts DEF ClientsOK
    <3>2. client[q].inbox \in Seq(1..Len(events))
      BY <3>1 DEF Views
    <3>3. QED BY <1>2, <3>2 DEF Contains
  <2>2. QED BY <1>1, <1>2, <2>1, EventsGrow DEF OnlyOwnersAreSent
<1>3. CASE ~Contains(client[q].inbox, n)
  <2>1. /\ n \in 1..Len(events) /\ EmitProjection(n)
        /\ events[n].recipient # None /\ q \in rooms[events[n].recipient]
    BY <1>1, <1>3, SeenBefore
  <2>2. events[n].recipient \in events[n].owners
    BY <2>1 DEF OwnersKnown, OwnersOf, EmitProjection
  <2>3. events[n].recipient \in Identities
    <3>1. events[n] \in Events
      BY <2>1 DEF TypeOK
    <3>2. QED BY <2>1, <3>1 DEF Events
  <2>4. Authorized(q, events[n].recipient)
    BY <2>1, <2>3 DEF Entered
  <2>5. QED BY <2>1, <2>2, <2>4, EventsGrow
<1>4. QED BY <1>2, <1>3

LEMMA MissNothingKept ==
    ASSUME TypeOK, Sessions, OwnersKnown, Joined, JoinedOwnersMissNothing, [Next]_vars
    PROVE  JoinedOwnersMissNothing'
<1>0. Len(events) \in Nat /\ events \in Seq(Events)
  BY DEF TypeOK
<1>1. SUFFICES ASSUME NEW q \in Sockets, net'[q] = "open", NEW n \in 1..Len(events'),
                      client'[q].entered # None, n > client'[q].entered,
                      events'[n].scope = "owner", events'[n].at = "done",
                      NEW i \in Identities, events'[n].owners = {i}, Authorized(q, i),
                      faults' = 0
               PROVE  Contains(client'[q].inbox, n)
  BY DEF JoinedOwnersMissNothing, Open, Authorized
<1>2. faults = 0
  BY <1>1, FewerFaults
<1>3. CASE HandleEbcaLifecycle /\ n = Len(events) + 1
  <2>1. client'[q].inbox = client[q].inbox \/ events'[n].scope = "world"
    BY <1>0, <1>3 DEF HandleEbcaLifecycle
  <2>2. events'[n].at = "read" \/ events'[n].scope = "world"
    BY <1>0, <1>3 DEF HandleEbcaLifecycle
  <2>3. QED BY <1>1, <2>2
<1>4. n \in 1..Len(events) \/ (HandleEbcaLifecycle /\ n = Len(events) + 1)
  <2>1. CASE HandleEbcaLifecycle
    BY <1>0, <2>1, LifecycleType
  <2>2. CASE ~HandleEbcaLifecycle
    <3>1. Len(events') = Len(events)
      <4>1. ASSUME NEW s \in Sockets, Connecting(s) PROVE events' = events
        BY <4>1, ConnectingFrame DEF projecting
      <4>2. CASE Transfer
        BY <1>0, <4>2, EventsTransferred DEF Transfer
      <4>3. CASE \E m \in 1..Len(events) : ResolveOwner(m) \/ EmitProjection(m)
        BY <4>3, OwnerResolved, EventDone
      <4>4. QED BY <2>2, <4>1, <4>2, <4>3 DEF Next, Connecting, AfterInit,
                   HandleEnvelope, Settle, vars, projecting
    <3>2. QED BY <3>1
  <2>3. QED BY <2>1, <2>2
<1>5. ASSUME n \in 1..Len(events), ~EmitProjection(n)
      PROVE  Contains(client'[q].inbox, n)
  <2>1. events'[n] = events[n]
    BY <1>1, <1>5, EventsGrow
  <2>2. ASSUME NEW s \in Sockets, Connecting(s) PROVE Contains(client'[q].inbox, n)
    <3>1. /\ client'[q].inbox = client[q].inbox
          /\ client'[q].entered = client[q].entered
          /\ client[q] # Unconnected \/ TRUE
      BY <1>0, <1>1, <1>5, <2>2, ConnectingViews
    <3>2. net[q] = "open"
      BY <1>1, <3>1, NothingSeen DEF Sessions, Served
    <3>3. QED BY <1>1, <1>2, <1>5, <2>1, <3>1, <3>2 DEF JoinedOwnersMissNothing, Open
  <2>3. ASSUME net'[q] = net[q], client'[q].entered = client[q].entered
        PROVE  Contains(client[q].inbox, n)
    BY <1>1, <1>2, <1>5, <2>1, <2>3 DEF JoinedOwnersMissNothing, Open
  <2>4. CASE Working
    <3>1. Contains(client[q].inbox, n)
      BY <2>3, <2>4, WorkViews, WorkingFrame DEF connections
    <3>2. CASE HandleEbcaLifecycle
      <4> PICK k \in Nat : k = Len(events) + 1
        BY <1>0
      <4> DEFINE to == IF ready THEN Open ELSE {}
      <4>1. Contains(Emit(to, k)[q].inbox, n)
        <5>1. k # 0
          BY <1>0
        <5>2. QED BY <3>1, <5>1, EmitSeen
      <4>2. QED BY <3>1, <3>2, <4>1 DEF HandleEbcaLifecycle, EmitToAll
    <3>3. CASE \E m \in 1..Len(events) : EmitProjection(m)
      BY <3>1, <3>3, ProjectionSeen
    <3>4. QED BY <2>4, <3>1, <3>2, <3>3, WorkViews
  <2>5. CASE AfterInit \/ UNCHANGED vars
    BY <2>3, <2>5 DEF AfterInit, vars, connections
  <2>6. QED BY <2>2, <2>4, <2>5 DEF Next, Connecting, Working
<1>6. ASSUME n \in 1..Len(events), EmitProjection(n)
      PROVE  Contains(client'[q].inbox, n)
  <2>1. /\ events[n].at = "emit" /\ events[n].owners = {i}
    BY <1>6, <1>1, EventDone DEF EmitProjection
  <2>2. events[n].recipient = i /\ i # None
    BY <1>2, <1>6, <2>1, WsAssumption DEF OwnersKnown, OwnersOf
  <2>3. Working
    BY <1>6 DEF Working
  <2>4. client[q].entered # None /\ net[q] = "open"
    BY <1>1, <2>3, WorkViews, WorkingFrame DEF connections
  <2>5. authenticated[q] \in Identities /\ q \in rooms[authenticated[q]]
    BY <2>4 DEF Joined
  <2>6. authenticated[q] = i
    BY <1>1, <2>5 DEF Sessions, Entered, Authorized
  <2>7. ready
    BY <2>4 DEF Sessions, Served
  <2>8. QED BY <1>6, <2>2, <2>5, <2>6, <2>7, ProjectionSeen
<1>7. QED BY <1>3, <1>4, <1>5, <1>6

AudienceInv == /\ TypeOK /\ Sessions /\ OwnersKnown /\ Joined
               /\ OnlyOwnersAreSent /\ JoinedOwnersMissNothing

LEMMA AudienceInit == ASSUME Init PROVE AudienceInv
<1>1. OwnersKnown /\ OnlyOwnersAreSent /\ JoinedOwnersMissNothing
  BY DEF Init, OwnersKnown, OnlyOwnersAreSent, JoinedOwnersMissNothing
<1>2. Joined
  BY NothingSeen DEF Init, Joined
<1>3. QED BY <1>1, <1>2, InitType, SessionsInit DEF AudienceInv

LEMMA AudienceHolds == Spec => []AudienceInv
<1>1. AudienceInv /\ [Next]_vars => AudienceInv'
  BY NextType, SessionsNext, OwnersKept, JoinedKept, SentKept, MissNothingKept
  DEF AudienceInv, Sessions
<1>2. QED BY <1>1, AudienceInit, PTL DEF Spec

(* However often the owner changes and in whatever order its reads are     *)
(* answered, the event of an owned component goes only to sockets of       *)
(* someone who was the owner between its arrival and that read.            *)
THEOREM OnlyOwners == Spec => []OnlyOwnersAreSent
<1>1. AudienceInv => OnlyOwnersAreSent
  BY DEF AudienceInv
<1>2. QED BY <1>1, AudienceHolds, PTL

(* Whoever has joined as the owner misses no event of the component,       *)
(* whichever other sockets come and go.                                    *)
THEOREM OwnersMissNothing == Spec => []JoinedOwnersMissNothing
<1>1. AudienceInv => JoinedOwnersMissNothing
  BY DEF AudienceInv
<1>2. QED BY <1>1, AudienceHolds, PTL

-----------------------------------------------------------------------------
(* Answers.                                                                *)

(* Only sockets that have connected have asked, and a mutation is applied  *)
(* when its service is done.                                               *)
Asked == \A n \in 1..Len(requests) : /\ net[requests[n].by] # "new"
                                     /\ requests[n].running => n \notin applied

LEMMA ToldSeen ==
    ASSUME TypeOK, NEW q \in Sockets, NEW n, NEW s \in Sockets
    PROVE  Tell(q, n)[s].told =
             IF s = q /\ net[q] = "open" THEN client[s].told \cup {n}
             ELSE client[s].told
<1>1. /\ client \in [Sockets -> Views(Len(events), Len(requests))]
      /\ client[s] \in Views(Len(events), Len(requests))
  BY TypeParts DEF ClientsOK
<1>2. CASE s = q /\ net[q] = "open"
  <2>1. Tell(q, n)[s] = [client[s] EXCEPT !.told = client[s].told \cup {n}]
    BY <1>1, <1>2, Zenon DEF Tell
  <2>2. QED BY <1>1, <1>2, <2>1 DEF Views
<1>3. CASE ~(s = q /\ net[q] = "open")
  BY <1>1, <1>3, TellOthers
<1>4. QED BY <1>2, <1>3

LEMMA EmitTold ==
    ASSUME TypeOK, NEW to, NEW n, NEW s \in Sockets
    PROVE  Emit(to, n)[s].told = client[s].told
<1>1. client[s] \in Views(Len(events), Len(requests))
  BY TypeParts DEF ClientsOK
<1>2. CASE s \in to
  <2>1. Emit(to, n)[s] = [client[s] EXCEPT !.inbox = Append(client[s].inbox, n)]
    BY <1>2, Zenon DEF Emit
  <2>2. QED BY <1>1, <2>1 DEF Views
<1>3. CASE s \notin to
  BY <1>3 DEF Emit
<1>4. QED BY <1>2, <1>3

(* Projections answer nobody.                                              *)
LEMMA ProjectingTells ==
    ASSUME TypeOK, NEW q \in Sockets,
           \/ HandleEbcaLifecycle \/ Transfer
           \/ \E n \in 1..Len(events) : ResolveOwner(n) \/ EmitProjection(n)
    PROVE  UNCHANGED asking /\ client'[q].told = client[q].told
<1>1. UNCHANGED asking
  BY DEF HandleEbcaLifecycle, Transfer, ResolveOwner, EmitProjection
<1>2. \A n : EmitToAll(n)[q].told = client[q].told
  BY EmitTold DEF EmitToAll
<1>3. \A i, n : EmitToIdentity(i, n)[q].told = client[q].told
  BY EmitTold DEF EmitToIdentity
<1>4. client'[q].told = client[q].told
  <2>1. CASE HandleEbcaLifecycle
    BY <1>2, <2>1 DEF HandleEbcaLifecycle
  <2>2. CASE Transfer
    BY <2>2 DEF Transfer
  <2>3. ASSUME NEW n \in 1..Len(events), ResolveOwner(n)
        PROVE  client'[q].told = client[q].told
    BY <2>3 DEF ResolveOwner
  <2>4. ASSUME NEW n \in 1..Len(events), EmitProjection(n)
        PROVE  client'[q].told = client[q].told
    BY <1>3, <2>4 DEF EmitProjection
  <2>5. QED BY <2>1, <2>2, <2>3, <2>4
<1>5. QED BY <1>1, <1>4

(* What socket s should have been told of request n.                       *)
Due(s, n) == /\ requests[n].by = s /\ ~requests[n].running
             /\ ~(requests[n].kind = "mutation" /\ n \in applied)

LEMMA AskersKept ==
    ASSUME TypeOK, Sessions, Asked, AskersAreTold, [Next]_vars
    PROVE  Asked' /\ AskersAreTold'
<1>0. /\ requests \in Seq(Requests) /\ applied \subseteq 1..Len(requests)
      /\ Len(requests) \in Nat /\ net \in [Sockets -> {"new", "open", "closed"}]
  BY DEF TypeOK
<1>1. \A s \in Open, n \in 1..Len(requests) : n \in client[s].told <=> Due(s, n)
  BY DEF AskersAreTold, Due
<1>2. \A n \in 1..Len(requests) : requests[n].by \in Sockets /\ net[requests[n].by] # "new"
  <2>1. \A n \in 1..Len(requests) : requests[n] \in Requests
    BY <1>0
  <2>2. QED BY <2>1 DEF Requests, Asked
<1>3. ASSUME NEW s \in Sockets, Connecting(s) PROVE Asked' /\ AskersAreTold'
  <2>1. UNCHANGED asking
    BY <1>3, ConnectingFrame
  <2>2. \A q \in Sockets : /\ net[q] # "new" => net'[q] # "new"
                           /\ net'[q] = "open" => net[q] \in {"open", "new"}
    BY <1>0, <1>3 DEF Connecting, HandleConnection, Leave, ResolveRefused,
      ResolveIdentity, ResolveFails, HandleHello, HandleDisconnect
  <2>3. Asked'
    BY <1>2, <2>1, <2>2 DEF Asked, asking
  <2>4. ASSUME NEW q \in Sockets, net'[q] = "open", NEW n \in 1..Len(requests)
        PROVE  n \in client'[q].told <=> Due(q, n)
    <3>1. client'[q].told = client[q].told
      BY <1>3, <2>4, ConnectingViews
    <3>2. CASE net[q] = "open"
      BY <1>1, <3>1, <3>2 DEF Open
    <3>3. CASE net[q] = "new"
      <4>1. client[q].told = {}
        BY <3>3, NothingSeen DEF Sessions, Served
      <4>2. requests[n].by # q
        BY <1>2, <3>3
      <4>3. QED BY <3>1, <4>1, <4>2 DEF Due
    <3>4. QED BY <2>2, <2>4, <3>2, <3>3
  <2>5. AskersAreTold'
    BY <2>1, <2>4 DEF AskersAreTold, Open, Due, asking
  <2>6. QED BY <2>3, <2>5
<1>4. ASSUME NEW s \in Sockets, HandleEnvelope(s) PROVE Asked' /\ AskersAreTold'
  <2> PICK N \in Nat : N = Len(requests)
    BY <1>0
  <2>1. PICK k \in Kinds, wellFormed \in BOOLEAN :
          /\ requests' = Append(requests,
                                [by |-> s, kind |-> k, running |-> wellFormed])
          /\ client' = IF wellFormed THEN client ELSE Tell(s, N + 1)
    BY <1>4 DEF HandleEnvelope
  <2>2. /\ Len(requests') = N + 1
        /\ \A n \in 1..N : requests'[n] = requests[n]
        /\ requests'[N + 1].by = s /\ requests'[N + 1].running = wellFormed
    BY <1>0, <2>1
  <2>3. applied' = applied /\ net' = net /\ net[s] = "open"
    BY <1>4 DEF HandleEnvelope, connections, Sessions, Entered
  <2>4. Asked'
    <3>1. N + 1 \notin applied
      BY <1>0
    <3>2. \A n \in 1..N : net[requests[n].by] # "new"
                          /\ (requests[n].running => n \notin applied)
      BY DEF Asked
    <3>3. \A n \in 1..(N + 1) : n \in 1..N \/ n = N + 1
      OBVIOUS
    <3>4. QED BY <2>2, <2>3, <3>1, <3>2, <3>3 DEF Asked
  <2>5. ASSUME NEW q \in Sockets, net[q] = "open", NEW n \in 1..(N + 1)
        PROVE  n \in client'[q].told <=>
                 /\ requests'[n].by = q /\ ~requests'[n].running
                 /\ ~(requests'[n].kind = "mutation" /\ n \in applied)
    <3>1. client[q].told \subseteq 1..N
      <4>1. client[q] \in Views(Len(events), Len(requests))
        BY TypeParts DEF ClientsOK
      <4>2. QED BY <4>1 DEF Views
    <3>2. client'[q].told = IF ~wellFormed /\ q = s THEN client[q].told \cup {N + 1}
                            ELSE client[q].told
      BY <2>1, <2>3, ToldSeen
    <3>3. CASE n \in 1..N
      <4>1. n \in client[q].told <=> Due(q, n)
        BY <1>1, <2>5, <3>3 DEF Open
      <4>2. n # N + 1
        BY <3>3
      <4>3. QED BY <2>2, <3>2, <3>3, <4>1, <4>2 DEF Due
    <3>4. CASE n = N + 1
      <4>1. n \notin 1..N
        BY <3>4
      <4>2. n \notin applied /\ n \notin client[q].told
        BY <1>0, <3>1, <4>1
      <4>3. QED BY <2>2, <3>2, <3>4, <4>2
    <3>5. QED BY <3>3, <3>4
  <2>6. AskersAreTold'
    BY <2>2, <2>3, <2>5 DEF AskersAreTold, Open
  <2>7. QED BY <2>4, <2>6
<1>5. ASSUME NEW m \in 1..Len(requests), Settle(m) PROVE Asked' /\ AskersAreTold'
  <2>1. requests' = [requests EXCEPT ![m].running = FALSE] /\ net' = net
    BY <1>5 DEF Settle, connections
  <2>2. /\ Len(requests') = Len(requests)
        /\ \A n \in 1..Len(requests) :
             /\ requests'[n].by = requests[n].by
             /\ requests'[n].kind = requests[n].kind
             /\ requests'[n].running = (n # m /\ requests[n].running)
    BY <1>0, <2>1, SettledRequest
  <2> PICK b \in Sockets : b = requests[m].by
    BY <1>2
  <2>9. \A q \in Sockets : Tell(b, m)[q].told =
           IF q = b /\ net[b] = "open" THEN client[q].told \cup {m} ELSE client[q].told
    BY ToldSeen
  <2>3. Asked'
    <3>1. applied' \subseteq applied \cup {m}
      BY <1>5 DEF Settle
    <3>2. QED BY <2>1, <2>2, <3>1 DEF Asked
  <2>4. ASSUME NEW q \in Sockets, net[q] = "open", NEW n \in 1..Len(requests)
        PROVE  n \in client'[q].told <=>
                 /\ requests'[n].by = q /\ ~requests'[n].running
                 /\ ~(requests'[n].kind = "mutation" /\ n \in applied')
    <3>1. n \in client[q].told <=> Due(q, n)
      BY <1>1, <2>4 DEF Open
    <3>2. CASE n # m
      <4>1. n \in client'[q].told <=> n \in client[q].told
        <5>1. client' = client \/ client' = Tell(b, m)
          BY <1>5 DEF Settle
        <5>2. client'[q].told \in {client[q].told, client[q].told \cup {m}}
          BY <2>9, <5>1
        <5>3. QED BY <3>2, <5>2
      <4>2. n \in applied' <=> n \in applied
        BY <1>5, <3>2 DEF Settle
      <4>3. QED BY <2>2, <3>1, <3>2, <4>1, <4>2 DEF Due
    <3>3. CASE n = m
      <4>1. requests[m].running /\ m \notin client[q].told
        BY <1>5, <3>1, <3>3 DEF Settle, Due
      <4>2. /\ requests'[m].by = requests[m].by /\ ~requests'[m].running
            /\ requests'[m].kind = requests[m].kind
        BY <2>2
      <4>3. CASE /\ applied' = IF requests[m].kind = "mutation" THEN applied \cup {m}
                               ELSE applied
                 /\ client' = IF requests[m].kind = "mutation" THEN client
                              ELSE Tell(requests[m].by, m)
        <5>1. CASE requests[m].kind = "mutation"
          BY <3>3, <4>1, <4>2, <4>3, <5>1
        <5>2. CASE requests[m].kind # "mutation"
          BY <2>9, <2>4, <3>3, <4>1, <4>2, <4>3, <5>2
        <5>3. QED BY <5>1, <5>2
      <4>4. CASE applied' = applied /\ client' = Tell(requests[m].by, m)
        <5>1. client'[q].told = IF q = requests[m].by THEN client[q].told \cup {m}
                                ELSE client[q].told
          BY <2>9, <2>4, <4>4
        <5>2. requests[m].kind = "mutation" => m \notin applied
          BY <4>1 DEF Asked
        <5>3. QED BY <3>3, <4>1, <4>2, <4>4, <5>1, <5>2
      <4>5. QED BY <1>5, <4>3, <4>4 DEF Settle
    <3>4. QED BY <3>2, <3>3
  <2>5. AskersAreTold'
    BY <2>1, <2>2, <2>4 DEF AskersAreTold, Open
  <2>6. QED BY <2>3, <2>5
<1>6. ASSUME \/ HandleEbcaLifecycle \/ Transfer
             \/ \E n \in 1..Len(events) : ResolveOwner(n) \/ EmitProjection(n)
      PROVE  Asked' /\ AskersAreTold'
  <2>1. UNCHANGED asking /\ \A q \in Sockets : client'[q].told = client[q].told
    <3>1. ASSUME NEW q \in Sockets PROVE client'[q].told = client[q].told
      BY <1>6, ProjectingTells
    <3>2. UNCHANGED asking
      BY <1>6 DEF HandleEbcaLifecycle, Transfer, ResolveOwner, EmitProjection
    <3>3. QED BY <3>1, <3>2
  <2>2. net' = net
    BY <1>6, WorkingFrame DEF Working, connections
  <2>3. QED BY <2>1, <2>2 DEF Asked, AskersAreTold, Open, asking
<1>7. CASE AfterInit \/ UNCHANGED vars
  BY <1>7 DEF AfterInit, vars, connections, asking, Asked, AskersAreTold, Open
<1>8. QED BY <1>3, <1>4, <1>5, <1>6, <1>7 DEF Next, Connecting

(* A socket that is open was told once what became of each request it made *)
(* (an applied mutation speaks for itself), and of nobody else's.          *)
THEOREM AskersTold == Spec => []AskersAreTold
<1>1. Init => Asked /\ AskersAreTold
  BY DEF Init, Asked, AskersAreTold
<1>2. TypeOK /\ Sessions /\ Asked /\ AskersAreTold /\ [Next]_vars
        => (Asked /\ AskersAreTold)'
  BY AskersKept
<1>3. QED BY <1>1, <1>2, SessionsHold, PTL DEF Spec

-----------------------------------------------------------------------------
(* World events.                                                           *)

LEMMA EmitInbox ==
    ASSUME TypeOK, NEW to, NEW n, NEW q \in Sockets
    PROVE  /\ Emit(to, n)[q].opened = client[q].opened
           /\ Emit(to, n)[q].inbox = IF q \in to THEN Append(client[q].inbox, n)
                                     ELSE client[q].inbox
<1>1. client[q] \in Views(Len(events), Len(requests))
  BY TypeParts DEF ClientsOK
<1>2. CASE q \in to
  <2>1. Emit(to, n)[q] = [client[q] EXCEPT !.inbox = Append(client[q].inbox, n)]
    BY <1>2, Zenon DEF Emit
  <2>2. QED BY <1>1, <1>2, <2>1 DEF Views
<1>3. CASE q \notin to
  BY <1>3 DEF Emit
<1>4. QED BY <1>2, <1>3

LEMMA TellInbox ==
    ASSUME TypeOK, NEW s \in Sockets, NEW n, NEW q \in Sockets
    PROVE  /\ Tell(s, n)[q].opened = client[q].opened
           /\ Tell(s, n)[q].inbox = client[q].inbox
<1>1. /\ client \in [Sockets -> Views(Len(events), Len(requests))]
      /\ client[q] \in Views(Len(events), Len(requests))
  BY TypeParts DEF ClientsOK
<1>2. CASE s = q /\ net[q] = "open"
  <2>1. Tell(s, n)[q] = [client[q] EXCEPT !.told = client[q].told \cup {n}]
    BY <1>1, <1>2, Zenon DEF Tell
  <2>2. QED BY <1>1, <2>1 DEF Views
<1>3. CASE ~(s = q /\ net[q] = "open")
  BY <1>1, <1>3, TellOthers
<1>4. QED BY <1>2, <1>3

(* What WorldInOrder says of one socket, which connected in the past.      *)
Hears(s) ==
    LET inbox == client[s].inbox IN
    /\ client[s].opened <= Len(events)
    /\ \A n \in 1..Len(events) : events[n].scope = "world" =>
         (Contains(inbox, n) <=> n > client[s].opened)
    /\ \A j, k \in 1..Len(inbox) :
         j < k /\ events[inbox[j]].scope = "world" /\ events[inbox[k]].scope = "world"
         => inbox[j] < inbox[k]
EveryoneHears == \A s \in Open : Hears(s)

(* A step that adds neither events nor anything seen by q.                 *)
LEMMA HearsFrame ==
    ASSUME TypeOK, NEW q \in Sockets, Hears(q), Len(events') = Len(events),
           \A n \in 1..Len(events) : events'[n].scope = events[n].scope,
           client'[q].inbox = client[q].inbox, client'[q].opened = client[q].opened
    PROVE  Hears(q)'
<1>1. client[q] \in Views(Len(events), Len(requests))
  BY TypeParts DEF ClientsOK
<1>2. client[q].inbox \in Seq(1..Len(events))
  BY <1>1 DEF Views
<1>3. \A j \in 1..Len(client[q].inbox) : client[q].inbox[j] \in 1..Len(events)
  BY <1>2
<1>4. QED BY <1>3 DEF Hears

(* A socket that has just connected.                                       *)
LEMMA HearsFirst ==
    ASSUME TypeOK, NEW q \in Sockets, UNCHANGED events,
           client'[q].inbox = <<>>, client'[q].opened = Len(events)
    PROVE  Hears(q)'
<1>1. Len(events) \in Nat
  BY DEF TypeOK
<1>2. QED BY <1>1 DEF Hears, Contains

LEMMA ConnectingHears ==
    ASSUME TypeOK, Sessions, EveryoneHears, NEW s \in Sockets, Connecting(s)
    PROVE  EveryoneHears'
<1>0. /\ client \in [Sockets -> Views(Len(events), Len(requests))]
      /\ net \in [Sockets -> {"new", "open", "closed"}]
      /\ UNCHANGED events
  BY TypeParts, ConnectingFrame DEF ClientsOK, ConnectionsOK, projecting
<1>1. SUFFICES ASSUME NEW q \in Sockets, net'[q] = "open" PROVE Hears(q)'
  BY DEF EveryoneHears, Open
<1>2. CASE HandleConnection(s) /\ q = s
  <2>1. client[s] = Unconnected /\ client[s] \in Views(Len(events), Len(requests))
    BY <1>0, <1>2 DEF HandleConnection, Sessions, Served
  <2>2. client'[s] = [client[s] EXCEPT !.opened = Len(events)]
    BY <1>0, <1>2, Zenon DEF HandleConnection
  <2>3. client'[s].opened = Len(events) /\ client'[s].inbox = client[s].inbox
    BY <2>1, <2>2 DEF Views
  <2>4. client[s].inbox = <<>>
    BY <2>1 DEF Unconnected
  <2>5. QED BY <1>0, <1>2, <2>3, <2>4, HearsFirst
<1>3. CASE HandleHello(s)
  <2>1. /\ client'[q].inbox = client[q].inbox /\ client'[q].opened = client[q].opened
    <3>1. CASE q = s
      <4>1. client'[s] = [client[s] EXCEPT !.entered =
               IF client[s].entered = None THEN Len(events) ELSE client[s].entered]
        BY <1>0, <1>3, Zenon DEF HandleHello, Enters
      <4>2. client[s] \in Views(Len(events), Len(requests))
        BY <1>0
      <4>3. QED BY <3>1, <4>1, <4>2 DEF Views
    <3>2. CASE q # s
      BY <1>0, <1>3, <3>2 DEF HandleHello, Enters
    <3>3. QED BY <3>1, <3>2
  <2>2. Hears(q)
    BY <1>1, <1>3 DEF HandleHello, EveryoneHears, Open
  <2>3. QED BY <1>0, <2>1, <2>2, HearsFrame
<1>4. CASE ~(HandleConnection(s) /\ q = s) /\ ~HandleHello(s)
  <2>1. net[q] = "open" /\ client'[q] = client[q]
    BY <1>0, <1>1, <1>4 DEF Connecting, HandleConnection, Leave, ResolveRefused,
      ResolveIdentity, ResolveFails, HandleDisconnect
  <2>2. Hears(q)
    BY <2>1 DEF EveryoneHears, Open
  <2>3. QED BY <1>0, <2>1, <2>2, HearsFrame
<1>5. QED BY <1>2, <1>3, <1>4

(* An event that is added to what a socket has seen.                       *)
LEMMA HearsMore ==
    ASSUME NEW q \in Seq(Nat), NEW e \in Nat
    PROVE  /\ Len(Append(q, e)) = Len(q) + 1
           /\ \A j \in 1..(Len(q) + 1) :
                Append(q, e)[j] = IF j = Len(q) + 1 THEN e ELSE q[j]
           /\ \A x : Contains(Append(q, e), x) <=> Contains(q, x) \/ x = e
BY AppendHas

LEMMA LifecycleHears ==
    ASSUME TypeOK, Sessions, EveryoneHears, HandleEbcaLifecycle
    PROVE  EveryoneHears'
<1> PICK N \in Nat : N = Len(events)
  BY DEF TypeOK
<1>1. /\ Len(events') = N + 1 /\ \A n \in 1..N : events'[n] = events[n]
      /\ net' = net /\ events \in Seq(Events)
  BY LifecycleType DEF HandleEbcaLifecycle, connections, TypeOK
<1>2. SUFFICES ASSUME NEW q \in Sockets, net[q] = "open" PROVE Hears(q)'
  BY <1>1 DEF EveryoneHears, Open
<1>3. /\ Hears(q) /\ ready
      /\ client[q].inbox \in Seq(1..N) /\ client[q].opened \in Nat
  <2>1. client[q] \in Views(Len(events), Len(requests))
    BY TypeParts DEF ClientsOK
  <2>2. client[q].inbox \in Seq(1..N) /\ client[q].opened \in Nat
    BY <2>1 DEF Views
  <2>3. QED BY <1>2, <2>2 DEF EveryoneHears, Open, Sessions, Served
<1>4. /\ \A j \in 1..Len(client[q].inbox) : client[q].inbox[j] \in 1..N
      /\ ~Contains(client[q].inbox, N + 1)
  BY <1>3 DEF Contains
<1>5. CASE client' = client /\ events'[N + 1].scope = "owner"
  <2>1. \A n \in 1..(N + 1) : n \in 1..N \/ n = N + 1
    OBVIOUS
  <2>2. \A n \in 1..(N + 1) : events'[n].scope = "world" =>
          (Contains(client[q].inbox, n) <=> n > client[q].opened)
    BY <1>1, <1>3, <1>5, <2>1 DEF Hears
  <2>3. \A j, k \in 1..Len(client[q].inbox) :
          j < k /\ events'[client[q].inbox[j]].scope = "world"
                /\ events'[client[q].inbox[k]].scope = "world"
          => client[q].inbox[j] < client[q].inbox[k]
    BY <1>1, <1>3, <1>4 DEF Hears
  <2>4. client[q].opened <= N + 1
    BY <1>3 DEF Hears
  <2>5. QED BY <1>1, <1>5, <2>2, <2>3, <2>4 DEF Hears
<1>6. CASE client' = EmitToAll(N + 1) /\ events'[N + 1].scope = "world"
  <2>1. /\ client'[q].opened = client[q].opened
        /\ client'[q].inbox = Append(client[q].inbox, N + 1)
    <3>1. q \in Open
      BY <1>2 DEF Open
    <3>2. QED BY <1>3, <1>6, <3>1, EmitInbox DEF EmitToAll
  <2>2. client[q].inbox \in Seq(Nat)
    BY <1>3
  <2> PICK inbox \in Seq(Nat) : inbox = client[q].inbox
    BY <2>2
  <2>3. /\ Len(client'[q].inbox) = Len(inbox) + 1
        /\ \A j \in 1..(Len(inbox) + 1) :
             client'[q].inbox[j] = IF j = Len(inbox) + 1 THEN N + 1 ELSE inbox[j]
        /\ \A x : Contains(client'[q].inbox, x) <=> Contains(inbox, x) \/ x = N + 1
    BY <2>1, HearsMore
  <2>4. \A n \in 1..(N + 1) : n \in 1..N \/ n = N + 1
    OBVIOUS
  <2>5. ASSUME NEW n \in 1..(N + 1), events'[n].scope = "world"
        PROVE  Contains(client'[q].inbox, n) <=> n > client'[q].opened
    <3>1. CASE n \in 1..N
      <4>1. Contains(inbox, n) <=> n > client[q].opened
        BY <1>1, <1>3, <2>5, <3>1 DEF Hears
      <4>2. n # N + 1
        BY <3>1
      <4>3. QED BY <2>1, <2>3, <4>1, <4>2
    <3>2. CASE n = N + 1
      <4>1. n > client[q].opened
        BY <1>3, <3>2 DEF Hears
      <4>2. QED BY <2>1, <2>3, <3>2, <4>1
    <3>3. QED BY <2>4, <3>1, <3>2
  <2>6. ASSUME NEW j \in 1..(Len(inbox) + 1), NEW k \in 1..(Len(inbox) + 1), j < k,
               events'[client'[q].inbox[j]].scope = "world",
               events'[client'[q].inbox[k]].scope = "world"
        PROVE  client'[q].inbox[j] < client'[q].inbox[k]
    <3>1. /\ Len(inbox) \in Nat /\ j \in 1..Len(inbox) /\ client'[q].inbox[j] = inbox[j]
          /\ inbox[j] \in 1..N /\ events'[inbox[j]] = events[inbox[j]]
      BY <1>1, <1>4, <2>3, <2>6
    <3>2. CASE k = Len(inbox) + 1
      <4>1. client'[q].inbox[k] = N + 1
        BY <2>3, <3>2
      <4>2. QED BY <3>1, <4>1
    <3>3. CASE k # Len(inbox) + 1
      <4>0. k \in 1..Len(inbox) /\ client'[q].inbox[k] = inbox[k]
        BY <2>3, <3>1, <3>3
      <4>1. /\ k \in 1..Len(inbox) /\ client'[q].inbox[k] = inbox[k]
            /\ inbox[k] \in 1..N /\ events'[inbox[k]] = events[inbox[k]]
        BY <1>1, <1>4, <4>0
      <4>2. QED BY <1>3, <2>6, <3>1, <4>1 DEF Hears
    <3>4. QED BY <3>2, <3>3
  <2>7. client'[q].opened <= N + 1
    BY <1>3, <2>1 DEF Hears
  <2>8. QED BY <1>1, <2>3, <2>5, <2>6, <2>7 DEF Hears
<1>7. QED
  <2>1. \/ client' = client /\ events'[N + 1].scope = "owner"
        \/ client' = EmitToAll(N + 1) /\ events'[N + 1].scope = "world"
    BY <1>1 DEF HandleEbcaLifecycle
  <2>2. QED BY <1>5, <1>6, <2>1

LEMMA ProjectionHears ==
    ASSUME TypeOK, Sessions, OwnersKnown, EveryoneHears, NEW n \in 1..Len(events),
           EmitProjection(n)
    PROVE  EveryoneHears'
<1>1. /\ Len(events') = Len(events) /\ net' = net
      /\ \A m \in 1..Len(events) : events'[m].scope = events[m].scope
  BY EventDone DEF EmitProjection, connections
<1>2. events[n].scope # "world"
  BY DEF OwnersKnown, OwnersOf, EmitProjection
<1>3. SUFFICES ASSUME NEW q \in Sockets, net[q] = "open" PROVE Hears(q)'
  BY <1>1 DEF EveryoneHears, Open
<1>4. Hears(q) /\ client[q].inbox \in Seq(1..Len(events))
  <2>1. client[q] \in Views(Len(events), Len(requests))
    BY TypeParts DEF ClientsOK
  <2>2. client[q].inbox \in Seq(1..Len(events))
    BY <2>1 DEF Views
  <2>3. QED BY <1>3, <2>2 DEF EveryoneHears, Open
<1>5. /\ client'[q].opened = client[q].opened
      /\ client'[q].inbox \in {client[q].inbox, Append(client[q].inbox, n)}
  <2>1. \A i : /\ EmitToIdentity(i, n)[q].opened = client[q].opened
               /\ EmitToIdentity(i, n)[q].inbox
                    \in {client[q].inbox, Append(client[q].inbox, n)}
    <3>1. ASSUME NEW room
          PROVE  /\ Emit(room, n)[q].opened = client[q].opened
                 /\ Emit(room, n)[q].inbox
                      \in {client[q].inbox, Append(client[q].inbox, n)}
      <4>1. /\ Emit(room, n)[q].opened = client[q].opened
            /\ Emit(room, n)[q].inbox = IF q \in room THEN Append(client[q].inbox, n)
                                        ELSE client[q].inbox
        BY EmitInbox, SMT
      <4>2. QED BY <4>1, Zenon
    <3>2. QED BY <3>1 DEF EmitToIdentity
  <2>2. QED BY <2>1 DEF EmitProjection
<1>6. CASE client'[q].inbox = client[q].inbox
  BY <1>1, <1>4, <1>5, <1>6, HearsFrame
<1>7. CASE client'[q].inbox = Append(client[q].inbox, n)
  <2>1. client[q].inbox \in Seq(Nat) /\ Len(events) \in Nat
    BY <1>4 DEF TypeOK
  <2> PICK inbox \in Seq(Nat) : inbox = client[q].inbox
    BY <2>1
  <2>2. /\ Len(client'[q].inbox) = Len(inbox) + 1
        /\ \A j \in 1..(Len(inbox) + 1) :
             client'[q].inbox[j] = IF j = Len(inbox) + 1 THEN n ELSE inbox[j]
        /\ \A x : Contains(client'[q].inbox, x) <=> Contains(inbox, x) \/ x = n
    BY <1>7, <2>1, HearsMore
  <2>3. \A j \in 1..Len(inbox) : inbox[j] \in 1..Len(events)
    BY <1>4
  <2>4. ASSUME NEW j \in 1..(Len(inbox) + 1),
               events'[client'[q].inbox[j]].scope = "world"
        PROVE  /\ j \in 1..Len(inbox) /\ client'[q].inbox[j] = inbox[j]
               /\ events[inbox[j]].scope = "world"
    <3>1. j # Len(inbox) + 1
      BY <1>1, <1>2, <2>2, <2>4
    <3>2. j \in 1..Len(inbox) /\ client'[q].inbox[j] = inbox[j]
      BY <2>2, <3>1
    <3>3. QED BY <1>1, <2>3, <2>4, <3>2
  <2>5. \A m \in 1..Len(events) : events'[m].scope = "world" =>
           (Contains(client'[q].inbox, m) <=> m > client'[q].opened)
    BY <1>1, <1>2, <1>4, <1>5, <2>2 DEF Hears
  <2>6. \A j, k \in 1..(Len(inbox) + 1) :
           j < k /\ events'[client'[q].inbox[j]].scope = "world"
                 /\ events'[client'[q].inbox[k]].scope = "world"
           => client'[q].inbox[j] < client'[q].inbox[k]
    BY <1>4, <2>4 DEF Hears
  <2>7. QED BY <1>1, <1>4, <1>5, <2>2, <2>5, <2>6 DEF Hears
<1>8. QED BY <1>5, <1>6, <1>7

LEMMA HearsKept ==
    ASSUME TypeOK, Sessions, OwnersKnown, EveryoneHears, [Next]_vars
    PROVE  EveryoneHears'
<1>0. requests \in Seq(Requests) /\ events \in Seq(Events)
  BY DEF TypeOK
<1>1. ASSUME NEW s \in Sockets, Connecting(s) PROVE EveryoneHears'
  BY <1>1, ConnectingHears
<1>2. ASSUME UNCHANGED net, Len(events') = Len(events),
             \A n \in 1..Len(events) : events'[n].scope = events[n].scope,
             \A q \in Sockets : /\ client'[q].inbox = client[q].inbox
                                /\ client'[q].opened = client[q].opened
      PROVE  EveryoneHears'
  BY <1>2, HearsFrame DEF EveryoneHears, Open
<1>3. ASSUME NEW s \in Sockets, HandleEnvelope(s) PROVE EveryoneHears'
  <2>1. ASSUME NEW q \in Sockets
        PROVE  /\ client'[q].inbox = client[q].inbox
               /\ client'[q].opened = client[q].opened
    BY <1>3, TellInbox DEF HandleEnvelope
  <2>2. UNCHANGED <<net, events>>
    BY <1>3 DEF HandleEnvelope, connections, projecting
  <2>3. QED BY <1>2, <2>1, <2>2
<1>4. ASSUME NEW n \in 1..Len(requests), Settle(n) PROVE EveryoneHears'
  <2>1. requests[n].by \in Sockets
    <3>1. requests[n] \in Requests
      BY <1>0
    <3>2. QED BY <3>1 DEF Requests
  <2>2. ASSUME NEW q \in Sockets
        PROVE  /\ client'[q].inbox = client[q].inbox
               /\ client'[q].opened = client[q].opened
    BY <1>4, <2>1, TellInbox DEF Settle
  <2>3. UNCHANGED <<net, events>>
    BY <1>4 DEF Settle, connections, projecting
  <2>4. QED BY <1>2, <2>2, <2>3
<1>5. CASE HandleEbcaLifecycle
  BY <1>5, LifecycleHears
<1>6. ASSUME NEW n \in 1..Len(events), ResolveOwner(n) PROVE EveryoneHears'
  <2>1. UNCHANGED <<net, client>>
    BY <1>6 DEF ResolveOwner, connections
  <2>2. /\ Len(events') = Len(events)
        /\ \A m \in 1..Len(events) : events'[m].scope = events[m].scope
    BY <1>6, OwnerResolved
  <2>3. QED BY <1>2, <2>1, <2>2
<1>7. ASSUME NEW n \in 1..Len(events), EmitProjection(n) PROVE EveryoneHears'
  BY <1>7, ProjectionHears
<1>8. CASE Transfer
  <2>1. UNCHANGED <<net, client>>
    BY <1>8 DEF Transfer, connections
  <2>2. /\ Len(events') = Len(events)
        /\ \A m \in 1..Len(events) : events'[m].scope = events[m].scope
    BY <1>0, <1>8, EventsTransferred DEF Transfer
  <2>3. QED BY <1>2, <2>1, <2>2
<1>9. CASE AfterInit \/ UNCHANGED vars
  BY <1>2, <1>9 DEF AfterInit, vars, connections, projecting
<1>10. QED BY <1>1, <1>3, <1>4, <1>5, <1>6, <1>7, <1>8, <1>9 DEF Next, Connecting

(* An open socket has heard the world events since it connected, all of    *)
(* them and in their order, whatever else it was sent.                     *)
THEOREM WorldOrder == Spec => []WorldInOrder
<1>1. Init => EveryoneHears
  BY DEF Init, EveryoneHears, Open
<1>2. AudienceInv /\ EveryoneHears /\ [Next]_vars => EveryoneHears'
  BY HearsKept DEF AudienceInv
<1>3. AudienceInv /\ EveryoneHears => WorldInOrder
  <2>1. SUFFICES ASSUME AudienceInv, NEW s \in Open, Hears(s)
                 PROVE  DOMAIN client[s].inbox = 1..Len(client[s].inbox)
    BY DEF EveryoneHears, Hears, WorldInOrder
  <2>2. client[s] \in Views(Len(events), Len(requests))
    BY <2>1, TypeParts DEF AudienceInv, ClientsOK, Open
  <2>3. client[s].inbox \in Seq(1..Len(events))
    BY <2>2 DEF Views
  <2>4. QED BY <2>3
<1>4. QED BY <1>1, <1>2, <1>3, AudienceHolds, PTL DEF Spec
=============================================================================
