----------------------------- MODULE WsSessions -----------------------------
(***************************************************************************)
(* EbcaWsGatewayBase and EbcaWsProjectorController: sockets connect, their *)
(* tokens are resolved while they may already send or leave, authenticated *)
(* ones join the room of their identity with client.hello and ask; the     *)
(* lifecycle events of components are emitted to all sockets or to the     *)
(* rooms of the owners.                                                    *)
(*                                                                         *)
(* One JavaScript thread: an action is the synchronous code between two    *)
(* turns of the event loop.  Socket.IO keeps the sockets and their rooms   *)
(* and calls a listener only on an open socket.                            *)
(***************************************************************************)
EXTENDS Naturals, Sequences, FiniteSets, SequencesExt

CONSTANTS Sockets,      \* connections; one that comes back is another socket
          Identities,
          Handshake,    \* the auth token and the header a socket comes with
          IdentityOf,   \* whom the auth adapter makes of a token
          MaxWork,      \* bound on events and requests together
          MaxTransfers, \* bound on changes of the owner component
          MaxFaults,    \* bound on failing adapters, reads and services
          None

ASSUME WsAssumption ==
    /\ Handshake \in [Sockets -> [auth : DOMAIN IdentityOf \cup {None},
                                  bearer : DOMAIN IdentityOf \cup {None}]]
    /\ IdentityOf \in [DOMAIN IdentityOf -> Identities]
    /\ {MaxWork, MaxTransfers, MaxFaults} \subseteq Nat
    /\ None \notin Identities

VARIABLES ready,         \* afterInit has run
          net,           \* what Socket.IO knows of a socket
          resolving,     \* the sockets whose token the adapter is resolving
          pending,       \* pendingAuthenticatedIdentities
          authenticated, \* authenticatedIdentities
          bound,         \* the sockets whose events are listened to
          rooms,         \* the room of each identity
          requests,      \* the envelopes handled, in order
          applied,       \* the mutations applied
          owner,         \* the owner component of the entity
          events,        \* the lifecycle events received, in order
          client,        \* what the client of each open socket has seen
          leftEarly,     \* the sockets that left while their token was resolved
          transfers, faults

connections == <<ready, net, resolving, pending, authenticated, bound, rooms,
                 leftEarly>>
asking == <<requests, applied>>
projecting == <<owner, events, transfers>>
vars == <<connections, asking, projecting, client, faults>>

(* resolveHandshakeToken, extractBearerToken: the header counts only when  *)
(* there is no auth token.                                                 *)
Token(s) == IF Handshake[s].auth # None THEN Handshake[s].auth
            ELSE Handshake[s].bearer
Authorized(s, i) == Token(s) # None /\ IdentityOf[Token(s)] = i

Kinds == {"componentRequest", "mutation", "query"}
Requests == [by : Sockets, kind : Kinds, running : BOOLEAN]

(* An event of a component that the world may see or of one that belongs   *)
(* to the entity's owner; its handler reads the owner, then emits.  owners *)
(* are all owners since the event arrived.                                 *)
Events == [scope : {"world", "owner"}, at : {"read", "emit", "done"},
           recipient : Identities \cup {None},
           owners : SUBSET (Identities \cup {None})]

(* A client notes how many events had been received when it connected and  *)
(* when its first hello was heard, the events emitted to it, in order, and *)
(* the requests it was sent a reply or an error for.                       *)
Unconnected == [opened |-> 0, entered |-> None, inbox |-> <<>>, told |-> {}]

TypeOK ==
    /\ ready \in BOOLEAN
    /\ net \in [Sockets -> {"new", "open", "closed"}]
    /\ resolving \subseteq Sockets /\ pending \subseteq Sockets
    /\ authenticated \in [Sockets -> Identities \cup {None}]
    /\ bound \subseteq Sockets /\ leftEarly \subseteq Sockets
    /\ rooms \in [Identities -> SUBSET Sockets]
    /\ requests \in Seq(Requests)
    /\ applied \subseteq 1..Len(requests)
    /\ owner \in Identities \cup {None}
    /\ events \in Seq(Events)
    /\ client \in [Sockets -> [opened : Nat, entered : Nat \cup {None},
                               inbox : Seq(1..Len(events)),
                               told : SUBSET (1..Len(requests))]]
    /\ transfers \in Nat /\ faults \in Nat

Init ==
    /\ ready = FALSE
    /\ net = [s \in Sockets |-> "new"]
    /\ resolving = {} /\ pending = {} /\ bound = {} /\ leftEarly = {}
    /\ authenticated = [s \in Sockets |-> None]
    /\ rooms = [i \in Identities |-> {}]
    /\ requests = <<>> /\ applied = {}
    /\ owner \in Identities
    /\ events = <<>>
    /\ client = [s \in Sockets |-> Unconnected]
    /\ transfers = 0 /\ faults = 0

Ok == UNCHANGED faults
Fault == faults < MaxFaults /\ faults' = faults + 1

MoreWork == Len(requests) + Len(events) < MaxWork
Open == {s \in Sockets : net[s] = "open"}

-----------------------------------------------------------------------------
(* afterInit: there is a server to emit with.                              *)
AfterInit ==
    /\ ~ready /\ ready' = TRUE
    /\ UNCHANGED <<net, resolving, pending, authenticated, bound, rooms, leftEarly,
                   asking, projecting, client, faults>>

(* handleConnection up to its await: a token nobody has resolved yet is    *)
(* handed to the adapter.                                                  *)
HandleConnection(s) ==
    /\ ready /\ net[s] = "new"
    /\ net' = [net EXCEPT ![s] = "open"]
    /\ resolving' = resolving \cup {s}
    /\ pending' = pending \cup {s}
    /\ client' = [client EXCEPT ![s].opened = Len(events)]
    /\ UNCHANGED <<ready, authenticated, bound, rooms, leftEarly, asking,
                   projecting, faults>>

(* Mutant: the identity of a socket that leaves is kept.                   *)
HandleDisconnectKeeps(s) ==
    /\ net' = [net EXCEPT ![s] = "closed"]
    /\ pending' = pending \ {s}
    /\ bound' = bound \ {s}
    /\ rooms' = [i \in Identities |-> rooms[i] \ {s}]
    /\ client' = [client EXCEPT ![s] = Unconnected]
    /\ UNCHANGED authenticated

(* Mutant: with one socket its whole room is closed.                       *)
HandleDisconnectRoom(s) ==
    /\ net' = [net EXCEPT ![s] = "closed"]
    /\ pending' = pending \ {s}
    /\ authenticated' = [authenticated EXCEPT ![s] = None]
    /\ bound' = bound \ {s}
    /\ rooms' = [i \in Identities |-> IF s \in rooms[i] THEN {} ELSE rooms[i]]
    /\ client' = [client EXCEPT ![s] = Unconnected]

(* A socket closes: it leaves its rooms, its listeners are not called any  *)
(* more, and handleDisconnect forgets it.                                  *)
HandleDisconnect(s) ==
    /\ net' = [net EXCEPT ![s] = "closed"]
    /\ pending' = pending \ {s}
    /\ authenticated' = [authenticated EXCEPT ![s] = None]
    /\ bound' = bound \ {s}
    /\ rooms' = [i \in Identities |-> rooms[i] \ {s}]
    /\ client' = [client EXCEPT ![s] = Unconnected]

(* The client leaves, or its heartbeat stops.                              *)
Leave(s) ==
    /\ net[s] = "open"
    /\ HandleDisconnect(s)
    /\ leftEarly' = IF s \in resolving THEN leftEarly \cup {s} ELSE leftEarly
    /\ UNCHANGED <<ready, resolving, asking, projecting, faults>>

(* Mutant: a socket without a valid token is told so and left open.        *)
ResolveRefusedOnly(s) ==
    /\ s \in resolving
    /\ resolving' = resolving \ {s} /\ pending' = pending \ {s}
    /\ UNCHANGED <<ready, net, authenticated, bound, rooms, leftEarly, asking,
                   projecting, client, faults>>

(* The adapter knows no identity: the socket is told and disconnected; one *)
(* that has left already is not there to be closed.                        *)
ResolveRefused(s) ==
    /\ s \in resolving
    /\ resolving' = resolving \ {s}
    /\ IF net[s] = "open"
       THEN HandleDisconnect(s)
       ELSE /\ pending' = pending \ {s}
            /\ UNCHANGED <<net, authenticated, bound, rooms, client>>
    /\ UNCHANGED <<ready, leftEarly, asking, projecting, faults>>

(* bindClientEvents: the four listeners, which only an open socket calls.  *)
BindClientEvents(s) == IF net[s] = "open" THEN bound \cup {s} ELSE bound

(* The adapter knows the identity: it is entered, also for a socket that   *)
(* has left meanwhile, and the listeners are bound.                        *)
ResolveIdentity(s) ==
    /\ s \in resolving /\ Token(s) # None
    /\ resolving' = resolving \ {s}
    /\ pending' = pending \ {s}
    /\ authenticated' = [authenticated EXCEPT ![s] = IdentityOf[Token(s)]]
    /\ bound' = BindClientEvents(s)
    /\ UNCHANGED <<ready, net, rooms, leftEarly, asking, projecting, client, faults>>

(* The adapter throws: nobody closes the socket, nobody listens to it.     *)
ResolveFails(s) ==
    /\ s \in resolving
    /\ Fault
    /\ resolving' = resolving \ {s}
    /\ pending' = pending \ {s}
    /\ UNCHANGED <<ready, net, authenticated, bound, rooms, leftEarly, asking,
                   projecting, client>>

-----------------------------------------------------------------------------
(* The client's first hello that is heard.                                 *)
Enters(s) == [client EXCEPT ![s].entered = IF @ = None THEN Len(events) ELSE @]

(* Mutant: the socket joins the room of the identity it asks for.          *)
HandleHelloAsked(s) ==
    /\ s \in bound
    /\ \E i \in Identities : rooms' = [rooms EXCEPT ![i] = @ \cup {s}]
    /\ client' = Enters(s)
    /\ UNCHANGED <<ready, net, resolving, pending, authenticated, bound, leftEarly,
                   asking, projecting, faults>>

(* handleHello: the socket joins the room of its own identity, whatever    *)
(* identity the payload names.  A hello sent before the listeners are      *)
(* bound is not heard by anyone.                                           *)
HandleHello(s) ==
    /\ s \in bound
    /\ rooms' = [rooms EXCEPT ![authenticated[s]] = @ \cup {s}]
    /\ client' = Enters(s)
    /\ UNCHANGED <<ready, net, resolving, pending, authenticated, bound, leftEarly,
                   asking, projecting, faults>>

(* Mutant: requests are numbered from zero.                                *)
TellBefore(s, n) == [client EXCEPT ![s].told = @ \cup {n - 1}]

(* emitPayloadToClient, emitError: nothing reaches a closed socket.        *)
Tell(s, n) == IF net[s] = "open" THEN [client EXCEPT ![s].told = @ \cup {n}]
              ELSE client

(* handleComponentRequest, handleComponentMutation, handleQuery up to the  *)
(* await of the service: a malformed envelope is answered with an error.   *)
HandleEnvelope(s) ==
    /\ s \in bound /\ MoreWork
    /\ \E k \in Kinds, wellFormed \in BOOLEAN :
         /\ requests' = Append(requests,
                               [by |-> s, kind |-> k, running |-> wellFormed])
         /\ client' = IF wellFormed THEN client ELSE Tell(s, Len(requests) + 1)
    /\ UNCHANGED <<connections, applied, projecting, faults>>

(* Mutant: a service that throws ends the handler.                         *)
SettleSilently(n) ==
    LET r == requests[n] IN
    /\ r.running
    /\ requests' = [requests EXCEPT ![n].running = FALSE]
    /\ \/ /\ Ok
          /\ applied' = IF r.kind = "mutation" THEN applied \cup {n} ELSE applied
          /\ client' = IF r.kind = "mutation" THEN client ELSE Tell(r.by, n)
       \/ Fault /\ UNCHANGED <<applied, client>>
    /\ UNCHANGED <<connections, projecting>>

(* The service answers or throws: the handlers of requests and queries     *)
(* reply, that of a mutation only reports an error.                        *)
Settle(n) ==
    LET r == requests[n] IN
    /\ r.running
    /\ requests' = [requests EXCEPT ![n].running = FALSE]
    /\ \/ /\ Ok
          /\ applied' = IF r.kind = "mutation" THEN applied \cup {n} ELSE applied
          /\ client' = IF r.kind = "mutation" THEN client ELSE Tell(r.by, n)
       \/ /\ Fault
          /\ client' = Tell(r.by, n)
          /\ UNCHANGED applied
    /\ UNCHANGED <<connections, projecting>>

-----------------------------------------------------------------------------
(* The events each client has seen once event n was emitted to sockets to. *)
Emit(to, n) == [s \in Sockets |-> IF s \in to
                                  THEN [client[s] EXCEPT !.inbox = Append(@, n)]
                                  ELSE client[s]]

(* Mutant: emitToAll reaches only the sockets that have joined a room.     *)
EmitToJoined(n) == Emit(UNION {rooms[i] : i \in Identities}, n)

(* emitToAll: every socket of the server, also while its token is resolved. *)
EmitToAll(n) == Emit(IF ready THEN Open ELSE {}, n)

(* emitToIdentity: the sockets in the identity's room.                     *)
EmitToIdentity(i, n) == Emit(IF ready THEN rooms[i] ELSE {}, n)

(* handleEbcaLifecycle: what the world may see is emitted at once; for     *)
(* what belongs to the owner the owner component is read.                  *)
HandleEbcaLifecycle ==
    /\ MoreWork
    /\ \/ /\ events' = Append(events, [scope |-> "world", at |-> "done",
                                       recipient |-> None, owners |-> {}])
          /\ client' = EmitToAll(Len(events) + 1)
       \/ /\ events' = Append(events, [scope |-> "owner", at |-> "read",
                                       recipient |-> None, owners |-> {owner}])
          /\ UNCHANGED client
    /\ UNCHANGED <<connections, asking, owner, transfers, faults>>

(* resolveOwnerComponentRecipients: the read of the owner component is     *)
(* answered; a read that fails finds no owner.                             *)
ResolveOwner(n) ==
    /\ events[n].at = "read"
    /\ \/ Ok /\ events' = [events EXCEPT ![n].at = "emit", ![n].recipient = owner]
       \/ Fault /\ events' = [events EXCEPT ![n].at = "emit"]
    /\ UNCHANGED <<connections, asking, client, owner, transfers>>

(* Mutant: the event of an owned component is emitted to everyone.         *)
EmitProjectionAll(n) ==
    /\ events[n].at = "emit"
    /\ client' = EmitToAll(n)
    /\ events' = [events EXCEPT ![n].at = "done"]
    /\ UNCHANGED <<connections, asking, owner, transfers, faults>>

(* The handler goes on: it emits to the room of the recipient, if any.     *)
EmitProjection(n) ==
    LET i == events[n].recipient IN
    /\ events[n].at = "emit"
    /\ client' = IF i = None THEN client ELSE EmitToIdentity(i, n)
    /\ events' = [events EXCEPT ![n].at = "done"]
    /\ UNCHANGED <<connections, asking, owner, transfers, faults>>

(* The owner component is updated or removed by some system.               *)
Transfer ==
    /\ transfers < MaxTransfers /\ transfers' = transfers + 1
    /\ \E i \in (Identities \cup {None}) \ {owner} :
         /\ owner' = i
         /\ events' = [n \in 1..Len(events) |->
                         IF events[n].at = "read"
                         THEN [events[n] EXCEPT !.owners = @ \cup {i}]
                         ELSE events[n]]
    /\ UNCHANGED <<connections, asking, client, faults>>

Next ==
    \/ AfterInit
    \/ \E s \in Sockets :
         \/ HandleConnection(s) \/ Leave(s)
         \/ ResolveRefused(s) \/ ResolveIdentity(s) \/ ResolveFails(s)
         \/ HandleHello(s) \/ HandleEnvelope(s)
    \/ \E n \in 1..Len(requests) : Settle(n)
    \/ HandleEbcaLifecycle
    \/ \E n \in 1..Len(events) : ResolveOwner(n) \/ EmitProjection(n)
    \/ Transfer

Spec == Init /\ [][Next]_vars

(* The adapter answers or throws.                                          *)
FairSpec ==
    /\ Spec
    /\ \A s \in Sockets :
         WF_vars(ResolveRefused(s) \/ ResolveIdentity(s) \/ ResolveFails(s))

-----------------------------------------------------------------------------
(* A room holds only open, listened-to sockets whose token is its          *)
(* identity's: not what a hello asks for, and none that left.              *)
RoomsAreTheirs ==
    \A i \in Identities : \A s \in rooms[i] :
        s \in Open \cap bound /\ authenticated[s] = i /\ Authorized(s, i)

(* The two maps of the gateway follow the sockets: what remains of a       *)
(* socket that has gone is the identity of one that left while its token   *)
(* was being resolved, and nothing is pending but for sockets that wait.   *)
MapsFollowSockets ==
    /\ \A s \in Sockets : authenticated[s] # None => s \in Open \cup leftEarly
    /\ pending = resolving \cap Open

(* An event of an owned component is emitted only to sockets of someone    *)
(* who was the owner between its arrival and its read.                     *)
OnlyOwnersAreSent ==
    \A s \in Sockets, n \in 1..Len(events) :
        events[n].scope = "owner" /\ Contains(client[s].inbox, n)
        => \E i \in events[n].owners : Authorized(s, i)

(* An owner's socket whose hello was heard before the event arrived, and   *)
(* that is still open, has it, whichever other sockets of the owner came   *)
(* and went, unless the owner changed or the read failed meanwhile.        *)
JoinedOwnersMissNothing ==
    \A s \in Open, n \in 1..Len(events) :
        /\ client[s].entered # None /\ n > client[s].entered
        /\ events[n].scope = "owner" /\ events[n].at = "done"
        /\ (\E i \in Identities : events[n].owners = {i} /\ Authorized(s, i))
        /\ faults = 0
        => Contains(client[s].inbox, n)

(* An open socket has heard exactly the world events that arrived since it *)
(* connected, in the order of their arrival, also those before its token   *)
(* was resolved.                                                           *)
WorldInOrder ==
    \A s \in Open :
        LET inbox == client[s].inbox
            World(n) == events[n].scope = "world" IN
        /\ \A n \in 1..Len(events) :
             World(n) => (Contains(inbox, n) <=> n > client[s].opened)
        /\ \A j, k \in DOMAIN inbox :
             j < k /\ World(inbox[j]) /\ World(inbox[k]) => inbox[j] < inbox[k]

(* A socket that is still open was told the outcome of each request it     *)
(* made, except of a mutation that was applied, and of nobody else's.      *)
AskersAreTold ==
    \A s \in Open, n \in 1..Len(requests) :
        n \in client[s].told <=>
            /\ requests[n].by = s /\ ~requests[n].running
            /\ ~(requests[n].kind = "mutation" /\ n \in applied)

(* Every socket is listened to or closed in the end: none stays open that  *)
(* nobody hears, unless the adapter threw.                                 *)
EveryoneIsSettled ==
    \A s \in Sockets : net[s] = "open" ~>
        s \in bound \/ net[s] = "closed" \/ faults > 0
=============================================================================
