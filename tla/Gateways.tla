------------------------------ MODULE Gateways ------------------------------
(***************************************************************************)
(* Calls of clients that the gateways serve while the system goes on:      *)
(* writes that first await the owner component, snapshots of components    *)
(* whose owner is read after the value, collections whose entity ids come  *)
(* from a cache with a time to live, and queries.                          *)
(*                                                                         *)
(* A read or an operation of ComponentManager is one step here; what       *)
(* happens inside it is the subject of module ComponentManager.  The       *)
(* request services of the WebSocket and the GraphQL gateway are the same  *)
(* code, each with a cache of its own: this is one of them.                *)
(***************************************************************************)
EXTENDS GatewayRules, FiniteSets

CONSTANTS Clients, Entities,
          Rank,         \* the order in which a collection query lists entities
          SelfOf,       \* the identity an entity stands for, or None
          Sent,         \* whom the adapters of the application may find
          Projections, Inbounds, Envelopes, ParamDefs, RawParams,
                        \* what components and queries declare, what is sent
          Listed,       \* the projections that collections are asked for
          OwnedBy,      \* the filter of ownedOnly: "column", "self" or "none"
          MaxRows,      \* maxCollectionRows
          Ttl,          \* collectionEntityIdCacheTtlMs
          MaxLatency,   \* bound on the time a collection query takes
          MaxTime, MaxTransfers,
          MaxCalls, MaxFaults  \* by traffic: only collections meet, in the cache

Traffics == {"writes", "snapshots", "collections", "queries"}

ASSUME GatewayAssumption ==
    /\ IsFiniteSet(Entities)
    /\ Rank \in [Entities -> Nat]
    /\ \A e, f \in Entities : Rank[e] = Rank[f] => e = f
    /\ SelfOf \in [Entities -> Identities \cup {None}]
    /\ OwnedBy \in {"column", "self", "none"}
    /\ MaxRows \in Nat \ {0}
    /\ {Ttl, MaxLatency, MaxTime, MaxTransfers} \subseteq Nat
    /\ {MaxCalls, MaxFaults} \subseteq [Traffics -> Nat]
    /\ Projections \subseteq ProjectionOptions /\ Listed \subseteq Projections
    /\ \A b \in Inbounds : AllowedOperations(b) \subseteq Operations
    /\ ParamDefs \subseteq ParamOptions /\ RawParams \subseteq Raws
    /\ \A raw \in RawParams : raw.form # "array" =>
         Len(raw.items) = IF raw.form = "absent" THEN 0 ELSE 1

VARIABLES traffic,  \* which calls the clients make
          owner,    \* the owner component of each entity
          write,    \* each client's last write
          read,     \* each client's last snapshot or collection request
          cache,    \* collectionEntityIdCache
          answer,   \* the last query: what its handler was given
          now,
          past,     \* <<time, owner>>: every owner component, with its times
          calls, transfers, faults

vars == <<traffic, owner, write, read, cache, answer, now, past, calls,
          transfers, faults>>

Owner(e) == {owner[e]} \ {None}
Facts(e, named, owners) == [owners |-> owners, named |-> named, self |-> SelfOf[e]]

(* A collection's key: the cache is shared by all identities unless only   *)
(* the entities they own are asked for.                                    *)
Keys == [owned : BOOLEAN, of : Identities \cup {None}, limit : 1..MaxRows]
Listings == [ids : SUBSET Entities, at : 0..MaxTime]
Found == Entities \X SUBSET Identities
Owners == SUBSET (Identities \cup {None})

WhoSet == {CallerOf(sent) : sent \in Sent \ {None}}

(* since: all owners since the call arrived; found: the owners read; named *)
(* by the value read, which is then among seen, and shown if it is sent.   *)
Writes == [pc : {"scope", "apply", "applied", "refused"},
           gate : {"ws", "gql", "rest"}, by : WhoSet, options : Inbounds,
           envelope : Envelopes, entity : Entities, found : SUBSET Identities,
           since : Owners, called : Operations \cup {None}]
Reads == [pc : {"query", "fill", "value", "audience", "fallback", "done"},
          gate : {"ws", "gql"}, by : Identities, options : Projections,
          key : Keys \cup {None}, listing : Listings \cup {None},
          todo : SUBSET Entities, named : SUBSET Identities,
          found : SUBSET Identities, since : [Entities -> Owners],
          seen : SUBSET Found, shown : SUBSET Found]
Entries == [ids : SUBSET Entities, expiresAt : Nat]

Writing(c, pc) == write[c] # None /\ write[c].pc = pc
Reading(c, pc) == read[c] # None /\ read[c].pc = pc

TypeOK ==
    /\ traffic \in Traffics
    /\ owner \in [Entities -> Identities \cup {None}]
    /\ write \in [Clients -> Writes \cup {None}]
    /\ read \in [Clients -> Reads \cup {None}]
    /\ \A c \in Clients : \A pc \in {"value", "audience", "fallback"} :
         Reading(c, pc) => read[c].todo # {}
    /\ cache \in [Keys -> Entries \cup {None}]
    /\ answer # None => answer.params \in Results
    /\ now \in 0..MaxTime
    /\ past \subseteq (0..MaxTime) \X [Entities -> Identities \cup {None}]
    /\ {calls, transfers, faults} \subseteq Nat

Init ==
    /\ traffic \in Traffics
    /\ owner \in [Entities -> Identities]
    /\ write = [c \in Clients |-> None]
    /\ read = [c \in Clients |-> None]
    /\ cache = [k \in Keys |-> None]
    /\ answer = None
    /\ now = 0 /\ past = {<<0, owner>>}
    /\ calls = 0 /\ transfers = 0 /\ faults = 0

Ok == UNCHANGED faults
Fault == faults < MaxFaults[traffic] /\ faults' = faults + 1

Begins(kind) == traffic = kind /\ calls < MaxCalls[kind] /\ calls' = calls + 1
Free(c) == \/ write[c] = None /\ read[c] = None
           \/ \E pc \in {"applied", "refused"} : Writing(c, pc)
           \/ Reading(c, "done")

-----------------------------------------------------------------------------
(* applyMutation of any of the three services: the checks before the first *)
(* await, then the owner component is read, or the operation called.       *)
ReceiveWrite(c) ==
    /\ Begins("writes") /\ Free(c)
    /\ \E w \in Entities, g \in {"ws", "gql", "rest"}, sent \in Sent, b \in Inbounds :
       \E who \in Callers(g, sent), e \in {x \in Envelopes : x.target = SelfOf[w]} :
         write' = [write EXCEPT ![c] =
             [pc |-> IF AwaitsOwner(g, b, who, e) THEN "scope"
                     ELSE IF Admits(g, b, who, e, {}) THEN "apply" ELSE "refused",
              gate |-> g, by |-> who, options |-> b, envelope |-> e,
              entity |-> w, found |-> {}, since |-> {owner[w]}, called |-> None]]
    /\ UNCHANGED <<owner, read, cache, answer, now, past, transfers, faults, traffic>>

(* Mutant: the owner is not checked once it is read.                       *)
ReadScopeUnchecked(c) ==
    LET w == write[c]  found == Owner(w.entity) IN
    /\ Writing(c, "scope")
    /\ Ok /\ write' = [write EXCEPT ![c].pc = "apply", ![c].found = found]
    /\ UNCHANGED <<traffic, owner, read, cache, answer, now, past, calls, transfers>>

(* assertEntityScope goes on with the owner component; a failing read      *)
(* refuses the write.  Then hydrateComponent.                              *)
ReadScope(c) ==
    LET w == write[c]  found == Owner(w.entity) IN
    /\ Writing(c, "scope")
    /\ \/ Ok /\ write' = [write EXCEPT
                   ![c].pc = IF Admits(w.gate, w.options, w.by, w.envelope, found)
                             THEN "apply" ELSE "refused",
                   ![c].found = found]
       \/ Fault /\ write' = [write EXCEPT ![c].pc = "refused"]
    /\ UNCHANGED <<traffic, owner, read, cache, answer, now, past, calls, transfers>>

(* ComponentManager carries out ManagerOperation, after the owner may have *)
(* changed once more.                                                      *)
Apply(c) ==
    /\ Writing(c, "apply")
    /\ write' = [write EXCEPT ![c].pc = "applied",
         ![c].called = ManagerOperation(write[c].options, write[c].envelope)]
    /\ UNCHANGED <<traffic, owner, read, cache, answer, now, past, calls, transfers,
                   faults>>

-----------------------------------------------------------------------------
NewRead(g, i, p) ==
    [pc |-> "done", gate |-> g, by |-> i, options |-> p, key |-> None, listing |-> None,
     todo |-> {}, named |-> {}, found |-> {},
     since |-> [e \in Entities |-> {owner[e]}], seen |-> {}, shown |-> {}]

(* Mutant: the last entity is not noticed.                                 *)
ResolveOn(r, todo) ==
    [r EXCEPT !.todo = todo, !.pc = IF Readable(r.options) THEN "value" ELSE "done"]

(* resolveEntityComponents begins for the entities of todo.                *)
Resolve(r, todo) ==
    [r EXCEPT !.todo = todo,
              !.pc = IF todo # {} /\ Readable(r.options) THEN "value" ELSE "done"]

(* resolveEntityTarget.                                                    *)
RequestEntity(c) ==
    /\ Begins("snapshots") /\ Free(c)
    /\ \E g \in {"ws", "gql"}, i \in Identities, p \in Projections, e \in Entities :
         read' = [read EXCEPT ![c] = Resolve(NewRead(g, i, p), {e})]
    /\ UNCHANGED <<traffic, owner, write, cache, answer, now, past, transfers, faults>>

(* clampCollectionLimit; 0 stands for no limit given.                      *)
Clamped(limit) == IF limit = 0 \/ limit > MaxRows THEN MaxRows ELSE limit

(* Mutant: the key leaves out who asks.                                    *)
CacheKeyShared(i, owned, limit) ==
    [owned |-> owned, of |-> None, limit |-> Clamped(limit)]

(* collectionEntityIdCacheKey.                                             *)
CacheKey(i, owned, limit) ==
    [owned |-> owned, of |-> IF owned THEN i ELSE None, limit |-> Clamped(limit)]

(* The rows of a collection query under owners o: applyOwnedCollectionFilter *)
(* filters when there is a column to filter by, and the first ones are     *)
(* taken up to the limit.                                                  *)
Mine(o, i, key, e) ==
    \/ ~key.owned \/ OwnedBy = "none"
    \/ OwnedBy = "column" /\ o[e] = i
    \/ OwnedBy = "self" /\ SelfOf[e] = i
Rows(o, i, key) ==
    LET rows == {e \in Entities : Mine(o, i, key, e)}
    IN  {e \in rows : Cardinality({f \in rows : Rank[f] < Rank[e]}) < key.limit}

(* readCollectionEntityIdCache: an entry counts until it expires.          *)
Live(key) == cache[key] # None /\ cache[key].expiresAt > now

(* resolveCollectionTarget up to its first await: the ids are in the cache *)
(* or queried; an expired entry is deleted.  The cache is the WebSocket    *)
(* gateway's.                                                              *)
RequestCollection(c) ==
    /\ Begins("collections") /\ Free(c)
    /\ \E i \in Identities, p \in Listed, owned \in BOOLEAN,
          limit \in 0..(MaxRows + 1) :
         LET key == CacheKey(i, owned, limit)
             r == [NewRead("ws", i, p) EXCEPT !.key = key] IN
         IF Live(key)
         THEN /\ read' = [read EXCEPT ![c] =
                   Resolve([r EXCEPT !.listing = [ids |-> cache[key].ids, at |-> now]],
                           cache[key].ids)]
              /\ UNCHANGED cache
         ELSE /\ read' = [read EXCEPT ![c] = [r EXCEPT !.pc = "query"]]
              /\ cache' = [cache EXCEPT ![key] = None]
    /\ UNCHANGED <<traffic, owner, write, answer, now, past, transfers, faults>>

(* writeCollectionEntityIdCache: the time to live begins when the rows     *)
(* have come, and what was cached meanwhile is replaced.                   *)
Filled(key, ids) ==
    IF Ttl = 0 THEN cache
    ELSE [cache EXCEPT ![key] = [ids |-> ids, expiresAt |-> now + Ttl]]

(* The database evaluates the collection query.                            *)
QueryRows(c) ==
    LET r == read[c]  ids == Rows(owner, r.by, r.key) IN
    /\ Reading(c, "query")
    /\ read' = [read EXCEPT ![c].pc = "fill",
                            ![c].listing = [ids |-> ids, at |-> now]]
    /\ UNCHANGED <<traffic, owner, write, cache, answer, now, past, calls,
                   transfers, faults>>

(* The rows have come; the entities are resolved as for a snapshot.        *)
FillCache(c) ==
    LET r == read[c] IN
    /\ Reading(c, "fill")
    /\ cache' = Filled(r.key, r.listing.ids)
    /\ read' = [read EXCEPT ![c] = Resolve(r, r.listing.ids)]
    /\ UNCHANGED <<traffic, owner, write, answer, now, past, calls, transfers, faults>>

(* The entities are resolved one after the other: the one at hand.         *)
First(todo) == CHOOSE e \in todo : \A f \in todo : Rank[e] <= Rank[f]
Rest(todo) == todo \ {First(todo)}

(* The entity at hand is settled, and its component sent or left out.      *)
Settled(r, allowed) ==
    Resolve([r EXCEPT !.shown = IF allowed THEN @ \cup {<<First(r.todo), r.named>>}
                                ELSE @],
            Rest(r.todo))

(* canIdentityReceiveComponent once the owner component was found as found, *)
(* for the audience or instead of it.                                      *)
Decide(r, first, second) ==
    LET e == First(r.todo) IN
    Settled(r, Receives(r.gate, r.options, r.by, Facts(e, r.named, first),
                        Facts(e, r.named, second)))

(* getComponents: there may be no such component, or one that names        *)
(* somebody; then its audience is resolved.                                *)
ReadValue(c) ==
    LET r == read[c]  e == First(r.todo) IN
    /\ Reading(c, "value")
    /\ \/ read' = [read EXCEPT ![c] = Resolve(r, Rest(r.todo))]
       \/ \E named \in IF r.options.ownerField THEN {{i} : i \in Identities}
                        ELSE {{}} :
            LET q == [r EXCEPT !.named = named, !.found = {},
                               !.seen = @ \cup {<<e, named>>}] IN
            read' = [read EXCEPT ![c] =
                IF AudienceReadsOwner(r.options) THEN [q EXCEPT !.pc = "audience"]
                ELSE IF FallbackReadsOwner(r.options, Facts(e, named, {}))
                THEN [q EXCEPT !.pc = "fallback"]
                ELSE Decide(q, {}, {})]
    /\ UNCHANGED <<traffic, owner, write, cache, answer, now, past, calls,
                   transfers, faults>>

(* Mutant: whoever asks is taken for an owner.                             *)
ReadAudienceEarly(c) ==
    LET r == read[c] IN
    /\ Reading(c, "audience")
    /\ Ok /\ read' = [read EXCEPT ![c] = Decide(r, Identities, Identities)]
    /\ UNCHANGED <<traffic, owner, write, cache, answer, now, past, calls, transfers>>

(* resolveOwnerComponentRecipients; a read that fails finds no owner.      *)
ReadAudience(c) ==
    LET r == read[c]  e == First(r.todo) IN
    /\ Reading(c, "audience")
    /\ \E found \in {Owner(e), {}} :
         /\ IF found = Owner(e) THEN Ok ELSE Fault
         /\ read' = [read EXCEPT ![c] =
                IF FallbackReadsOwner(r.options, Facts(e, r.named, found))
                THEN [r EXCEPT !.pc = "fallback", !.found = found]
                ELSE Decide(r, found, {})]
    /\ UNCHANGED <<traffic, owner, write, cache, answer, now, past, calls, transfers>>

(* The owner component is read again, for want of recipients.              *)
ReadFallback(c) ==
    LET r == read[c]  e == First(r.todo) IN
    /\ Reading(c, "fallback")
    /\ \E found \in {Owner(e), {}} :
         /\ IF found = Owner(e) THEN Ok ELSE Fault
         /\ read' = [read EXCEPT ![c] = Decide(r, r.found, found)]
    /\ UNCHANGED <<traffic, owner, write, cache, answer, now, past, calls, transfers>>

-----------------------------------------------------------------------------
(* A query has its parameters normalized before its handler is called; it  *)
(* is refused when it is not known, not open to the gate, or its           *)
(* repository or handler is missing (open is FALSE).                       *)
Answered(g, d, raw, open) ==
    [gate |-> g, declared |-> d, raw |-> raw,
     params |-> IF open THEN Param(g, d, raw) ELSE Refused]
Asking == Begins("queries") /\ UNCHANGED <<traffic, owner, write, read, cache,
                                           now, past, transfers, faults>>

(* executeQuery of the WebSocket service.                                  *)
ExecuteWsQuery ==
    /\ Asking
    /\ \E d \in ParamDefs, raw \in RawParams, open \in BOOLEAN :
         answer' = Answered("ws", d, raw, open)

(* executeQuery of the GraphQL service, from its resolver.                 *)
ExecuteGqlQuery ==
    /\ Asking
    /\ \E d \in ParamDefs, raw \in RawParams, open \in BOOLEAN :
         answer' = Answered("gql", d, raw, open)

(* executeQuery of the REST service: postQuery sends the parameters in the *)
(* body, getQuery as texts in the URL.                                     *)
ExecuteRestQuery ==
    /\ Asking
    /\ \E g \in {"rest", "url"}, d \in ParamDefs, raw \in RawParams, open \in BOOLEAN :
         /\ g = "url" => OfTexts(raw)
         /\ answer' = Answered(g, d, raw, open)

-----------------------------------------------------------------------------
(* Some system changes or removes an owner component; nothing but a call   *)
(* that goes on, or the cache, can tell.                                   *)
Transfer ==
    /\ transfers < MaxTransfers /\ transfers' = transfers + 1
    /\ traffic = "collections" \/ \E c \in Clients : ~Free(c)
    /\ \E e \in Entities, i \in Identities \cup {None} :
         /\ i # owner[e]
         /\ owner' = [owner EXCEPT ![e] = i]
         /\ past' = past \cup {<<now, owner'>>}
         /\ write' = [c \in Clients |->
              IF (Writing(c, "scope") \/ Writing(c, "apply")) /\ write[c].entity = e
              THEN [write[c] EXCEPT !.since = @ \cup {i}] ELSE write[c]]
         /\ read' = [c \in Clients |->
              IF read[c] # None /\ ~Reading(c, "done")
              THEN [read[c] EXCEPT !.since[e] = @ \cup {i}] ELSE read[c]]
    /\ UNCHANGED <<traffic, cache, answer, now, calls, faults>>

(* Time passes; the answer of a collection query comes within MaxLatency.  *)
Tick ==
    /\ traffic = "collections" /\ now < MaxTime
    /\ \A c \in Clients : Reading(c, "fill") => now < read[c].listing.at + MaxLatency
    /\ now' = now + 1
    /\ past' = past \cup {<<now', owner>>}
    /\ UNCHANGED <<traffic, owner, write, read, cache, answer, calls, transfers, faults>>

Next ==
    \/ \E c \in Clients :
         \/ ReceiveWrite(c) \/ ReadScope(c) \/ Apply(c)
         \/ RequestEntity(c) \/ RequestCollection(c)
         \/ QueryRows(c) \/ FillCache(c)
         \/ ReadValue(c) \/ ReadAudience(c) \/ ReadFallback(c)
    \/ ExecuteWsQuery \/ ExecuteGqlQuery \/ ExecuteRestQuery
    \/ Transfer
    \/ Tick

Spec == Init /\ [][Next]_vars

-----------------------------------------------------------------------------
(* A write that needs the owner's word is applied only for somebody who    *)
(* was the owner at some moment since it arrived: the check may be stale   *)
(* when the operation runs, but never older than the call.                 *)
WritersOwned ==
    \A c \in Clients :
        Writing(c, "applied") /\ write[c].options.ownerComponent =>
            write[c].by.id \in write[c].since

(* The three services agree: what GraphQL applies or refuses, REST would   *)
(* apply or refuse on the same read of the owner, and the other way round; *)
(* what they apply, the WebSocket gateway would.  None upserts a command,  *)
(* which would compare it with what is stored.                             *)
WritesAlike ==
    \A c \in Clients :
        Writing(c, "applied") \/ (Writing(c, "refused") /\ faults = 0) =>
            LET w == write[c]
                admits(g) == Admits(g, w.options, w.by, w.envelope, w.found)
            IN  /\ admits("gql") <=> admits("rest")
                /\ admits("gql") => admits("ws")
                /\ admits(w.gate) <=> w.pc = "applied"
                /\ w.options.command => w.called # "upsert"

(* Who would be sent a component by its events under owner o; without a    *)
(* resolver of the application the events of a "city" reach nobody, while  *)
(* a snapshot falls back to the owners.                                    *)
Entitled(r, x, o) ==
    LET f == Facts(x[1], x[2], {o} \ {None})
        p == r.options
    IN  r.by \in LifecycleProjected(
            IF p.audience = "city" THEN [p EXCEPT !.audience = "none"] ELSE p,
            "updated", f)

(* A snapshot holds a component only if its reader was entitled to its     *)
(* events at some moment since the request arrived, however old the ids of *)
(* the collection are and however the reads of value and owner fall.       *)
SnapshotsWithinAudience ==
    \A c \in Clients : read[c] # None =>
        \A x \in read[c].shown : \E o \in read[c].since[x[1]] :
            Entitled(read[c], x, o)

(* A reader who was entitled to it all the while is not refused what the   *)
(* value lookup found.                                                     *)
EntitledAreServed ==
    \A c \in Clients : Reading(c, "done") /\ faults = 0 =>
        \A x \in read[c].seen :
            (\A o \in read[c].since[x[1]] : Entitled(read[c], x, o))
            => x \in read[c].shown

(* What a collection lists is what the client's own query would have       *)
(* listed just then or less than the time to live, plus the time such a    *)
(* query takes, before: no entry outlives that, or serves another's key.   *)
CollectionsAreRecent ==
    \A c \in Clients : read[c] # None /\ read[c].listing # None =>
        LET r == read[c] IN
        \E x \in past : /\ x[1] <= r.listing.at
                        /\ \/ r.listing.at = x[1]
                           \/ r.listing.at < x[1] + Ttl + MaxLatency
                        /\ r.listing.ids = Rows(x[2], r.by, r.key)

(* What a handler is given is what the query declares, or the default: of  *)
(* the type, within range and values, there if it is required; only a null *)
(* inside an array passes unseen.                                          *)
HandlersGetDeclared ==
    answer # None /\ answer.params # Refused /\ answer.params # answer.declared.default =>
        LET d == answer.declared  v == answer.params IN
        /\ d.required => v.form # "absent"
        /\ v.form = "array" => d.array
        /\ v.form = "scalar" => ~d.array
        /\ \A k \in DOMAIN v.items :
             \/ v.items[k].t = d.type /\ InRange(d, v.items[k])
             \/ v.items[k].t = "null" /\ d.array

(* A parameter that the WebSocket gateway accepts means the same to the    *)
(* others, and one of texts that is accepted in the body of a REST call    *)
(* means the same in its URL, where a text may come as a list of one too.  *)
QueriesAlike ==
    answer # None =>
        LET d == answer.declared  raw == answer.raw IN
        /\ Param("gql", d, raw) = Param("ws", d, raw)
        /\ Param("ws", d, raw) # Refused => Param("rest", d, raw) = Param("ws", d, raw)
        /\ OfTexts(raw) /\ Param("rest", d, raw) # Refused =>
             /\ Param("url", d, raw) = Param("rest", d, raw)
             /\ raw.form = "scalar" =>
                  Param("url", d, [raw EXCEPT !.form = "array"]) = Param("rest", d, raw)
=============================================================================
