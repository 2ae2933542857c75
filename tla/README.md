# A verification of EBCA

EBCA is a TypeScript framework in which an *entity* is a set of *components*,
and systems react to lifecycle events (`added`, `updated`, `removed`) of those
components. `ComponentManager` stores components in three places at once: a Redis
hash per entity (the cache, and the only store of components that are not
persistent), a JSONB map in the entity's PostgreSQL row, and ordinary columns of
that row into which single properties are *projected*. Every change is then
published on NATS. Commands that must be handled in order travel through a
JetStream stream, and an analytics sink writes all events to a table.

No lock and, for single operations, no transaction spans these stores: every
`await` is a place where another caller, or a failure, gets in between. That is
what this project is about. The modules follow the code request by request; TLC
explores them on small instances; the TLA+ proof system proves the safety
properties that matter most for any number of callers, components, calls and
failures. Paths below are relative to the repository; `core` is
`packages/core/src`.

## 1. Inventory

| Component | State it keeps | Operations | Talks to | What is hard | What makes it correct |
|---|---|---|---|---|---|
| `ComponentManager`, single operations (`core/component.manager.ts`) | none of its own; the entity's Redis hash, the row, the event stream | `getComponent`, `hasComponent`, `addComponent`, `updateComponent`, `upsertComponent`, `removeComponent`, `tryUpdateComponentWithProjectionGuard` | Redis, `PersistenceManager`, NATS | up to eight awaited requests per call; the cache is written before the database (and back from it by reads); errors of the columns and of removals are swallowed, others rethrown | one creation is announced once; no event before the commit of its value; a guard has one winner; an equal upsert is silent; undisturbed callers see one map |
| `ComponentManager`, batches | as above | `getComponents`, `hasComponents`, `addComponents`, `updateComponents`, `upsertComponents`, `syncPersistedComponentLifecycleBatch` | as above, in the opposite order: database, then Redis, then events | a gap between transaction and cache; a lookup that mixes one `hGetAll` with several `getComponent` | a batch is one change; components updated together are never seen apart |
| `PersistenceManager` (`core/persistence.manager.ts`) | the entity's row | load and save of columns and JSONB, clear, guarded update, component set in a transaction | PostgreSQL through TypeORM | the JSONB map is read and written back whole; clearing a NOT NULL column | columns follow the component; the guarded update is one atomic statement |
| Ordered ingress (`core/ordered-ingress.service.ts`) | JetStream stream and durable consumers, consumer loops | publish, pull, replay, acknowledge, redeliver, give up, stop | JetStream, NATS request/reply, handlers of any service | several instances pull from one consumer; lost answers, slow and dying handlers; the first of several repliers acknowledges | order within a partition; acknowledged means handled; every command is settled |
| Analytics sink (`packages/analytics-sink/src/ebca-analytics-sink.system.ts`) | event buffer, the flush in flight | receive, timer, flush, put back, shutdown drain | NATS, a table | events arrive while a save is in flight; saves fail; shutdown during a flush | stored in order, nothing lost on drain, everything stored in the end |
| Command components (`core/component.manager.ts`, `emitDelayed`, `core/delayed-stream.bootstrap.ts`) | none: a command is never stored | add (delayed, ordered or plain), update, remove | Redis (`hDel`), ordered ingress, a JetStream stream with schedules, NATS | three routes chosen by time and by the rules the process has loaded; a failed publication is repeated by the caller | one route per command; commands of one partition keep the order of their calls; what was accepted is handled |
| Decorators and topics (`core/decorators`, `core/ebca.helpers.ts`) | metadata registries filled at load time | register, look up, permission checks | all others | registration order | lookups find what was declared |
| WebSocket gateway, sessions (`packages/ws-gateway/src/ebca-ws.gateway.ts`) | sockets, rooms, identities | connect, authenticate, hello, request, mutate, disconnect | auth resolver, the services below | the token is resolved asynchronously while the client sends or leaves | no identity outlives its socket; a room has only its entity's clients |
| WebSocket gateway, services (`packages/ws-gateway/src/services`) | a collection cache with a TTL | read, mutate, project events to an audience | `ComponentManager` | three independent implementations of the same permission rules (WS, GraphQL, REST) | nobody is sent what he may not read; nobody writes what he may not write |
| GraphQL gateway, subscriptions (`packages/gql-gateway/src/services/ebca-gql-subscription-registry.service.ts`) | a queue, a pending reader and a filter per subscription | subscribe, publish, next, return, throw | the projection service | bounded queue, a reader that waits, close at any time | an entitled event is delivered in order or dropped for the limit, never after the close |
| GraphQL gateway, services (`packages/gql-gateway/src`) | as the WebSocket services | request, mutate, query, project | `ComponentManager`, repositories | a copy of the same rules, with differences | as above |
| REST gateway (`packages/rest-gateway/src`) | none | mutate, query (POST, or GET with parameters in the URL) | `ComponentManager`, repositories | texts of a URL become typed values | handlers get what the query declares |
| Healthcheck (`packages/healthcheck/src/healthcheck.service.ts`) | connections opened for probes | probe database, Redis and NATS against a timeout | all three | a probe answers after its timeout | the report is in time; nothing is left open |
| CLI and contract generators (`packages/cli/src`) | none between runs | read metadata and sources, render reports and contracts | file system | reachability over events and components | reported edges exist |
| Counter example (`examples/counter/src`) | a counter component | increment | `ComponentManager` | read-modify-write in two calls | an application matter |

How they interact. Systems and gateways call `ComponentManager`, which awaits
Redis, `PersistenceManager` and NATS. Lifecycle events on NATS reach the systems
that subscribe by topic, the gateways' projection services and the analytics
sink. Commands with an ordering key are diverted by `ComponentManager` to
`EbcaOrderedIngressService.publishIfConfigured`; its consumer loops replay them
as NATS requests on the original topic, where ordinary handlers pick them up.
Everything runs on single-threaded event loops, in any number of processes.

The hazards of this code, each at its line, with the property that would catch
it or the reason why none does yet, are listed in `PROJECT.json`.

## 2. The modules

    PersistenceManager          the row, one operator per SQL statement
      ComponentManager          concurrent single operations
        ComponentManagerProofs  theorems
        MCComponentManager      instances; what the documentation claims
        ComponentBatch          concurrent batches on top of them
          Workloads             three workloads under which more is true
            ComponentBatchProofs  theorems on batches and workloads
            MCWorkloads
          ComponentRefinement   mapping to ComponentStore
            ComponentRefinementProofs  theorems: the managers implement it
            MCComponentRefinement
    ComponentStore              abstract specification: a map and its events
    OrderedIngress              stream, consumers, loops, handlers
      MCOrderedIngress        one topic with two subscribers
      Commands                calls that add commands, life of the instances
        CommandsProofs        theorems
        MCCommands
    AnalyticsSink               buffer, flush, shutdown
      AnalyticsSinkProofs       theorems
      MCAnalyticsSink
    GqlSubscriptions            projection, queues, waiting readers, close
      GqlSubscriptionsProofs    theorems
      MCGqlSubscriptions
    WsSessions                  sockets, rooms, requests, projection to rooms
      WsSessionsProofs          theorems
      MCWsSessions
    GatewayRules                who may read, write and ask: three copies
      Gateways                  the calls that apply these rules
        GatewaysProofs          theorems
        MCGateways

### PersistenceManager

One entity. `exists`, `components` and `columns` are its row, its JSONB map and
its projected columns. A statement is atomic; where the code reads, composes in
memory and writes back, these are two statements, so that another caller's
statement may come in between (`saveComponentToJsonb`,
`removeComponentFromJsonb`). An UPDATE of a missing row touches nothing, an
INSERT gives unnamed columns their DEFAULT and fails on an existing id or on a
NULL in a NOT NULL column. `ClearedKey` is the code's search for a safe reset
value: NULL, else the DEFAULT, else the column is left alone.
`FromColumn` is the instance `loadPersistentProperties` rebuilds from the column:
its other properties are those of `new componentClass()`.

A component value is a record: `key`, the projected property, and `body`, all the
rest. Timestamps are abstracted; no decision reads them. The entity object a
caller passes in is a fresh one with its id, so an INSERT starts from an empty
map.

### ComponentManager

A call of caller `p` is the record `call[p]`: the operation, its arguments, the
*request it issues next* (`pc`), and what it has at hand. One action is one
request as the server executes it, together with the synchronous code up to the
next `await`. Where several operations await the same function, they share its
actions, and `AfterGet`, `AfterAbsent`, `AfterColumns`, `AfterCacheWrite`,
`AfterRemovedColumns` say how each operation goes on.

| Code | Actions |
|---|---|
| `hasComponent` | `HasRedis`, `HasJsonb`, `HasWarm`, `HasColumns` |
| `getComponent` | `GetRedis`, `GetJsonb`, `GetColumns`, `GetWarm` (the write-back) |
| `addComponent` | `hasComponent`, `AddClaim` (hSetNX), `Save`, `Emit` |
| `updateComponent` | `getComponent`, `UpdateSet` (hSet), `Save`, `Emit` |
| `upsertComponent` | `getComponent`, `UpsertCheck`, then the whole of add or update |
| `removeComponent` | `getComponent`, `RemoveDel`, `RemoveColumns`, `RemoveFind`, `RemoveJsonb`, `Emit` |
| `tryUpdateComponentWithProjectionGuard` | `getComponent`, `GuardWrite`, `GuardSet`, `Emit` |
| `savePersistentProperties`, `saveComponentToJsonb` | `ColumnsFind/Update/Insert`, `JsonbFind/Update/Insert` |

Failures. A request whose error the code swallows (reads of the database, saves
and clears of columns, the database part of a removal) has a `Fault` disjunct in
its own action, with the code's fallback. A request whose error is rethrown, and a
crash of the process, is `Abort`: the call ends where it is. A request that took
effect although its answer was lost is the request followed by `Abort`.
`MaxFaults` bounds them all.

`epoch` and `committed` are history variables, read by properties only.

### ComponentBatch

Adds batches to the same callers. A batch looks everything up (`BatchCache` is
one `hGetAll`, `BatchFetch` runs a nested `getComponent` of module
`ComponentManager`, `BatchNames` and `BatchColumns` belong to `hasComponents`,
`BatchCheck` to `upsertComponents`), is refused or goes on (`BatchRefused`), then
runs one transaction (`BatchFind`, `BatchUpdate`, `BatchInsert`), one hSet of all
fields (`BatchHSet`) and publishes its events (`BatchEmit`).

### Workloads

Of some properties the code is right only as long as its callers keep to a pattern
of use. `Workloads` restricts what callers invoke (`Follows`, `BatchFollows`) and
where they start, and leaves everything else, races and failures included, as it is:

* "claim": every caller of `tryUpdateComponentWithProjectionGuard` expects the same
  value of the column and writes another one.
* "upsert": callers upsert, singly or in batches, what is stored already. Stored
  means that `getComponent` returns it and, for a persistent component, that the
  JSONB map has it: what the DEFAULT of a column alone makes appear is not stored.
  No request fails; a failed lookup makes `upsertComponent` add anew.
* "pairs": all components are cached with one common key and are only ever updated
  together, to another common key.

### ComponentStore and ComponentRefinement

`ComponentStore` is what one caller at a time may rely on: a map in which a
change is made together with the list of events that tell it (`ADDED` what was
absent, `UPDATED` what was there, `REMOVED` what the event carries), and these
are published, in order and once, before the next change. `ComponentRefinement`
maps the managers to it: the abstract value of a component is what an
undisturbed read would return (`Effective`), a single call makes its change with
its first write to Redis, a batch with its hSet although the database is ahead.
`TurnsSpec` has calls and batches but neither failures nor aborted ones, and starts
with a warm cache or, as after a restart of Redis, an empty one.

### OrderedIngress

Three parties. The *publisher* stores a command, a component object, under its
`commandId`: one that the caller has set (`GivenId`; the GraphQL and REST gateways
draw one), or a random one that `publishIfConfigured` writes to the component before
it publishes (`CommandId`, `commandId`, `drawn`). The answer may be lost, also after
the command was stored, and the same object published again; the stream drops a
message whose id it has `seen` (`Store`). An id is the number of its draw: random ids
are never drawn twice. The *JetStream server* keeps each
partition's messages in order and hands one message out at a time (`max_ack_pending`
is 1), again when `ack_wait` runs out, at most `MaxDeliver` times. The *consumer
loops* of all instances pull, replay the command as a request to its original
topic, and acknowledge on the first reply. `Subscribers` are the queue groups of
the topic, each of which gets the replay once. A reply may come after the loop
stopped waiting; an acknowledgement may be lost; a handler may die.

### Commands

Extends `OrderedIngress`, whose steps it takes as they are (`ServePartition`,
`ServeReply`, `LoseHandler`), by what comes before and around it:

| Code | Actions |
|---|---|
| `checkComponentPermissions` of a command | `Forbid` |
| `addComponent` and others of a command: `hDel`, then one of the routes | `ClearField` |
| `emitDelayed`; the schedule of the delayed stream | `EmitDelayed`; `Elapse`, `FireSchedule` |
| `publishIfConfigured` | `Refuse` (blank key), `PublishCommand` |
| plain events | `EmitAdded` (no rule is known), `EmitUpdated`, `EmitSucceeded`, `HandleDirect` |
| `onModuleInit` | `RegisterRules`, `EnsureFails`, `StartConsumerLoops` |
| `onApplicationShutdown` | `BeginShutdown`, `FinishShutdown` |
| the process dies | `Crash` |

`ResolveRule`, `RulesByStream`, `Consumed` and `ResolvePartition` are the
configuration as the service computes it: defaults, the last rule of a stream,
partitions as the remainder of a hash. `request[c]` says what the call for `c`
asks, and whether its process has loaded the handler's class: rules are registered by decorators, so
that one that has not emits the command as a plain event. `before[c]` is a history
variable: the commands whose calls had returned when the call for `c` began.

Two assumptions are separate because the code does not check them:
`CommandsAssumption` (what `EbcaPattern` lets a rule be; a command's partition is that of
its key) and `RulesAgree` (rules that share a stream are of one ingress with one
number of partitions; of others only the last gets consumers).

### AnalyticsSink

The class runs on one JavaScript thread, so an action is the synchronous code run
when an event arrives, the timer fires, a save settles, or the application shuts
down. Events are numbered in order of arrival. A failed save may have been
committed; the retry then finds the ids that its objects carry and stores nothing
twice.

### GqlSubscriptions

A lifecycle event reaches `EbcaGqlProjectorController`, which awaits its audience
and then publishes it to the registry. For a component that the world may see
nothing is really awaited, so `HandleLifecycle` publishes at once; for an owned one
the owner component is read (`ResolveOwner`), a failed read counting as no owner,
and `PublishOwned` follows when the handler resumes: reads are answered in any
order and the owner may change meanwhile (`Transfer`). `Publish` is the loop of
`publish` with `push`: a waiting reader is answered, otherwise the event is queued
and a full queue gives up its oldest. `NextEvent` and `Close` are the iterator.

Assumed: events concern one entity and components that are exposed, so a filter is
a set of components; the owner component names one identity; there are no
projection policies and audience resolvers, which the application writes; the
GraphQL server awaits one `next()` before the next one; the limit is positive
(nothing validates it; with 0 one event is kept). Components with an `ownerField` or
of the identity's own entity are published like public ones, without an awaited
read, with recipients taken from the event; `CanReceive` then does what it does for
`PublishOwned`.

`received`, `offered`, `shed` and `owners` are history variables: what a subscriber
got, what it was entitled to, what its full queue gave up, and who was owner since
an event arrived.

### WsSessions

`EbcaWsGatewayBase` with its projector. A socket is open from `handleConnection`
on, although its token is still being resolved (`resolving`) and nobody listens to
it (`bound`). `ResolveIdentity`, `ResolveRefused` and `ResolveFails` are the three
outcomes of the application's auth adapter. `HandleHello` joins the room of the
socket's own identity. `HandleEnvelope` is the synchronous part of the three request
handlers and `Settle` what follows the await of the service: answers come in any
order, also when the socket has left. `HandleEbcaLifecycle`, `ResolveOwner` and
`EmitProjection` carry an event to all sockets or to the room of the owner, who may
change in between (`Transfer`). Socket.IO is external: it keeps the rooms, empties
them when a socket closes, and delivers to open sockets in order.

`client` is a history variable (what the client of an open socket has seen), as are
`leftEarly` and the `owners` of an event.

### GatewayRules and Gateways

`GatewayRules` has no variables. It holds the decisions of the three gateways as
operators over the options a component or query declares, each service's copy on
its own: audience and snapshot (`CanIdentityReceive`, `GqlCanIdentityReceive`),
callers and their roles, writes (`WsAdmits`, `GqlAdmits`, `RestAdmits`) and query
parameters (`WsParam`, `GqlParam`, `RestParam`, `UrlParam`).

`Gateways` runs them. A write is received, awaits the owner component if there is
one, and is then applied (`ReceiveWrite`, `ReadScope`, `Apply`). A snapshot reads a
value, then the owner, then for want of recipients the owner again (`ReadValue`,
`ReadAudience`, `ReadFallback`), for one entity or for a collection whose ids come
from the cache or from a query that takes its time (`RequestCollection`,
`QueryRows`, `FillCache`). A query has its parameters normalised before its handler
runs. In between owners change (`Transfer`), reads fail, and time passes (`Tick`).
`traffic` picks at the start which kind of call an execution is about: calls of
different kinds share nothing but the owners.

Where the copies differ, the model differs too: the WebSocket gateway ignores
`inbound.fields`, which the others require (`packages/gql-gateway/README.md:101`
says the three are alike), and lets a component name its own owner; REST refuses a
blank identity; REST takes an empty text for the number 0; a snapshot of an audience
that only an application's resolver can name falls back to the owners. `{}` stands
for lifecycle kinds that are not declared. What a policy or resolver of the application decides is an
option of the component (`denied`), or, for audiences, left out.

## 3. What the runs check

| Run | Question | Result |
|---|---|---|
| `cm_concurrent` | Two callers, three calls, one failure or crash, from every consistent initial state. Is a creation announced once per life (`AnnouncedOnce`), and does no event precede the commit of its value (`EventsAreDurable`)? | holds, 2.9 million states |
| `cm_turns` | One caller, one call or batch from every consistent state with a warm or an empty cache: do the managers implement `ComponentStore` (`ImplementsStore`), and do Redis, JSONB and columns agree afterwards (`StoresAgreeWhenQuiet`)? | holds, 830 thousand states |
| `cm_workloads` | Three callers. "claim": all guard on the same column value; one wins (`ClaimHasOneWinner`). "upsert": all upsert stored values; nothing is written or published (`EqualUpsertIsSilent`). "pairs": two components always updated together, with one failure; no reader of the cached pair ever sees them apart (`BatchesStayWhole`) | holds, 420 thousand states |
| `ingress` | Two calls with five combinations of requests, one of the commands with an id of its caller, two instances that start, stop, crash and fail to start, two deliveries, two faults. Does a partition keep its order (`NoOvertaking`) and that of the calls (`CallOrderKept`), is one command of it handled at a time (`OneAtATime`), is a published command stored exactly once (`PublishedOnce`) and acknowledged after a handler ran (`AckedWasHandled`), and is whatever was accepted handled or given up in the end, whichever its route (`EventuallyHandled`, under fairness)? | holds, 180 thousand states |
| `sink` | Seven events, batch size two, cap three, three failed saves: `StoredInOrder`, `DrainedIsComplete`, and `EventuallyStored` under fairness | holds |
| `gql_subscriptions` | Two subscribers, a public and an owned component, three events, a queue of two, one transfer. Is everything entitled delivered in the order of publication, except what the limit gave up (`InOrderWithoutGaps`), is only what is stale given up (`OnlyStaleIsShed`), does a reader wait only while nothing is queued (`NoReaderForgotten`), and do owned events reach only owners (`OnlyOwnersHear`)? | holds, 310 thousand states |
| `ws_sessions` | Two sockets of one identity, one of them with another's token in the header that does not count; two events or requests, one transfer, one fault. Do rooms and maps follow the sockets (`RoomsAreTheirs`, `MapsFollowSockets`), do owned events reach the owners and nobody else (`OnlyOwnersAreSent`, `JoinedOwnersMissNothing`) and world events everybody in order (`WorldInOrder`), is each asker told what became of its request (`AskersAreTold`), and is every socket heard or closed in the end (`EveryoneIsSettled`, under fairness)? | holds, 380 thousand states |
| `gateways` | Every combination of declared options, caller and envelope or parameter, one change of owner between the steps of a call. Is an ownership check never older than the call (`WritersOwned`), do the three copies agree as far as they should (`WritesAlike`, `QueriesAlike`), do snapshots hold what events would have told and no more (`SnapshotsWithinAudience`, `EntitledAreServed`), are cached collections recent and the asker's own (`CollectionsAreRecent`), do query handlers get what they declare (`HandlersGetDeclared`)? | holds, 1.4 million states |
| `cm_source_of_truth` | `JsonbIsSourceOfTruth` | violated, finding 1 |
| `cm_upsert_retry` | `UpsertLeavesValueStored` | violated, finding 2 |
| `sink_cap` | `BufferWithinCap` | violated, finding 3 |
| `ingress_ack` | `AcknowledgedAfterHandler` | violated, finding 4 |

Deadlock is not checked: callers, publishers and event sources are bounded, and a
system in which every call has returned has nothing left to do.

Every property of a passing run has a mutant in `PROJECT.json`: a definition of a
plausible bug (an `hSet` in place of `hSetNX`, an event before the JSONB
statement, a guard without its WHERE, fields set one by one, a failed batch not
put back, ...) under which TLC refutes it. The mutants stand in the
modules, before the definition they replace, and are used nowhere else.

### Bounds, and why they are enough

* Components. `cm_concurrent` has one that is persistent with a column and one
  with a column only; `cm_turns` adds one that is persistent without a column.
  Redis-only components take the shortest of these paths: no request of theirs is
  missing from the others. Two components are what the whole-map write of the
  JSONB map needs to lose one.
* Values. Two keys distinguish an equal from a different value and a matching from
  a failing guard; the second body (in `cm_turns`) tells a component that was
  rebuilt from its column from the original.
* Callers and calls. Two callers with three calls give every pair of racing
  operations and one before or after. In `cm_concurrent` the operations are
  `upsert`, `remove` and `guard`: an upsert ends as a complete `addComponent` or
  `updateComponent`, so calls of these two add no step of their own.
  `cm_workloads` has three callers, so that a winner has two rivals.
* `cm_turns` makes one call because it starts from *every* state in which the
  stores agree and shows that they agree again.
  The theorem about the refinement starts where the run does and lets the caller go
  on for ever.
* `gql_subscriptions`: three events overflow a queue of two; one transfer lets every
  pair of two owners and of two reads answered out of order occur; one subscriber
  filters, one does not, and each may be the owner or not.
* `ingress`: two commands of one partition are the least that can overtake; two
  instances share its consumer. The five combinations let an ordered command meet
  another, a delayed one and an update; the other two have a removal, a process
  without the rule, a forbidden call and a blank key. Two faults are enough to lose
  both deliveries of a command, so that it is given up while another waits, and to
  lose two answers of one publication. The commands use one of the two partitions:
  nothing in the code relates two partitions, and the theorems hold for any number.
  One subscriber: with a second one the first reply acknowledges (finding 4), and
  `OneAtATime` is not true.
* `ws_sessions`: two sockets in one room, so that one may leave while the other must
  still be served; two pieces of work, so that two may be answered out of order.
* `gateways`: options are independent switches, so that all of their combinations
  are few; two entities in a collection, one of them the reader's own; two
  identities, of which each may be owner and reader; a query and its cache entry with
  a life of one tick each, within two ticks.
* Failures. One suffices to separate any two stores; the sink has three, so that
  a retry may fail too. In `ingress` the two faults are spent on publications, a
  handler, a replay, an acknowledgement, a start, a crash or a plain message.
* Symmetry of the callers is used where no temporal property is checked.

### Fairness

Safety runs assume none. `ingress` (`FairCommandSpec`): an idle loop keeps pulling
(`consumePartition` is an endless loop whose body catches every error), a
replay does not wait for ever (the request has a timeout), `ack_wait` expires (the
server's timer), a handler ends, with a result or an error; an instance that went
down is started again and a shutdown ends, as a rolling restart has it; time passes
and the delayed stream and the subscribers do their work. No fairness is assumed of
calls or of faults. `sink` (`FairSpec`): the interval of `onModuleInit` keeps firing
while the application runs, and a save settles, whichever way. `ws_sessions`
(`FairSpec`): the promise of the auth adapter settles.

## 4. Findings

Each is a disagreement between the code and a sentence of the repository, shown
by a run with a counterexample.

1. *A read can undo an update in the cache for good.* `getComponent` reads Redis
   (cold), then the database, then writes what it read back to Redis without
   looking (`core/component.manager.ts:1147`). An update that runs in between is
   overwritten; nothing failed, and every later read returns the old value, while
   `core/bases/base.entity.ts:21` calls the JSONB map the source of truth.
2. *A retried upsert does not repair a failed save.* `updateComponent` writes Redis
   before JSONB. If the JSONB save throws, the retry with `upsertComponent` finds
   the value in Redis equal and only asks whether *some* snapshot exists
   (`core/component.manager.ts:400`).
3. *The hard cap of the sink is soft.* The buffer is emptied into a save, refilled
   up to the cap while the save runs, and the failed batch is put back in front
   (`ebca-analytics-sink.system.ts:200`); `packages/analytics-sink/README.md:78`
   calls `maxBufferSize` a hard cap during outages.
4. *Any subscriber acknowledges.* The replay is a NATS request and takes the first
   reply (`core/ordered-ingress.service.ts:387`). With a second subscriber of the
   topic, such as the analytics sink on `ebca.>`, a command is acknowledged before
   its handler ran; `packages/core/README.md:77` says it is acknowledged only
   after the handler completes.

## 5. What is proved

The theorems hold for all values of the constants that satisfy
`StorageAssumption` and `CallerAssumption` (`SinkAssumption` for the sink,
`GqlAssumption` for the subscriptions, `IngressAssumption` and `CommandsAssumption`
for commands, `WsAssumption` for the sessions, `RulesAssumption` and
`GatewayAssumption` for the gateways), that is for any components, storage kinds, callers, and bounds on calls and failures.
Two theorems have a hypothesis of their own, which they state: `OneHandlerAtATime`
and the two about the refinement.

`ComponentManagerProofs`:

* `TypeCorrect`: `Spec => []TypeOK`. `TypeOK` is inductive because it contains
  `CallOK`: which operation a request belongs to and what is at hand then (an
  `hSet` of a write-back never has a Null to write, a save always has a value).
  One lemma per group of actions.
* `DurableEvents`: `Spec => []EventsAreDurable`. The invariant alone is not
  inductive: a call that is about to publish must be known to have stored its
  value. `DurableInv` makes the promise of the calls too: whoever is at
  `guard.set`, or at `emit` with something else than a removal, has its value in
  `committed` (if the component is persistent). `EarlyStep` shows that the steps a
  call makes before it wrote anything lead neither to `emit` nor into a save.
* `OneAnnouncement`: `Spec => []AnnouncedOnce`. In `ClaimInv` an `addComponent`
  past its `hSetNX`, and an `ADDED` event, hold a *claim* on one life of the
  component, its epoch; no two of them hold the same; and a claim on the current
  life means that the Redis field is set, so that the next `hSetNX` fails. That
  last part is inductive because no step empties a field except `RemoveDel`,
  which begins a new life (`KeepsClaims`).

`ComponentBatchProofs`, for batches of any size next to the single operations:

* `BatchTypeCorrect`. `BatchTypeOK` is not inductive; `BatchInv` adds `BatchOK`, what a
  batch has at hand at each request (`Ready`: no duplicates, nothing left to look
  up that is not listed; `Fits`: which operation issues the request, and that a batch
  that writes was not refused), and `Paired`: a single call runs next to a batch
  only as the `getComponent` the batch awaits. `StepContinues` is what this needs to know of
  every step of `ComponentManager`, whose lemmas serve here unchanged.
* `DurableBatches` (`EventsAreDurable`, now with batches): `BatchStored` says that a
  batch past its transaction has the values of its persistent components in `committed`.
* `OneWinner` (`ClaimHasOneWinner`). `Claiming`: the column of a component that was
  won is no longer `ClaimedKey`, so that no further guard matches; and winners and
  events together concern each component once. The bound on their number follows
  by cardinality (`ClaimCounted`).
* `SilentUpserts` (`EqualUpsertIsSilent`). `Upserting`: what each component is worth
  (`Effective`) never changes, also when reads warm the cache; every call and batch
  that found something found that; and a persistent component is always in JSONB, so
  that a comparison that finds the values equal finds the snapshot too.
* `WholeBatches` (`BatchesStayWhole`). `Pairing`: Redis is whole, the database is
  whole, each batch carries one key. That is inductive because every transaction and
  every `hSet` replaces all of the set; two updaters may still leave Redis and the
  database with different keys, and the property does not say otherwise.

`ComponentRefinementProofs` shows, for one caller (`Undisturbed`) and any number of
its calls and batches:

* `TurnsImplementStore`: `TurnsSpec => ImplementsStore`. Initial states map to initial
  states; each step is a `Change`, a `Publish` or a stutter of `ComponentStore`
  (`StoreChanges`, `StorePublishes`, `StoreStutters`), one lemma per request.
* `StoresAgreeAfterTurns`: `TurnsSpec => []StoresAgreeWhenQuiet`.

Both rest on `TurnInv`. Between calls the stores are `Settled`. During a call it says
what the call *knows* of its component at each request (`Knows`): that a read found
Redis empty, that what it found is what an undisturbed read would return, which row
was there at the `findOne`, that the snapshot of the JSONB map is still the map. In between
a first write and the last only the call's own component is unsettled; what is left of
its agreement is `Placed`. A batch knows that what it found is what its components are
worth (`Prepared`) until its transaction, and then that Redis will agree once its
`hSet` is done. That `Change` tells truly what was there before follows from this alone.

The hypotheses of `Undisturbed` are needed. With two callers or a failed request the
managers do not implement a map (findings 1 and 2). A column that is NOT NULL or has a
DEFAULT makes a component that was removed, or never added, reappear with the column's
value: `loadPersistentProperties` cannot tell a default from a value.

`AnalyticsSinkProofs`: `SinkTypes`, `OrderKept` and `DrainLosesNothing` from `SinkInv`: every
accepted event is in the table, in the batch in flight or in the buffer; both are
in the order of receipt and the batch comes before the buffer; a drained sink has
neither. Order alone would not be inductive: that a batch can be stored without
overtaking needs to know that everything earlier is stored or in that batch. The
lemmas on sequences (`ElementsOf`, `AppendLast`, `PutBack`) are stated once.

`GqlSubscriptionsProofs`: `SubscriptionTypes` (which includes that no queue exceeds
its limit), `NoReaderIsForgotten`, which is inductive by itself, and `OwnersOnly`,
which is not: `AudienceInv` adds that the present owner belongs to the owners of
every event whose owner is still being read, and so does every owner that was read
and not yet used. `NothingIsLost` (`InOrderWithoutGaps`) and `ShedsTheStale`
(`OnlyStaleIsShed`) rest on `LineInv`: the queue of a subscription is the end of what
it was offered, everything before that end was either received, in order, or shed
(`FrontIsSettled`, `KeepsOrder`), and an event whose owner is still awaited is on no
line yet and awaited once (`AwaitedIsNew`), so that no event is published twice. Each
step of a line, publishing to a reader, to a queue with room or to a full one, and
`next()`, is a lemma about sequences (`LineDelivers`, `LineQueues`, `LineSheds`,
`LinePops`).

`CommandsProofs` is about the ordered ingress together with the calls and restarts
around it, for any number of instances, subscribers, partitions and faults. One
inductive invariant, `Inv`, the conjunction of `CommandInv` and `Identified`, carries
all theorems:

* `TypeCorrect` (`CommandTypeOK`), `AcknowledgedAfterHandling` (`AckedWasHandled`):
  here `Keyed` says that a stream holds only commands of its partition, so that a
  command is in one stream at most, and `Pending` that a message being delivered is
  the one at the consumer's place.
* `PublishedExactlyOnce` (`PublishedOnce`): nothing in `Store` says that a command is
  stored once; it compares ids. `Identified` relates the two: no two components carry
  one id, and the stream has seen the id a component carries just when the command is
  in it. It is inductive because `publishIfConfigured` writes the id to the component
  whether the publication succeeds or not (`PublishIds`), and because a new id is above
  all that were drawn before (`KnownId`).
* `PartitionsInOrder` (`NoOvertaking`): not inductive alone. `Progress` says that
  everything before the consumer's place is settled, and `Reached` that replays,
  handlers and acknowledgements are of messages up to that place.
* `CallsKeepOrder` (`CallOrderKept`): a call that returned has its command in the
  stream (`Fresh`: whoever was not accepted yet is in no `before`), so that one whose
  call began later is stored behind it (`CallsInOrder`); `NoOvertaking` does the rest.
* `OneRoute`: a command that is in a stream is neither in the delayed stream nor on
  its way as a plain event (`Routes`): a call that is repeated after its time came
  takes the other route only if the first publication did not happen.

* `OneHandlerAtATime` (`OneAtATime`), if there is one subscriber per topic. `Serial`:
  a partition has one running handler at most, on the first delivery of the message its
  consumer has out, and the loop that replayed it is still waiting for it. With a second subscriber this
  is false (finding 4), and it ends with the first thing lost or late, which is what
  `OneAtATime` says.

`WsSessionsProofs`, for any sockets, identities, handshakes, work, transfers and faults:

* `TypeCorrect`, and `RoomsHoldTheirs` (`RoomsAreTheirs`) with `MapsFollow`
  (`MapsFollowSockets`). The rooms alone are not inductive: `Sessions` adds that
  whoever is in a room is bound and has the identity of that room (`Entered`), and
  that a token is being resolved only for a socket that is still open or left
  before the answer (`Waiting`), so that nothing enters a room after its socket left.
* `OnlyOwners` and `OwnersMissNothing` (`OnlyOwnersAreSent`,
  `JoinedOwnersMissNothing`) from `AudienceInv`: the present owner is among the
  owners of every event whose owner is still to be read, the recipient that was read
  is among them too (`OwnersKnown`), and a bound socket whose hello was heard is in the room
  of its identity (`Joined`).
* `AskersTold` (`AskersAreTold`): `Asked` says that who asked has connected, and that
  a request that is still running is not applied yet.
* `WorldOrder` (`WorldInOrder`): `EveryoneHears` has it for each open socket, with
  the moment of its connection no later than the last event.

`GatewaysProofs`, for any options, callers, envelopes, entities, limits and times,
from three inductive invariants:

* `WritersAreOwners` (`WritersOwned`) and `ServicesAgree` (`WritesAlike`). `WriteInv`
  says that the present owner is among the owners since a write arrived, as long as
  it has not ended, and that a write past its check was admitted on the owner that
  was read, who is among them (`OwnersAdmitted`). That the copies agree on one read
  is a fact about the rules alone (`GqlIsRest`, `GqlIsWs`).
* `SnapshotsKeepAudience` (`SnapshotsWithinAudience`) and `EntitledGetTheirs`
  (`EntitledAreServed`). In `ReadInv` everything shown is *justified* by one of the
  owners since the request arrived, and everything found is shown, *excused* by one
  of them, or at hand. The hard case is the second read of the owner: if the first
  found none, an entity without owner has to be among those moments, which
  `ReadOK` keeps. `ServedIsEntitled` and `EntitledIsServed` relate the decision of a
  snapshot, made from two reads, to the audience of an event, made from one.
* `CollectionsStayRecent` (`CollectionsAreRecent`). `ListInv` adds that ids on their
  way are those of a query no older than `MaxLatency`, and that an entry of the
  cache was right for its key when it was queried and expires within `Ttl` plus
  `MaxLatency` of that moment, although its time to live begins later.

Of parameters the rules alone decide: `HandlersGetTheirs`
(`HandlersGetDeclared`) holds because a coercion has at most one result, which is of the
type or the null that was sent (`Coerces`, `NormalizedIsDeclared`); `GatesAgree`
(`QueriesAlike`) because REST's coercion differs from the WebSocket gateway's only
where that refuses (`RestCoerces`, `RestTakesWs`) and a list of one in a URL is its
item (`UrlTakesRest`). `GatewayTypes` (`TypeOK`) puts the invariants together.

Every invariant that a passing run checks is a theorem, and so is the refinement. Only
model-checked: liveness (`EventuallyHandled`, `EventuallyStored`, `EveryoneIsSettled`),
which with ENABLED and fairness is out of the prover's reach, as is induction over
data.

## 6. Not modelled, and why

* `getCachedComponents` (one read), `syncPersistedComponentRemoval` and
  transactions that an application runs itself with `runPersistentTransaction`:
  the order of calls is then the application's.
* `AnnouncedOnce` is a property of single operations. `addComponents` and
  `upsertComponents` decide by what they found before their transaction and write
  Redis with a plain `hSet`: two of them may both announce `ADDED`. No sentence of
  the repository promises otherwise; an application serialises such batches.
* Role checks of `ComponentManager` on stored components: a refused call touches
  nothing. Commands inside a batch take the same routes as single ones.
* Redis payloads that do not parse; duplicate component classes in a batch beyond
  their being refused.
* The hash that picks the partition is a number; publications repeated after the
  duplicate window of two minutes are stored twice by JetStream, by design. A client
  that sends a request again makes a new component and so another command, unless
  the component carries its own `commandId`; that callers give no id to two commands
  is assumed (`IngressAssumption`), as nothing in the code checks it.
* `bootstrapDelayedStream` creates the stream once at start; the registries of the
  decorators are filled at load time and read only, and appear as constants
  (`Rules`, `Storage`, the options of `GatewayRules`).
* Policies and audience resolvers of the gateways, and repositories behind
  queries, are written by applications. The controller awaits them before it emits a
  world event: asynchronous ones may reorder world events, which `WsSessions` emits as
  they arrive, so that `WorldInOrder` is about who hears them, and from when.
* Healthcheck: a probe races its timeout and shares no state with anything; a
  connection it leaves behind shows only in the resources of the process. The CLI
  and the contract generators are pure functions of sources, without state beyond
  one run. The counter example is an application.

## 7. Plan

What is left, most useful first.

1. A caller of the gateways composed with `ComponentManager`: a write whose owner
   check is stale when its first request reaches Redis.
2. Successive winners of guarded updates with the projection column as reference:
   under which workload Redis follows it.
3. Theorems on the relation of the stores when requests do fail: what of
   `StoresAgreeWhenQuiet` outlasts one failure, per operation.
