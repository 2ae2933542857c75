--------------------------- MODULE GatewaysProofs ---------------------------
(***************************************************************************)
(* What holds of writes, snapshots, collections and query parameters       *)
(* through the gateways for any options, callers, entities, declarations   *)
(* and parameters sent, and however often owners change; and the types of  *)
(* everything the gateways keep.                                           *)
(***************************************************************************)
EXTENDS Gateways, WellFoundedInduction, TLAPS

-----------------------------------------------------------------------------
(* The three copies of the rules.                                          *)

(* GraphQL and REST admit the same writes.                                 *)
LEMMA GqlIsRest ==
    ASSUME NEW b, NEW who, NEW e, NEW found
    PROVE  Admits("gql", b, who, e, found) <=> Admits("rest", b, who, e, found)
<1>1. GqlOpen(b, who, e) <=> RestOpen(b, who, e)
  BY DEF GqlOpen, RestOpen
<1>2. GqlFieldsDeclared(b, e) <=> RestFieldsDeclared(b, e)
  BY DEF GqlFieldsDeclared, RestFieldsDeclared
<1>3. GqlInScope(b, who, found) <=> RestInScope(b, who, found)
  BY DEF GqlInScope, RestInScope
<1>4. GqlHydrates(b, e) <=> RestHydrates(b, e)
  BY DEF GqlHydrates, RestHydrates
<1>5. QED BY <1>1, <1>2, <1>3, <1>4 DEF Admits, GqlAdmits, RestAdmits

(* What they admit the WebSocket gateway admits.                           *)
LEMMA GqlIsWs ==
    ASSUME NEW b, NEW who, NEW e, NEW found, Admits("gql", b, who, e, found)
    PROVE  Admits("ws", b, who, e, found)
<1>1. GqlAdmits(b, who, e, found)
  BY DEF Admits
<1>2. WsOpen(b, who, e)
  BY <1>1 DEF GqlAdmits, GqlOpen, WsOpen
<1>3. WsInScope(b, who, e, found) /\ WsHydrates(e)
  BY <1>1 DEF GqlAdmits, GqlInScope, GqlHydrates, WsInScope, WsHydrates
<1>4. QED BY <1>2, <1>3 DEF Admits, WsAdmits

(* Where an owner component is declared none admits but whom it names.     *)
LEMMA OwnersAdmitted ==
    ASSUME NEW g, NEW b, NEW who, NEW e, NEW found,
           Admits(g, b, who, e, found), b.ownerComponent
    PROVE  who.id \in found
BY DEF Admits, WsAdmits, GqlAdmits, RestAdmits, WsInScope, GqlInScope, RestInScope

-----------------------------------------------------------------------------
(* The inductive invariant: what the write of a client has been through,   *)
(* when the owner components are o and n reads have failed.                *)

Decision(w) == Admits(w.gate, w.options, w.by, w.envelope, w.found)

WriteOK(w, o, n) ==
    /\ w.found \subseteq w.since
    /\ w.pc = "scope" => o[w.entity] \in w.since
    /\ w.pc \in {"apply", "applied"} => Decision(w)
    /\ w.pc = "refused" /\ n = 0 => ~Decision(w)
    /\ w.options.command => w.called # "upsert"

WriteInv ==
    /\ owner \in [Entities -> Identities \cup {None}]
    /\ write \in [Clients -> Writes \cup {None}]
    /\ faults \in Nat
    /\ \A c \in Clients : write[c] # None => WriteOK(write[c], owner, faults)

LEMMA WriteFrame ==
    ASSUME WriteInv, write' = write, owner' = owner,
           faults' = faults \/ faults' = faults + 1
    PROVE  WriteInv'
<1>1. faults \in Nat /\ faults' \in Nat /\ (faults' = 0 => faults = 0)
  BY DEF WriteInv
<1>2. QED BY <1>1 DEF WriteInv, WriteOK

(* One client's write goes on as r.                                        *)
LEMMA WriteStep ==
    ASSUME WriteInv, NEW c \in Clients, NEW r \in Writes,
           write' = [write EXCEPT ![c] = r], owner' = owner,
           faults' = faults \/ faults' = faults + 1, WriteOK(r, owner, faults')
    PROVE  WriteInv'
<1>1. faults \in Nat /\ faults' \in Nat /\ (faults' = 0 => faults = 0)
  BY DEF WriteInv
<1>2. /\ write' \in [Clients -> Writes \cup {None}] /\ write'[c] = r
      /\ \A d \in Clients \ {c} : write'[d] = write[d]
  BY DEF WriteInv
<1>3. ASSUME NEW d \in Clients, write'[d] # None
      PROVE  WriteOK(write'[d], owner', faults')
  <2>1. CASE d = c
    BY <1>2, <2>1
  <2>2. CASE d # c
    BY <1>1, <1>2, <1>3, <2>2 DEF WriteInv, WriteOK
  <2>3. QED BY <2>1, <2>2
<1>4. QED BY <1>1, <1>2, <1>3 DEF WriteInv

LEMMA ReceiveKeeps ==
    ASSUME WriteInv, NEW c \in Clients, ReceiveWrite(c)
    PROVE  WriteInv'
<1>1. PICK w \in Entities, g \in {"ws", "gql", "rest"}, sent \in Sent, b \in Inbounds :
      \E who \in Callers(g, sent), e \in {x \in Envelopes : x.target = SelfOf[w]} :
         write' = [write EXCEPT ![c] =
             [pc |-> IF AwaitsOwner(g, b, who, e) THEN "scope"
                     ELSE IF Admits(g, b, who, e, {}) THEN "apply" ELSE "refused",
              gate |-> g, by |-> who, options |-> b, envelope |-> e,
              entity |-> w, found |-> {}, since |-> {owner[w]}, called |-> None]]
  BY DEF ReceiveWrite
<1>2. PICK who \in Callers(g, sent), e \in Envelopes :
         write' = [write EXCEPT ![c] =
             [pc |-> IF AwaitsOwner(g, b, who, e) THEN "scope"
                     ELSE IF Admits(g, b, who, e, {}) THEN "apply" ELSE "refused",
              gate |-> g, by |-> who, options |-> b, envelope |-> e,
              entity |-> w, found |-> {}, since |-> {owner[w]}, called |-> None]]
  BY <1>1
<1>3. who \in WhoSet
  BY DEF Callers, RestCallers, GqlCallers, WhoSet
<1>4. PICK pc \in {"scope", "apply", "refused"} :
         pc = IF AwaitsOwner(g, b, who, e) THEN "scope"
              ELSE IF Admits(g, b, who, e, {}) THEN "apply" ELSE "refused"
  OBVIOUS
<1> DEFINE r == [pc |-> pc, gate |-> g, by |-> who, options |-> b, envelope |-> e,
                 entity |-> w, found |-> {}, since |-> {owner[w]}, called |-> None]
<1>5. write' = [write EXCEPT ![c] = r] /\ UNCHANGED <<owner, faults>>
  BY <1>2, <1>4 DEF ReceiveWrite
<1>6. owner[w] \in Identities \cup {None}
  BY DEF WriteInv
<1>7. r \in Writes
  BY <1>3, <1>6 DEF Writes, Owners
<1>8. WriteOK(r, owner, faults')
  BY <1>4, RulesAssumption DEF WriteOK, Decision, Operations
<1> HIDE DEF r
<1>9. QED BY <1>5, <1>7, <1>8, WriteStep

LEMMA ScopeKeeps ==
    ASSUME WriteInv, NEW c \in Clients, ReadScope(c)
    PROVE  WriteInv'
<1> DEFINE w == write[c]
           found == Owner(w.entity)
<1>1. w \in Writes /\ WriteOK(w, owner, faults) /\ w.pc = "scope"
  BY DEF WriteInv, ReadScope, Writing
<1>2. owner[w.entity] \in Identities \cup {None} /\ found \subseteq w.since
      /\ found \subseteq Identities
  BY <1>1 DEF WriteInv, Writes, Owner, WriteOK
<1>3. owner' = owner
  BY DEF ReadScope
<1>4. CASE Fault /\ write' = [write EXCEPT ![c].pc = "refused"]
  <2> DEFINE r == [w EXCEPT !.pc = "refused"]
  <2>1. write' = [write EXCEPT ![c] = r]
    BY <1>4
  <2>2. faults' = faults + 1 /\ faults' # 0
    BY <1>4 DEF Fault, WriteInv
  <2>3. r \in Writes
    BY <1>1, Zenon DEF Writes
  <2>4. WriteOK(r, owner, faults')
    BY <1>1, <2>2 DEF WriteOK, Writes
  <2> HIDE DEF r
  <2>5. QED BY <1>3, <2>1, <2>2, <2>3, <2>4, WriteStep
<1>5. CASE Ok /\ write' = [write EXCEPT
                   ![c].pc = IF Admits(w.gate, w.options, w.by, w.envelope, found)
                             THEN "apply" ELSE "refused",
                   ![c].found = found]
  <2>1. PICK pc \in {"apply", "refused"} :
          pc = IF Admits(w.gate, w.options, w.by, w.envelope, found)
               THEN "apply" ELSE "refused"
    OBVIOUS
  <2> DEFINE r == [w EXCEPT !.pc = pc, !.found = found]
  <2>2. write' = [write EXCEPT ![c].pc = pc, ![c].found = found]
    BY <1>5, <2>1, Zenon
  <2>3. write' = [write EXCEPT ![c] = r]
    BY <2>2 DEF WriteInv
  <2>4. faults' = faults
    BY <1>5 DEF Ok
  <2>5. r \in Writes
    <3>1. [w EXCEPT !.pc = pc] \in Writes
      BY <1>1, Zenon DEF Writes
    <3>2. QED BY <1>2, <3>1, Zenon DEF Writes
  <2>6. /\ r.pc = pc /\ r.found = found
        /\ \A f \in {"gate", "by", "options", "envelope", "since", "called"} :
             r[f] = w[f]
    BY <1>1 DEF Writes
  <2>7. WriteOK(r, owner, faults')
    BY <1>1, <1>2, <2>1, <2>6 DEF WriteOK, Decision
  <2> HIDE DEF r
  <2>8. QED BY <1>3, <2>3, <2>4, <2>5, <2>7, WriteStep
<1>6. QED BY <1>4, <1>5 DEF ReadScope

(* What is admitted is an operation.                                       *)
LEMMA AdmittedOperations ==
    ASSUME NEW g, NEW b \in Inbounds, NEW who, NEW e, NEW found,
           Admits(g, b, who, e, found)
    PROVE  e.operation \in Operations
<1>1. WsOpen(b, who, e) \/ GqlOpen(b, who, e) \/ RestOpen(b, who, e)
  BY DEF Admits, WsAdmits, GqlAdmits, RestAdmits
<1>2. e.operation \in AllowedOperations(b)
  BY <1>1 DEF WsOpen, GqlOpen, RestOpen
<1>3. QED BY <1>2, GatewayAssumption

LEMMA ApplyKeeps ==
    ASSUME WriteInv, NEW c \in Clients, Apply(c)
    PROVE  WriteInv'
<1> DEFINE w == write[c]
<1>1. w \in Writes /\ WriteOK(w, owner, faults) /\ w.pc = "apply"
  BY DEF WriteInv, Apply, Writing
<1>2. w.options \in Inbounds /\ Decision(w)
  BY <1>1 DEF Writes, WriteOK
<1>3. w.envelope.operation \in Operations
  BY <1>2, AdmittedOperations DEF Decision
<1>4. PICK o \in Operations : o = ManagerOperation(w.options, w.envelope)
  BY <1>3 DEF ManagerOperation, Operations
<1>5. w.options.command => o # "upsert"
  BY <1>4 DEF ManagerOperation
<1> DEFINE r == [w EXCEPT !.pc = "applied", !.called = o]
<1>6. write' = [write EXCEPT ![c].pc = "applied", ![c].called = o]
  BY <1>4, Zenon DEF Apply
<1>7. write' = [write EXCEPT ![c] = r] /\ UNCHANGED <<owner, faults>>
  BY <1>6 DEF WriteInv, Apply
<1>8. r \in Writes
  <2>1. [w EXCEPT !.pc = "applied"] \in Writes
    BY <1>1, Zenon DEF Writes
  <2>2. QED BY <2>1, Zenon DEF Writes
<1>9. /\ r.pc = "applied" /\ r.called = o
      /\ \A f \in {"gate", "by", "options", "envelope", "found", "since"} :
           r[f] = w[f]
  BY <1>1 DEF Writes
<1>10. WriteOK(r, owner, faults')
  BY <1>1, <1>5, <1>9 DEF WriteOK, Decision
<1> HIDE DEF r
<1>11. QED BY <1>7, <1>8, <1>10, WriteStep

(* An owner component changes: who waits for it may now find the new owner. *)
LEMMA TransferKeeps ==
    ASSUME WriteInv, Transfer
    PROVE  WriteInv'
<1>1. PICK e \in Entities, i \in Identities \cup {None} :
         /\ owner' = [owner EXCEPT ![e] = i]
         /\ write' = [c \in Clients |->
              IF (Writing(c, "scope") \/ Writing(c, "apply")) /\ write[c].entity = e
              THEN [write[c] EXCEPT !.since = @ \cup {i}] ELSE write[c]]
  BY DEF Transfer
<1>2. owner' \in [Entities -> Identities \cup {None}] /\ faults' = faults
  BY <1>1 DEF WriteInv, Transfer
<1>3. SUFFICES ASSUME NEW c \in Clients
               PROVE  /\ write'[c] \in Writes \cup {None}
                      /\ write'[c] # None => WriteOK(write'[c], owner', faults)
  <2>1. \A c \in Clients : write'[c] \in Writes \cup {None}
    BY <1>3
  <2>2. write' = [c \in Clients |-> write'[c]]
    BY <1>1
  <2>3. write' \in [Clients -> Writes \cup {None}]
    BY <2>1, <2>2
  <2>4. \A c \in Clients : write'[c] # None => WriteOK(write'[c], owner', faults')
    BY <1>2, <1>3
  <2>5. QED BY <1>2, <2>3, <2>4 DEF WriteInv
<1>4. CASE (Writing(c, "scope") \/ Writing(c, "apply")) /\ write[c].entity = e
  <2> DEFINE r == [write[c] EXCEPT !.since = write[c].since \cup {i}]
  <2>1. write'[c] = r
    BY <1>1, <1>4
  <2>2. write[c] \in Writes /\ WriteOK(write[c], owner, faults)
    BY <1>4 DEF WriteInv, Writing
  <2>3. write[c].since \cup {i} \in Owners
    BY <2>2 DEF Writes, Owners
  <2>4. r \in Writes
    BY <2>2, <2>3, Zenon DEF Writes
  <2>5. /\ r.since = write[c].since \cup {i}
        /\ \A f \in {"pc", "gate", "by", "options", "envelope", "entity", "found",
                     "called"} : r[f] = write[c][f]
    BY <2>2 DEF Writes
  <2>6. owner'[e] = i
    BY <1>1 DEF WriteInv
  <2>7. WriteOK(r, owner', faults)
    BY <1>4, <2>2, <2>5, <2>6 DEF WriteOK, Decision
  <2> HIDE DEF r
  <2>8. QED BY <2>1, <2>4, <2>7
<1>5. CASE ~((Writing(c, "scope") \/ Writing(c, "apply")) /\ write[c].entity = e)
  <2>1. write'[c] = write[c]
    BY <1>1, <1>5
  <2>2. ASSUME write[c] # None PROVE WriteOK(write[c], owner', faults)
    <3>1. write[c] \in Writes /\ WriteOK(write[c], owner, faults)
      BY <2>2 DEF WriteInv
    <3>2. write[c].pc = "scope" => owner'[write[c].entity] = owner[write[c].entity]
      BY <1>1, <1>5, <2>2, <3>1 DEF Writing, Writes, WriteInv
    <3>3. QED BY <3>1, <3>2 DEF WriteOK
  <2>3. QED BY <2>1, <2>2 DEF WriteInv
<1>6. QED BY <1>4, <1>5

LEMMA WriteInitially == Init => WriteInv
BY DEF Init, WriteInv

LEMMA WriteKept == WriteInv /\ [Next]_vars => WriteInv'
<1> SUFFICES ASSUME WriteInv, [Next]_vars PROVE WriteInv'
  OBVIOUS
<1>1. CASE UNCHANGED vars
  BY <1>1, WriteFrame DEF vars
<1>2. CASE Transfer
  BY <1>2, TransferKeeps
<1>3. CASE Tick \/ ExecuteWsQuery \/ ExecuteGqlQuery \/ ExecuteRestQuery
  <2>1. UNCHANGED <<write, owner, faults>>
    BY <1>3 DEF Tick, ExecuteWsQuery, ExecuteGqlQuery, ExecuteRestQuery, Asking
  <2>2. QED BY <2>1, WriteFrame
<1>4. ASSUME NEW c \in Clients,
             \/ RequestEntity(c) \/ RequestCollection(c) \/ QueryRows(c)
             \/ FillCache(c) \/ ReadValue(c)
      PROVE  WriteInv'
  <2>1. UNCHANGED <<write, owner, faults>>
    BY <1>4 DEF RequestEntity, RequestCollection, QueryRows, FillCache, ReadValue
  <2>2. QED BY <2>1, WriteFrame
<1>5. ASSUME NEW c \in Clients, ReadAudience(c) \/ ReadFallback(c)
      PROVE  WriteInv'
  <2>1. UNCHANGED <<write, owner>> /\ (faults' = faults \/ faults' = faults + 1)
    BY <1>5 DEF ReadAudience, ReadFallback, Ok, Fault
  <2>2. QED BY <2>1, WriteFrame
<1>6. QED BY <1>1, <1>2, <1>3, <1>4, <1>5, ReceiveKeeps, ScopeKeeps, ApplyKeeps
          DEF Next

LEMMA WritesHold == Spec => []WriteInv
BY WriteInitially, WriteKept, PTL DEF Spec

(* A write that needs the owner's word is applied only for an owner of     *)
(* some moment since it arrived, whichever service took it.                *)
THEOREM WritersAreOwners == Spec => []WritersOwned
<1>1. ASSUME WriteInv, NEW c \in Clients, Writing(c, "applied"),
             write[c].options.ownerComponent
      PROVE  write[c].by.id \in write[c].since
  <2>1. WriteOK(write[c], owner, faults) /\ write[c].pc = "applied"
    BY <1>1 DEF WriteInv, Writing
  <2>2. Decision(write[c]) /\ write[c].found \subseteq write[c].since
    BY <2>1 DEF WriteOK
  <2>3. QED BY <1>1, <2>2, OwnersAdmitted DEF Decision
<1>2. WriteInv => WritersOwned
  BY <1>1 DEF WritersOwned
<1>3. QED BY <1>2, WritesHold, PTL

(* The services of the gateways decide alike, as far as they should.       *)
THEOREM ServicesAgree == Spec => []WritesAlike
<1>1. ASSUME WriteInv, NEW c \in Clients,
             Writing(c, "applied") \/ (Writing(c, "refused") /\ faults = 0)
      PROVE  LET w == write[c]
                 admits(g) == Admits(g, w.options, w.by, w.envelope, w.found)
             IN  /\ admits("gql") <=> admits("rest")
                 /\ admits("gql") => admits("ws")
                 /\ admits(w.gate) <=> w.pc = "applied"
                 /\ w.options.command => w.called # "upsert"
  <2>1. WriteOK(write[c], owner, faults)
    BY <1>1 DEF WriteInv, Writing
  <2>2. Decision(write[c]) <=> write[c].pc = "applied"
    BY <1>1, <2>1 DEF WriteOK, Writing
  <2>3. QED BY <2>1, <2>2, GqlIsRest, GqlIsWs DEF WriteOK, Decision
<1>2. WriteInv => WritesAlike
  BY <1>1 DEF WritesAlike
<1>3. QED BY <1>2, WritesHold, PTL

-----------------------------------------------------------------------------
(* The decision about a snapshot, and the audience of events.              *)

(* Whoever is sent a component in a snapshot, on what the two reads of the *)
(* owner found, was entitled to its events under one of the owners in S.   *)
LEMMA ServedIsEntitled ==
    ASSUME NEW r \in Reads, NEW e, NEW named, NEW first, NEW second, NEW S, NEW o \in S,
           first \subseteq S, second \subseteq S, Readable(r.options),
           Receives(r.gate, r.options, r.by, Facts(e, named, first),
                    Facts(e, named, second))
    PROVE  \E q \in S : Entitled(r, <<e, named>>, q)
<1> DEFINE p == r.options
           i == r.by
           x == <<e, named>>
           q == [p EXCEPT !.audience = "none"]
<1>1. p \in ProjectionOptions /\ i \in Identities /\ i # None
  BY GatewayAssumption, RulesAssumption DEF Reads
<1>2. IsLifecycleAllowed(p, "updated") /\ CanExpose(p)
  BY DEF Readable, IsLifecycleAllowed, LifecycleKinds, Receives, CanIdentityReceive,
         GqlCanIdentityReceive
<1>3. /\ q.audience = "none" /\ q.ownerComponent = p.ownerComponent
      /\ q.ownerField = p.ownerField
      /\ IsLifecycleAllowed(q, "updated") /\ CanExpose(q)
  BY <1>1, <1>2 DEF ProjectionOptions, IsLifecycleAllowed, CanExpose
<1>4. ASSUME NEW t \in S,
             \/ p.audience = "world"
             \/ p.ownerComponent /\ t = i
             \/ ~p.ownerComponent /\ p.ownerField /\ i \in named
             \/ ~p.ownerComponent /\ ~p.ownerField /\ i = SelfOf[e]
      PROVE  Entitled(r, x, t)
  <2> DEFINE f == Facts(e, named, {t} \ {None})
  <2>1. /\ f.owners = {t} \ {None} /\ f.named = named /\ f.self = SelfOf[e]
        /\ x[1] = e /\ x[2] = named
    BY DEF Facts
  <2> HIDE DEF f, q
  <2>2. p.audience = "world" \/ p.audience = "none" \/ p.audience = "city"
    BY <1>1 DEF ProjectionOptions
  <2>3. p.audience # "city" => i \in Audience(p, f)
    BY <1>1, <1>4, <2>1, <2>2 DEF Audience
  <2>4. p.audience = "city" => i \in Audience(q, f)
    BY <1>1, <1>3, <1>4, <2>1 DEF Audience
  <2>5. QED BY <1>2, <1>3, <2>1, <2>2, <2>3, <2>4 DEF Entitled, LifecycleProjected, f, q
<1> HIDE DEF q
<1>5. \/ p.audience = "world"
      \/ p.ownerComponent /\ i \in first \cup second
      \/ ~p.ownerComponent /\ p.ownerField /\ i \in named
      \/ ~p.ownerComponent /\ ~p.ownerField /\ i = SelfOf[e]
  <2> DEFINE f == Facts(e, named, first)
             g == Facts(e, named, second)
  <2>1. f.owners = first /\ g.owners = second /\ f.named = named /\ f.self = SelfOf[e]
    BY DEF Facts
  <2>2. p.audience = "world" \/ p.audience = "none" \/ p.audience = "city"
    BY <1>1 DEF ProjectionOptions
  <2> HIDE DEF f, g
  <2>3. CASE GqlCanIdentityReceive(p, i, f, g)
    <3>1. CASE i \in GqlAudience(p, f)
      BY <2>1, <2>2, <3>1 DEF GqlAudience
    <3>2. CASE i \notin GqlAudience(p, f)
      BY <2>1, <2>3, <3>2 DEF GqlCanIdentityReceive
    <3>3. QED BY <3>1, <3>2
  <2>4. CASE CanIdentityReceive(p, i, f, g)
    <3>1. CASE i \in Audience(p, f)
      BY <2>1, <2>2, <3>1 DEF Audience
    <3>2. CASE i \notin Audience(p, f)
      BY <2>1, <2>4, <3>2 DEF CanIdentityReceive
    <3>3. QED BY <3>1, <3>2
  <2>5. QED BY <2>3, <2>4 DEF Receives, f, g
<1>6. CASE p.ownerComponent /\ i \in first \cup second
  BY <1>4, <1>6
<1>7. CASE ~(p.ownerComponent /\ i \in first \cup second)
  BY <1>4, <1>5, <1>7
<1>8. QED BY <1>6, <1>7

LEMMA EntitledExposed ==
    ASSUME NEW r \in Reads, NEW x, NEW o, Entitled(r, x, o)
    PROVE  CanExpose(r.options)
<1>1. r.options \in ProjectionOptions
  BY GatewayAssumption DEF Reads
<1>2. CanExpose(IF r.options.audience = "city" THEN [r.options EXCEPT !.audience = "none"]
                ELSE r.options)
  BY DEF Entitled, LifecycleProjected
<1>3. QED BY <1>1, <1>2 DEF CanExpose, ProjectionOptions

(* Who was entitled under the owner that is found is not refused.  For an  *)
(* audience of owners that is the first read, for others the second.       *)
LEMMA EntitledIsServed ==
    ASSUME NEW r \in Reads, NEW e, NEW named, NEW o, NEW first, NEW second,
           Entitled(r, <<e, named>>, o),
           AudienceReadsOwner(r.options) => first = {o} \ {None},
           r.options.audience = "city" /\ r.options.ownerComponent => second = {o} \ {None}
    PROVE  Receives(r.gate, r.options, r.by, Facts(e, named, first),
                    Facts(e, named, second))
<1> DEFINE p == r.options
           i == r.by
           x == <<e, named>>
           q == [p EXCEPT !.audience = "none"]
<1>1. p \in ProjectionOptions /\ i \in Identities /\ i # None
  BY GatewayAssumption, RulesAssumption DEF Reads
<1>2. p.audience = "world" \/ p.audience = "none" \/ p.audience = "city"
  BY <1>1 DEF ProjectionOptions
<1>3. /\ q.audience = "none" /\ q.ownerComponent = p.ownerComponent
      /\ q.ownerField = p.ownerField /\ CanExpose(q) = CanExpose(p)
  BY <1>1 DEF ProjectionOptions, CanExpose
<1>4. /\ CanExpose(p)
      /\ \/ p.audience = "world"
         \/ p.ownerComponent /\ i \in {o} \ {None}
         \/ ~p.ownerComponent /\ p.ownerField /\ i \in named
         \/ ~p.ownerComponent /\ ~p.ownerField /\ i = SelfOf[e]
  <2> DEFINE f == Facts(e, named, {o} \ {None})
  <2>1. /\ f.owners = {o} \ {None} /\ f.named = named /\ f.self = SelfOf[e]
        /\ x[1] = e /\ x[2] = named
    BY DEF Facts
  <2>2. i \in LifecycleProjected(IF p.audience = "city" THEN q ELSE p, "updated", f)
    BY <2>1 DEF Entitled
  <2> HIDE DEF f, q
  <2>3. CASE p.audience = "city"
    BY <1>3, <2>1, <2>2, <2>3 DEF LifecycleProjected, Audience
  <2>4. CASE p.audience # "city"
    BY <1>2, <2>1, <2>2, <2>4 DEF LifecycleProjected, Audience
  <2>5. QED BY <2>3, <2>4
<1> HIDE DEF q
<1> DEFINE f == Facts(e, named, first)
           g == Facts(e, named, second)
<1>5. /\ f.owners = first /\ f.named = named /\ f.self = SelfOf[e]
      /\ g.owners = second
  BY DEF Facts
<1> HIDE DEF f, g
<1>6. r.gate \in {"ws", "gql"}
  BY DEF Reads
<1>7. CASE p.audience = "world"
  BY <1>4, <1>7 DEF Receives, CanIdentityReceive, GqlCanIdentityReceive, f, g
<1>8. CASE p.audience = "none"
  <2>1. i \in Audience(p, f) /\ i \in GqlAudience(p, f)
    BY <1>1, <1>4, <1>5, <1>8 DEF Audience, GqlAudience, AudienceReadsOwner
  <2>2. CanIdentityReceive(p, i, f, g)
    BY <1>4, <2>1 DEF CanIdentityReceive
  <2>3. GqlCanIdentityReceive(p, i, f, g)
    BY <1>4, <2>1 DEF GqlCanIdentityReceive
  <2>4. QED BY <2>2, <2>3 DEF Receives, f, g
<1>9. CASE p.audience = "city"
  <2>1. Audience(p, f) = {} /\ GqlAudience(p, f) = {}
    BY <1>9 DEF Audience, GqlAudience
  <2>2. p.ownerComponent => i \in g.owners
    BY <1>4, <1>5, <1>9
  <2>3. CanIdentityReceive(p, i, f, g)
    BY <1>4, <1>5, <1>9, <2>1, <2>2 DEF CanIdentityReceive
  <2>4. GqlCanIdentityReceive(p, i, f, g)
    BY <1>4, <1>5, <1>9, <2>1, <2>2 DEF GqlCanIdentityReceive
  <2>5. QED BY <2>3, <2>4 DEF Receives, f, g
<1>10. QED BY <1>2, <1>7, <1>8, <1>9

-----------------------------------------------------------------------------
(* The inductive invariant of snapshots: what a request r has been through *)
(* when the owner components are o and n reads have failed.                *)

Justified(r, x) == \E q \in r.since[x[1]] : Entitled(r, x, q)
Excused(r, x) == \E q \in r.since[x[1]] : ~Entitled(r, x, q)
Undecided(r, x) == r.pc \in {"audience", "fallback"} /\ x = <<First(r.todo), r.named>>

ReadOK(r, o, n) ==
    /\ r.pc # "done" => \A e \in Entities : o[e] \in r.since[e]
    /\ r.pc \in {"value", "audience", "fallback"} => r.todo # {} /\ Readable(r.options)
    /\ r.pc \in {"query", "fill"} => r.shown = {} /\ r.seen = {} /\ r.key \in Keys
    /\ r.pc = "fill" => r.listing \in Listings
    /\ r.pc = "audience" => AudienceReadsOwner(r.options)
    /\ r.pc = "fallback" => r.found = {}
    /\ r.pc = "fallback" /\ AudienceReadsOwner(r.options) /\ n = 0 =>
         None \in r.since[First(r.todo)]
    /\ \A x \in r.shown : Justified(r, x)
    /\ n = 0 => \A x \in r.seen : x \in r.shown \/ Excused(r, x) \/ Undecided(r, x)

CacheTyped ==
    /\ now \in 0..MaxTime
    /\ cache \in [Keys -> Entries \cup {None}]

ReadInv ==
    /\ CacheTyped
    /\ owner \in [Entities -> Identities \cup {None}]
    /\ read \in [Clients -> Reads \cup {None}]
    /\ faults \in Nat
    /\ \A c \in Clients : read[c] # None => ReadOK(read[c], owner, faults)

LEMMA ReadFrame ==
    ASSUME ReadInv, read' = read, owner' = owner, CacheTyped',
           faults' = faults \/ faults' = faults + 1
    PROVE  ReadInv'
<1>1. faults \in Nat /\ faults' \in Nat /\ (faults' = 0 => faults = 0)
  BY DEF ReadInv
<1>2. ASSUME NEW c \in Clients, read[c] # None PROVE ReadOK(read[c], owner, faults')
  BY <1>1, <1>2 DEF ReadInv, ReadOK
<1>3. QED BY <1>1, <1>2 DEF ReadInv

(* One client's request goes on as r.                                      *)
LEMMA ReadStep ==
    ASSUME ReadInv, NEW c \in Clients, NEW r \in Reads,
           read' = [read EXCEPT ![c] = r], owner' = owner,
           faults' = faults \/ faults' = faults + 1, CacheTyped',
           ReadOK(r, owner, faults')
    PROVE  ReadInv'
<1>1. faults \in Nat /\ faults' \in Nat /\ (faults' = 0 => faults = 0)
  BY DEF ReadInv
<1>2. /\ read' \in [Clients -> Reads \cup {None}] /\ read'[c] = r
      /\ \A d \in Clients \ {c} : read'[d] = read[d]
  BY DEF ReadInv
<1>3. ASSUME NEW d \in Clients, read'[d] # None
      PROVE  ReadOK(read'[d], owner', faults')
  <2>1. CASE d = c
    BY <1>2, <2>1
  <2>2. CASE d # c
    BY <1>1, <1>2, <1>3, <2>2 DEF ReadInv, ReadOK
  <2>3. QED BY <2>1, <2>2
<1>4. QED BY <1>1, <1>2, <1>3 DEF ReadInv

(* The entity at hand is one of those to do.                               *)
LEMMA FirstOf ==
    ASSUME NEW todo \in SUBSET Entities, todo # {}
    PROVE  First(todo) \in todo
<1> DEFINE ranks == {Rank[e] : e \in todo}
<1>1. Rank \in [Entities -> Nat]
  BY GatewayAssumption
<1>2. ranks \in SUBSET Nat /\ \E n \in Nat : n \in ranks
  BY <1>1
<1>3. IsWellFoundedOn({ss \in Nat \X Nat : ss[1] < ss[2]}, Nat)
  BY NatLessThanWellFounded DEF OpToRel
<1>4. PICK n \in ranks : \A m \in ranks :
         <<m, n>> \notin {ss \in Nat \X Nat : ss[1] < ss[2]}
  <2>1. ranks \subseteq Nat /\ ranks # {}
    BY <1>2
  <2> HIDE DEF ranks
  <2>2. QED BY <1>3, <2>1, WFMin, Zenon
<1>5. \A m \in ranks : n <= m
  <2>1. ASSUME NEW m \in ranks, m < n PROVE FALSE
    <3>1. <<m, n>> \in Nat \X Nat /\ <<m, n>>[1] = m /\ <<m, n>>[2] = n
      BY <1>2
    <3>2. <<m, n>> \in {ss \in Nat \X Nat : ss[1] < ss[2]}
      BY <2>1, <3>1
    <3>3. QED BY <1>4, <3>2
  <2>2. QED BY <1>2, <2>1
<1>6. \E e \in todo : \A f \in todo : Rank[e] <= Rank[f]
  BY <1>5
<1>7. QED BY <1>6 DEF First

LEMMA ResolveFields ==
    ASSUME NEW r \in Reads, NEW todo \in SUBSET Entities
    PROVE  LET s == Resolve(r, todo) IN
           /\ s \in Reads /\ s.todo = todo
           /\ s.pc = IF todo # {} /\ Readable(r.options) THEN "value" ELSE "done"
           /\ s.by = r.by /\ s.gate = r.gate /\ s.options = r.options
           /\ s.since = r.since /\ s.shown = r.shown /\ s.seen = r.seen
           /\ s.key = r.key /\ s.listing = r.listing
<1> DEFINE s == Resolve(r, todo)
<1>1. PICK pc \in {"value", "done"} :
        pc = IF todo # {} /\ Readable(r.options) THEN "value" ELSE "done"
  OBVIOUS
<1>2. s = [r EXCEPT !.todo = todo, !.pc = pc]
  BY <1>1, Zenon DEF Resolve
<1>3. s \in Reads
  <2>1. [r EXCEPT !.todo = todo] \in Reads
    BY Zenon DEF Reads
  <2>2. QED BY <1>2, <2>1, Zenon DEF Reads
<1> HIDE DEF s
<1>4. /\ s.todo = todo /\ s.pc = pc /\ s.by = r.by /\ s.gate = r.gate
      /\ s.options = r.options /\ s.since = r.since /\ s.shown = r.shown
      /\ s.seen = r.seen /\ s.key = r.key /\ s.listing = r.listing
  BY <1>2 DEF Reads
<1>5. QED BY <1>1, <1>3, <1>4 DEF s

LEMMA SettledFields ==
    ASSUME NEW r \in Reads, NEW allowed \in BOOLEAN, r.todo # {}
    PROVE  LET s == Settled(r, allowed)
               x == <<First(r.todo), r.named>> IN
           /\ s \in Reads
           /\ s.pc \in {"value", "done"}
           /\ s.pc = "value" => s.todo # {} /\ Readable(s.options)
           /\ s.by = r.by /\ s.options = r.options
           /\ s.since = r.since /\ s.seen = r.seen
           /\ s.shown = IF allowed THEN r.shown \cup {x} ELSE r.shown
           /\ s.key = r.key /\ s.listing = r.listing
<1> DEFINE x == <<First(r.todo), r.named>>
<1>1. r.todo \in SUBSET Entities /\ r.shown \in SUBSET Found /\ r.named \in SUBSET Identities
  BY DEF Reads
<1>2. x \in Found /\ Rest(r.todo) \in SUBSET Entities
  BY <1>1, FirstOf DEF Found, Rest
<1>3. PICK shown \in SUBSET Found :
        shown = IF allowed THEN r.shown \cup {x} ELSE r.shown
  BY <1>1, <1>2
<1> DEFINE q == [r EXCEPT !.shown = shown]
<1>4. q \in Reads
  BY Zenon DEF Reads
<1>5. /\ q.shown = shown /\ q.by = r.by /\ q.options = r.options
      /\ q.since = r.since /\ q.seen = r.seen /\ q.key = r.key /\ q.listing = r.listing
  BY DEF Reads
<1>6. Settled(r, allowed) = Resolve(q, Rest(r.todo))
  BY <1>3, Zenon DEF Settled
<1> HIDE DEF q
<1>7. QED BY <1>2, <1>3, <1>4, <1>5, <1>6, ResolveFields

(* A request whose entity at hand is still to be decided.                  *)
AtHand(r, o, n) ==
    /\ r.todo # {} /\ Readable(r.options)
    /\ \A e \in Entities : o[e] \in r.since[e]
    /\ \A x \in r.shown : Justified(r, x)
    /\ n = 0 => \A x \in r.seen : \/ x \in r.shown \/ Excused(r, x)
                                  \/ x = <<First(r.todo), r.named>>

LEMMA DecideOK ==
    ASSUME NEW r \in Reads, NEW o, NEW n, AtHand(r, o, n),
           NEW first \in SUBSET Identities, NEW second \in SUBSET Identities,
           first \cup second \subseteq r.since[First(r.todo)],
           n = 0 => \E q \in r.since[First(r.todo)] :
               Entitled(r, <<First(r.todo), r.named>>, q) =>
                   Receives(r.gate, r.options, r.by,
                            Facts(First(r.todo), r.named, first),
                            Facts(First(r.todo), r.named, second))
    PROVE  Decide(r, first, second) \in Reads /\ ReadOK(Decide(r, first, second), o, n)
<1> DEFINE e == First(r.todo)
           x == <<e, r.named>>
<1>1. PICK allowed \in BOOLEAN :
        allowed = Receives(r.gate, r.options, r.by, Facts(e, r.named, first),
                           Facts(e, r.named, second))
  BY DEF Receives, CanIdentityReceive, GqlCanIdentityReceive
<1>2. Decide(r, first, second) = Settled(r, allowed)
  BY <1>1, Zenon DEF Decide
<1> DEFINE s == Settled(r, allowed)
<1>3. /\ s \in Reads /\ s.pc \in {"value", "done"}
      /\ s.pc = "value" => s.todo # {} /\ Readable(s.options)
      /\ s.by = r.by /\ s.options = r.options
      /\ s.since = r.since /\ s.seen = r.seen
      /\ s.shown = IF allowed THEN r.shown \cup {x} ELSE r.shown
  BY SettledFields DEF AtHand
<1> HIDE DEF s
<1>4. \A y, q : Entitled(s, y, q) <=> Entitled(r, y, q)
  BY <1>3 DEF Entitled
<1>5. e \in Entities
  BY FirstOf DEF AtHand, Reads
<1>6. o[e] \in r.since[e]
  BY <1>5 DEF AtHand
<1>7. allowed => Justified(r, x)
  <2>1. ASSUME allowed PROVE \E q \in r.since[e] : Entitled(r, x, q)
    <3>1. Receives(r.gate, r.options, r.by, Facts(e, r.named, first),
                   Facts(e, r.named, second))
      BY <1>1, <2>1
    <3>2. Readable(r.options) /\ first \subseteq r.since[e] /\ second \subseteq r.since[e]
      BY DEF AtHand
    <3>3. QED BY <1>6, <3>1, <3>2, ServedIsEntitled
  <2>2. x[1] = e
    OBVIOUS
  <2>3. QED BY <2>1, <2>2 DEF Justified
<1>8. \A y \in s.shown : Justified(s, y)
  <2>1. \A y : Justified(s, y) <=> Justified(r, y)
    BY <1>3, <1>4 DEF Justified
  <2>2. QED BY <1>3, <1>7, <2>1 DEF AtHand
<1>9. ASSUME n = 0, NEW y \in s.seen PROVE y \in s.shown \/ Excused(s, y)
  <2>1. Excused(s, y) <=> Excused(r, y)
    BY <1>3, <1>4 DEF Excused
  <2>2. y \in r.shown \/ Excused(r, y) \/ y = x
    BY <1>3, <1>9 DEF AtHand
  <2>3. allowed \/ Excused(r, x)
    <3>1. PICK q \in r.since[e] : Entitled(r, x, q) => allowed
      BY <1>1, <1>9
    <3>2. x[1] = e
      OBVIOUS
    <3>3. QED BY <3>1, <3>2 DEF Excused
  <2>4. QED BY <1>3, <2>1, <2>2, <2>3
<1>10. \A f \in Entities : o[f] \in s.since[f]
  BY <1>3 DEF AtHand
<1>11. ReadOK(s, o, n)
  BY <1>3, <1>8, <1>9, <1>10 DEF ReadOK
<1>12. QED BY <1>2, <1>3, <1>11 DEF s

-----------------------------------------------------------------------------
(* Every step of a request keeps the invariant.                            *)

(* A request that begins to resolve entities, or waits for the ids.        *)
Beginning(r) ==
    /\ r.shown = {} /\ r.seen = {}
    /\ \A e \in Entities : owner[e] \in r.since[e]

LEMMA BeginningOK ==
    ASSUME NEW r \in Reads, Beginning(r), NEW todo \in SUBSET Entities, NEW n
    PROVE  /\ Resolve(r, todo) \in Reads
           /\ ReadOK(Resolve(r, todo), owner, n)
<1> DEFINE s == Resolve(r, todo)
<1>1. /\ s \in Reads /\ s.todo = todo
      /\ s.pc = IF todo # {} /\ Readable(r.options) THEN "value" ELSE "done"
      /\ s.options = r.options /\ s.since = r.since /\ s.shown = {} /\ s.seen = {}
  BY ResolveFields DEF Beginning
<1> HIDE DEF s
<1>2. ReadOK(s, owner, n)
  BY <1>1 DEF ReadOK, Beginning
<1>3. QED BY <1>1, <1>2 DEF s

LEMMA NewReadOK ==
    ASSUME ReadInv, NEW g \in {"ws", "gql"}, NEW i \in Identities, NEW p \in Projections
    PROVE  /\ NewRead(g, i, p) \in Reads /\ Beginning(NewRead(g, i, p))
           /\ NewRead(g, i, p).by = i
<1>1. [e \in Entities |-> {owner[e]}] \in [Entities -> Owners]
  BY DEF ReadInv, Owners
<1>2. QED BY <1>1 DEF NewRead, Reads, Beginning

LEMMA KeyOK ==
    ASSUME NEW i \in Identities, NEW owned \in BOOLEAN, NEW limit \in 0..(MaxRows + 1)
    PROVE  CacheKey(i, owned, limit) \in Keys
<1>1. Clamped(limit) \in 1..MaxRows
  BY GatewayAssumption DEF Clamped
<1>2. QED BY <1>1 DEF CacheKey, Keys

LEMMA RequestKeeps ==
    ASSUME ReadInv, NEW c \in Clients, RequestEntity(c)
    PROVE  ReadInv'
<1>1. PICK g \in {"ws", "gql"}, i \in Identities, p \in Projections, e \in Entities :
         read' = [read EXCEPT ![c] = Resolve(NewRead(g, i, p), {e})]
  BY DEF RequestEntity
<1>2. UNCHANGED <<owner, faults>> /\ CacheTyped'
  BY DEF RequestEntity, ReadInv, CacheTyped
<1> DEFINE r == Resolve(NewRead(g, i, p), {e})
<1>3. {e} \in SUBSET Entities
  OBVIOUS
<1>4. r \in Reads /\ ReadOK(r, owner, faults)
  BY <1>3, NewReadOK, BeginningOK
<1> HIDE DEF r
<1>5. read' = [read EXCEPT ![c] = r]
  BY <1>1 DEF r
<1>6. QED BY <1>2, <1>4, <1>5, ReadStep

(* A request for a collection whose ids have been found.                   *)
Listing(i, p, key, rows) ==
    [[NewRead("ws", i, p) EXCEPT !.key = key] EXCEPT !.listing = rows]

LEMMA ListingOK ==
    ASSUME ReadInv, NEW who \in Identities, NEW options \in Projections,
           NEW k \in Keys, NEW ids \in Listings
    PROVE  LET q == Listing(who, options, k, ids) IN
           q \in Reads /\ Beginning(q) /\ q.by = who /\ q.key = k /\ q.listing = ids
<1> DEFINE a == NewRead("ws", who, options)
           b == [a EXCEPT !.key = k]
           q == Listing(who, options, k, ids)
<1>1. a \in Reads /\ Beginning(a) /\ a.by = who
  BY NewReadOK
<1>2. q = [b EXCEPT !.listing = ids]
  BY DEF Listing
<1> HIDE DEF a, q
<1>3. b \in Reads
  BY <1>1, Zenon DEF Reads
<1>4. b.by = who /\ b.key = k /\ b.shown = a.shown /\ b.seen = a.seen /\ b.since = a.since
  BY <1>1 DEF Reads
<1> HIDE DEF b
<1>5. q \in Reads
  BY <1>2, <1>3, Zenon DEF Reads
<1>6. /\ q.by = who /\ q.key = k /\ q.listing = ids /\ q.shown = a.shown
      /\ q.seen = a.seen /\ q.since = a.since
  BY <1>2, <1>3, <1>4 DEF Reads
<1>7. Beginning(q)
  BY <1>1, <1>6 DEF Beginning
<1>8. QED BY <1>5, <1>6, <1>7 DEF q

LEMMA CollectionKeeps ==
    ASSUME ReadInv, NEW c \in Clients, RequestCollection(c)
    PROVE  ReadInv'
<1>1. UNCHANGED <<owner, faults, now>>
  BY DEF RequestCollection
<1>2. PICK i \in Identities, p \in Listed, owned \in BOOLEAN, limit \in 0..(MaxRows + 1) :
        LET key == CacheKey(i, owned, limit)
            r == [NewRead("ws", i, p) EXCEPT !.key = key] IN
        IF Live(key)
        THEN /\ read' = [read EXCEPT ![c] =
                  Resolve([r EXCEPT !.listing = [ids |-> cache[key].ids, at |-> now]],
                          cache[key].ids)]
             /\ UNCHANGED cache
        ELSE /\ read' = [read EXCEPT ![c] = [r EXCEPT !.pc = "query"]]
             /\ cache' = [cache EXCEPT ![key] = None]
  BY DEF RequestCollection
<1>3. p \in Projections
  BY GatewayAssumption
<1>4. PICK key \in Keys : key = CacheKey(i, owned, limit)
  BY KeyOK
<1> DEFINE a == [NewRead("ws", i, p) EXCEPT !.key = key]
<1>5. CASE Live(key)
  <2> DEFINE listing == [ids |-> cache[key].ids, at |-> now]
             b == [a EXCEPT !.listing = listing]
             r == Resolve(b, cache[key].ids)
  <2>1. cache[key] \in Entries
    BY <1>5 DEF Live, ReadInv, CacheTyped
  <2>2. cache[key].ids \in SUBSET Entities /\ listing \in Listings
    BY <2>1 DEF Entries, Listings, ReadInv, CacheTyped
  <2>3. b \in Reads /\ Beginning(b)
    <3>1. b = Listing(i, p, key, listing)
      BY Zenon DEF Listing
    <3> HIDE DEF listing, b
    <3>2. QED BY <1>3, <2>2, <3>1, ListingOK
  <2>4. read' = [read EXCEPT ![c] = r] /\ UNCHANGED cache
    BY <1>2, <1>4, <1>5
  <2> HIDE DEF b
  <2>5. r \in Reads /\ ReadOK(r, owner, faults)
    BY <2>2, <2>3, BeginningOK
  <2> HIDE DEF r
  <2>6. CacheTyped'
    BY <1>1, <2>4 DEF ReadInv, CacheTyped
  <2>7. QED BY <1>1, <2>4, <2>5, <2>6, ReadStep
<1>6. CASE ~Live(key)
  <2> DEFINE r == [a EXCEPT !.pc = "query"]
  <2>1. /\ read' = [read EXCEPT ![c] = r]
        /\ cache' = [cache EXCEPT ![key] = None]
    BY <1>2, <1>4, <1>6
  <2>2. NewRead("ws", i, p) \in Reads /\ Beginning(NewRead("ws", i, p))
    BY <1>3, NewReadOK
  <2>3. a \in Reads
    BY <2>2, Zenon DEF Reads
  <2>4. a.key = key /\ a.shown = {} /\ a.seen = {} /\ a.since = NewRead("ws", i, p).since
    BY <2>2 DEF Reads, Beginning
  <2> HIDE DEF a
  <2>5. r \in Reads
    BY <2>3, Zenon DEF Reads
  <2>6. /\ r.pc = "query" /\ r.key = key /\ r.shown = {} /\ r.seen = {}
        /\ r.since = NewRead("ws", i, p).since
    BY <2>3, <2>4 DEF Reads
  <2>7. ReadOK(r, owner, faults)
    BY <2>2, <2>6 DEF ReadOK, Beginning
  <2>8. CacheTyped'
    BY <1>1, <2>1 DEF ReadInv, CacheTyped
  <2> HIDE DEF r
  <2>9. QED BY <1>1, <2>1, <2>5, <2>7, <2>8, ReadStep
<1>7. QED BY <1>5, <1>6

LEMMA RowsOf ==
    ASSUME NEW o, NEW i, NEW key PROVE Rows(o, i, key) \in SUBSET Entities
BY DEF Rows

LEMMA QueryKeeps ==
    ASSUME ReadInv, NEW c \in Clients, QueryRows(c)
    PROVE  ReadInv'
<1> DEFINE r == read[c]
<1>1. r \in Reads /\ ReadOK(r, owner, faults) /\ r.pc = "query"
  BY DEF ReadInv, QueryRows, Reading
<1>2. UNCHANGED <<owner, faults>> /\ CacheTyped'
  BY DEF QueryRows, ReadInv, CacheTyped
<1>3. PICK listing \in Listings :
        listing = [ids |-> Rows(owner, r.by, r.key), at |-> now]
  BY RowsOf DEF Listings, ReadInv, CacheTyped
<1> DEFINE a == [r EXCEPT !.pc = "fill"]
           s == [a EXCEPT !.listing = listing]
<1>4. read' = [read EXCEPT ![c].pc = "fill", ![c].listing = listing]
  BY <1>3 DEF QueryRows
<1>5. read' = [read EXCEPT ![c] = s]
  BY <1>4 DEF ReadInv
<1>6. a \in Reads
  BY <1>1, Zenon DEF Reads
<1>7. /\ a.pc = "fill" /\ a.key = r.key /\ a.shown = r.shown /\ a.seen = r.seen
      /\ a.since = r.since
  BY <1>1 DEF Reads
<1> HIDE DEF a
<1>8. s \in Reads
  BY <1>6, Zenon DEF Reads
<1>9. /\ s.pc = "fill" /\ s.key = r.key /\ s.shown = r.shown /\ s.seen = r.seen
      /\ s.since = r.since /\ s.listing = listing
  BY <1>6, <1>7 DEF Reads
<1>10. ReadOK(s, owner, faults)
  BY <1>1, <1>9 DEF ReadOK
<1> HIDE DEF s
<1>11. QED BY <1>2, <1>5, <1>8, <1>10, ReadStep

LEMMA FilledOK ==
    ASSUME CacheTyped, NEW key \in Keys, NEW ids \in SUBSET Entities
    PROVE  Filled(key, ids) \in [Keys -> Entries \cup {None}]
<1>1. now + Ttl \in Nat
  BY GatewayAssumption DEF CacheTyped
<1>2. [ids |-> ids, expiresAt |-> now + Ttl] \in Entries
  BY <1>1 DEF Entries
<1>3. QED BY <1>2 DEF Filled, CacheTyped

LEMMA FillKeeps ==
    ASSUME ReadInv, NEW c \in Clients, FillCache(c)
    PROVE  ReadInv'
<1> DEFINE r == read[c]
<1>1. r \in Reads /\ ReadOK(r, owner, faults) /\ r.pc = "fill"
  BY DEF ReadInv, FillCache, Reading
<1>2. UNCHANGED <<owner, faults, now>>
  BY DEF FillCache
<1>3. r.listing.ids \in SUBSET Entities /\ r.key \in Keys /\ Beginning(r)
  BY <1>1 DEF ReadOK, Listings, Beginning
<1>4. CacheTyped'
  BY <1>2, <1>3, FilledOK DEF FillCache, CacheTyped, ReadInv
<1> DEFINE s == Resolve(r, r.listing.ids)
<1>5. s \in Reads /\ ReadOK(s, owner, faults)
  BY <1>1, <1>3, BeginningOK
<1> HIDE DEF s
<1>6. read' = [read EXCEPT ![c] = s]
  BY DEF FillCache, s
<1>7. QED BY <1>2, <1>4, <1>5, <1>6, ReadStep

(* The component that was found is the one to be decided.                  *)
ValueFound(r, named) == [r EXCEPT !.named = named, !.found = {},
                                  !.seen = @ \cup {<<First(r.todo), named>>}]

LEMMA ValueAtHand ==
    ASSUME NEW r \in Reads, NEW o, NEW n, ReadOK(r, o, n), r.pc = "value",
           NEW named \in SUBSET Identities
    PROVE  LET e == First(r.todo)
               q == ValueFound(r, named)
           IN  /\ q \in Reads /\ AtHand(q, o, n) /\ First(q.todo) = e
               /\ q.options = r.options /\ q.gate = r.gate /\ q.by = r.by
               /\ q.named = named /\ q.found = {} /\ q.since = r.since
               /\ q.key = r.key /\ q.listing = r.listing
<1> DEFINE e == First(r.todo)
<1>1. r.todo \in SUBSET Entities /\ r.todo # {} /\ Readable(r.options)
  BY DEF ReadOK, Reads
<1>2. e \in Entities
  BY <1>1, FirstOf
<1>3. PICK seen \in SUBSET Found : seen = r.seen \cup {<<e, named>>}
  <2>1. <<e, named>> \in Found
    BY <1>2 DEF Found
  <2>2. r.seen \subseteq Found
    BY DEF Reads
  <2>3. QED BY <2>1, <2>2
<1> DEFINE a == [r EXCEPT !.named = named]
           b == [a EXCEPT !.found = {}]
           q == [b EXCEPT !.seen = seen]
<1>4. a \in Reads
  BY Zenon DEF Reads
<1>5. /\ a.options = r.options /\ a.gate = r.gate /\ a.by = r.by /\ a.todo = r.todo
      /\ a.named = named /\ a.since = r.since /\ a.shown = r.shown /\ a.pc = "value"
      /\ a.key = r.key /\ a.listing = r.listing /\ a.seen = r.seen
  BY DEF Reads
<1> HIDE DEF a
<1>6. b \in Reads
  <2>1. {} \in SUBSET Identities
    OBVIOUS
  <2>2. QED BY <1>4, <2>1, Zenon DEF Reads
<1>7. /\ b.options = r.options /\ b.gate = r.gate /\ b.by = r.by /\ b.todo = r.todo
      /\ b.named = named /\ b.since = r.since /\ b.shown = r.shown /\ b.pc = "value"
      /\ b.key = r.key /\ b.listing = r.listing /\ b.found = {} /\ b.seen = r.seen
  BY <1>4, <1>5 DEF Reads
<1> HIDE DEF b
<1>8. q \in Reads
  BY <1>6, Zenon DEF Reads
<1>9. /\ q.options = r.options /\ q.gate = r.gate /\ q.by = r.by /\ q.todo = r.todo
      /\ q.named = named /\ q.since = r.since /\ q.shown = r.shown /\ q.pc = "value"
      /\ q.key = r.key /\ q.listing = r.listing /\ q.found = {} /\ q.seen = seen
  BY <1>6, <1>7 DEF Reads
<1>10. q = ValueFound(r, named)
  BY <1>3, <1>7 DEF a, b, ValueFound
<1> HIDE DEF q
<1>11. AtHand(q, o, n)
  <2>1. \A x, t : Entitled(q, x, t) <=> Entitled(r, x, t)
    BY <1>9 DEF Entitled
  <2>2. \A x \in q.shown : Justified(q, x)
    BY <1>9, <2>1 DEF ReadOK, Justified
  <2>3. ASSUME n = 0, NEW x \in q.seen
        PROVE  x \in q.shown \/ Excused(q, x) \/ x = <<First(q.todo), q.named>>
    <3>1. CASE x \in r.seen
      <4>1. x \in r.shown \/ Excused(r, x)
        BY <2>3, <3>1 DEF ReadOK, Undecided
      <4>2. QED BY <1>9, <2>1, <4>1 DEF Excused
    <3>2. CASE x = <<e, named>>
      BY <1>9, <3>2
    <3>3. QED BY <1>3, <1>9, <2>3, <3>1, <3>2
  <2>4. QED BY <1>1, <1>9, <2>2, <2>3 DEF AtHand, ReadOK
<1>12. QED BY <1>8, <1>9, <1>10, <1>11

(* It goes on to a read of the owner component.                            *)
LEMMA AwaitsOwnerOK ==
    ASSUME NEW q \in Reads, NEW o, NEW n, AtHand(q, o, n), q.found = {},
           NEW pc \in {"audience", "fallback"},
           pc = "audience" => AudienceReadsOwner(q.options),
           pc = "fallback" /\ AudienceReadsOwner(q.options) /\ n = 0 =>
             None \in q.since[First(q.todo)]
    PROVE  [q EXCEPT !.pc = pc] \in Reads /\ ReadOK([q EXCEPT !.pc = pc], o, n)
<1> DEFINE s == [q EXCEPT !.pc = pc]
<1>1. s \in Reads
  BY Zenon DEF Reads
<1>2. /\ s.pc = pc /\ s.options = q.options /\ s.by = q.by /\ s.todo = q.todo
      /\ s.named = q.named /\ s.found = {} /\ s.since = q.since /\ s.shown = q.shown
      /\ s.seen = q.seen
  BY DEF Reads
<1> HIDE DEF s
<1>3. \A x, t : Entitled(s, x, t) <=> Entitled(q, x, t)
  BY <1>2 DEF Entitled
<1>4. ASSUME n = 0, NEW x \in s.seen
      PROVE  x \in s.shown \/ Excused(s, x) \/ Undecided(s, x)
  <2>1. x \in q.shown \/ Excused(q, x) \/ x = <<First(q.todo), q.named>>
    BY <1>2, <1>4 DEF AtHand
  <2>2. QED BY <1>2, <1>3, <2>1 DEF Excused, Undecided
<1>5. \A x \in s.shown : Justified(s, x)
  BY <1>2, <1>3 DEF AtHand, Justified
<1>6. ReadOK(s, o, n)
  BY <1>2, <1>4, <1>5 DEF AtHand, ReadOK
<1>7. QED BY <1>1, <1>6 DEF s

LEMMA ValueKeeps ==
    ASSUME ReadInv, NEW c \in Clients, ReadValue(c)
    PROVE  ReadInv'
<1> DEFINE r == read[c]
           e == First(r.todo)
<1>1. r \in Reads /\ ReadOK(r, owner, faults) /\ r.pc = "value"
  BY DEF ReadInv, ReadValue, Reading
<1>2. UNCHANGED <<owner, faults>> /\ CacheTyped'
  BY DEF ReadValue, ReadInv, CacheTyped
<1>3. r.todo \in SUBSET Entities /\ r.todo # {}
  BY <1>1 DEF ReadOK, Reads
<1>4. CASE read' = [read EXCEPT ![c] = Resolve(r, Rest(r.todo))]
  <2> DEFINE s == Resolve(r, Rest(r.todo))
  <2>1. Rest(r.todo) \in SUBSET Entities
    BY <1>3 DEF Rest
  <2>2. /\ s \in Reads /\ s.pc \in {"value", "done"}
        /\ s.pc = "value" => s.todo # {} /\ Readable(s.options)
        /\ s.options = r.options /\ s.by = r.by
        /\ s.since = r.since /\ s.shown = r.shown /\ s.seen = r.seen
    BY <1>1, <2>1, ResolveFields
  <2> HIDE DEF s
  <2>3. \A x, t : Entitled(s, x, t) <=> Entitled(r, x, t)
    BY <2>2 DEF Entitled
  <2>4. ReadOK(s, owner, faults)
    BY <1>1, <2>2, <2>3 DEF ReadOK, Justified, Excused, Undecided
  <2>5. QED BY <1>2, <1>4, <2>2, <2>4, ReadStep DEF s
<1>5. ASSUME NEW named \in SUBSET Identities,
             read' = [read EXCEPT ![c] =
                 IF AudienceReadsOwner(r.options)
                 THEN [ValueFound(r, named) EXCEPT !.pc = "audience"]
                 ELSE IF FallbackReadsOwner(r.options, Facts(e, named, {}))
                 THEN [ValueFound(r, named) EXCEPT !.pc = "fallback"]
                 ELSE Decide(ValueFound(r, named), {}, {})]
      PROVE  ReadInv'
  <2>1. PICK q : q = ValueFound(r, named)
    OBVIOUS
  <2>2. /\ q \in Reads /\ AtHand(q, owner, faults) /\ First(q.todo) = e
        /\ q.options = r.options /\ q.gate = r.gate /\ q.by = r.by
        /\ q.named = named /\ q.found = {} /\ q.since = r.since
    BY <1>1, <2>1, ValueAtHand
  <2>3. PICK s : s = IF AudienceReadsOwner(r.options) THEN [q EXCEPT !.pc = "audience"]
                     ELSE IF FallbackReadsOwner(r.options, Facts(e, named, {}))
                     THEN [q EXCEPT !.pc = "fallback"]
                     ELSE Decide(q, {}, {})
    OBVIOUS
  <2>4. s \in Reads /\ ReadOK(s, owner, faults)
    <3>1. CASE AudienceReadsOwner(r.options)
      BY <2>2, <2>3, <3>1, AwaitsOwnerOK
    <3>2. CASE /\ ~AudienceReadsOwner(r.options)
               /\ FallbackReadsOwner(r.options, Facts(e, named, {}))
      BY <2>2, <2>3, <3>2, AwaitsOwnerOK
    <3>3. CASE /\ ~AudienceReadsOwner(r.options)
               /\ ~FallbackReadsOwner(r.options, Facts(e, named, {}))
      <4>1. s = Decide(q, {}, {})
        BY <2>3, <3>3
      <4>2. owner[e] \in q.since[e]
        BY <1>3, <2>2, FirstOf DEF AtHand
      <4>3. ASSUME Entitled(q, <<e, named>>, owner[e])
            PROVE  Receives(q.gate, q.options, q.by, Facts(e, named, {}),
                            Facts(e, named, {}))
        <5>1. ~(q.options.audience = "city" /\ q.options.ownerComponent)
          BY <2>2, <3>3, <4>3, EntitledExposed DEF FallbackReadsOwner, Audience
        <5>2. QED BY <2>2, <3>3, <4>3, <5>1, EntitledIsServed
      <4>4. QED BY <2>2, <4>1, <4>2, <4>3, DecideOK
    <3>4. QED BY <3>1, <3>2, <3>3
  <2>5. read' = [read EXCEPT ![c] = s]
    BY <1>5, <2>1, <2>3
  <2>6. QED BY <1>2, <2>4, <2>5, ReadStep
<1>6. CASE \E named \in IF r.options.ownerField THEN {{i} : i \in Identities} ELSE {{}} :
             LET q == [r EXCEPT !.named = named, !.found = {},
                                !.seen = @ \cup {<<e, named>>}] IN
             read' = [read EXCEPT ![c] =
                 IF AudienceReadsOwner(r.options) THEN [q EXCEPT !.pc = "audience"]
                 ELSE IF FallbackReadsOwner(r.options, Facts(e, named, {}))
                 THEN [q EXCEPT !.pc = "fallback"]
                 ELSE Decide(q, {}, {})]
  <2>1. PICK named \in IF r.options.ownerField THEN {{i} : i \in Identities} ELSE {{}} :
             read' = [read EXCEPT ![c] =
                 IF AudienceReadsOwner(r.options)
                 THEN [ValueFound(r, named) EXCEPT !.pc = "audience"]
                 ELSE IF FallbackReadsOwner(r.options, Facts(e, named, {}))
                 THEN [ValueFound(r, named) EXCEPT !.pc = "fallback"]
                 ELSE Decide(ValueFound(r, named), {}, {})]
    BY <1>6, Zenon DEF ValueFound
  <2>2. named \in SUBSET Identities
    BY <2>1
  <2>3. QED BY <1>5, <2>1, <2>2
<1>7. QED BY <1>4, <1>6 DEF ReadValue

(* What waits for the owner component is at hand.                          *)
LEMMA OwnerAtHand ==
    ASSUME NEW r \in Reads, NEW o, NEW n, NEW m, ReadOK(r, o, n), m = 0 => n = 0,
           r.pc \in {"audience", "fallback"}
    PROVE  AtHand(r, o, m)
BY DEF ReadOK, AtHand, Undecided

LEMMA AudienceKeeps ==
    ASSUME ReadInv, NEW c \in Clients, ReadAudience(c)
    PROVE  ReadInv'
<1> DEFINE r == read[c]
           e == First(r.todo)
           x == <<e, r.named>>
<1>1. r \in Reads /\ ReadOK(r, owner, faults) /\ r.pc = "audience"
  BY DEF ReadInv, ReadAudience, Reading
<1>2. owner' = owner /\ CacheTyped'
  BY DEF ReadAudience, ReadInv, CacheTyped
<1>3. PICK found \in {Owner(e), {}} :
         /\ IF found = Owner(e) THEN Ok ELSE Fault
         /\ read' = [read EXCEPT ![c] =
                IF FallbackReadsOwner(r.options, Facts(e, r.named, found))
                THEN [r EXCEPT !.pc = "fallback", !.found = found]
                ELSE Decide(r, found, {})]
  BY DEF ReadAudience
<1>4. /\ faults' = faults \/ faults' = faults + 1
      /\ faults' = 0 => faults = 0 /\ found = Owner(e)
  BY <1>3 DEF Ok, Fault, ReadInv
<1>5. AtHand(r, owner, faults')
  BY <1>1, <1>4, OwnerAtHand
<1>6. e \in Entities /\ owner[e] \in r.since[e]
  BY <1>1, <1>5, FirstOf DEF AtHand, Reads
<1>7. found \in SUBSET Identities /\ found \subseteq r.since[e]
  BY <1>6 DEF Owner, ReadInv
<1>8. AudienceReadsOwner(r.options)
  BY <1>1 DEF ReadOK
<1>9. CASE FallbackReadsOwner(r.options, Facts(e, r.named, found))
  <2>1. found = {}
    BY <1>8, <1>9 DEF AudienceReadsOwner, FallbackReadsOwner, Audience, Facts
  <2>2. faults' = 0 => None \in r.since[e]
    BY <1>4, <1>6, <2>1 DEF Owner
  <2> DEFINE q == [r EXCEPT !.found = {}]
             s == [q EXCEPT !.pc = "fallback"]
  <2>3. q \in Reads
    <3>1. {} \in SUBSET Identities
      OBVIOUS
    <3>2. QED BY <1>1, <3>1, Zenon DEF Reads
  <2>4. /\ q.options = r.options /\ q.by = r.by /\ q.todo = r.todo /\ q.named = r.named
        /\ q.found = {} /\ q.since = r.since /\ q.shown = r.shown /\ q.seen = r.seen
    BY <1>1 DEF Reads
  <2>5. s = [r EXCEPT !.pc = "fallback", !.found = found]
    BY <1>1, <2>1 DEF Reads
  <2> HIDE DEF q
  <2>6. \A y, t : Entitled(q, y, t) <=> Entitled(r, y, t)
    BY <2>4 DEF Entitled
  <2>7. AtHand(q, owner, faults')
    BY <1>5, <2>4, <2>6 DEF AtHand, Justified, Excused
  <2>8. s \in Reads /\ ReadOK(s, owner, faults')
    BY <2>2, <2>3, <2>4, <2>7, AwaitsOwnerOK
  <2> HIDE DEF s
  <2>9. read' = [read EXCEPT ![c] = s]
    BY <1>3, <1>9, <2>5
  <2>10. QED BY <1>2, <1>4, <2>8, <2>9, ReadStep
<1>10. CASE ~FallbackReadsOwner(r.options, Facts(e, r.named, found))
  <2> DEFINE s == Decide(r, found, {})
  <2>1. ASSUME faults' = 0, Entitled(r, x, owner[e])
        PROVE  Receives(r.gate, r.options, r.by, Facts(e, r.named, found),
                        Facts(e, r.named, {}))
    <3>1. found = {owner[e]} \ {None}
      BY <1>4, <2>1 DEF Owner
    <3>2. r.options.audience # "city"
      BY <1>8 DEF AudienceReadsOwner
    <3>3. QED BY <1>1, <2>1, <3>1, <3>2, EntitledIsServed
  <2>2. s \in Reads /\ ReadOK(s, owner, faults')
    <3>1. {} \in SUBSET Identities /\ found \cup {} \subseteq r.since[e]
      BY <1>7
    <3>2. faults' = 0 => \E q \in r.since[e] : Entitled(r, x, q) =>
            Receives(r.gate, r.options, r.by, Facts(e, r.named, found),
                     Facts(e, r.named, {}))
      BY <1>6, <2>1
    <3>3. QED BY <1>1, <1>5, <1>7, <3>1, <3>2, DecideOK
  <2>3. read' = [read EXCEPT ![c] = s]
    BY <1>3, <1>10
  <2> HIDE DEF s
  <2>4. QED BY <1>2, <1>4, <2>2, <2>3, ReadStep
<1>11. QED BY <1>9, <1>10

LEMMA FallbackKeeps ==
    ASSUME ReadInv, NEW c \in Clients, ReadFallback(c)
    PROVE  ReadInv'
<1> DEFINE r == read[c]
           e == First(r.todo)
           x == <<e, r.named>>
<1>1. r \in Reads /\ ReadOK(r, owner, faults) /\ r.pc = "fallback" /\ r.found = {}
  BY DEF ReadInv, ReadFallback, Reading, ReadOK
<1>2. owner' = owner /\ CacheTyped'
  BY DEF ReadFallback, ReadInv, CacheTyped
<1>3. PICK found \in {Owner(e), {}} :
         /\ IF found = Owner(e) THEN Ok ELSE Fault
         /\ read' = [read EXCEPT ![c] = Decide(r, {}, found)]
  BY <1>1 DEF ReadFallback
<1>4. /\ faults' = faults \/ faults' = faults + 1
      /\ faults' = 0 => faults = 0 /\ found = Owner(e)
  BY <1>3 DEF Ok, Fault, ReadInv
<1>5. AtHand(r, owner, faults')
  BY <1>1, <1>4, OwnerAtHand
<1>6. e \in Entities /\ owner[e] \in r.since[e]
  BY <1>1, <1>5, FirstOf DEF AtHand, Reads
<1>7. found \in SUBSET Identities /\ found \subseteq r.since[e]
  BY <1>6 DEF Owner, ReadInv
<1> DEFINE s == Decide(r, {}, found)
<1>8. ASSUME faults' = 0
      PROVE  \E q \in r.since[e] : Entitled(r, x, q) =>
               Receives(r.gate, r.options, r.by, Facts(e, r.named, {}),
                        Facts(e, r.named, found))
  <2>1. CASE AudienceReadsOwner(r.options)
    <3>1. None \in r.since[e]
      BY <1>1, <1>4, <1>8, <2>1 DEF ReadOK
    <3>2. ASSUME Entitled(r, x, None)
          PROVE  Receives(r.gate, r.options, r.by, Facts(e, r.named, {}),
                          Facts(e, r.named, found))
      <4>1. {} = {None} \ {None} /\ r.options.audience # "city"
        BY <2>1 DEF AudienceReadsOwner
      <4>2. QED BY <1>1, <3>2, <4>1, EntitledIsServed
    <3>3. QED BY <3>1, <3>2
  <2>2. CASE ~AudienceReadsOwner(r.options)
    <3>1. found = {owner[e]} \ {None}
      BY <1>4, <1>8 DEF Owner
    <3>2. Entitled(r, x, owner[e]) =>
               Receives(r.gate, r.options, r.by, Facts(e, r.named, {}),
                        Facts(e, r.named, found))
      BY <1>1, <2>2, <3>1, EntitledIsServed
    <3>3. QED BY <1>6, <3>2
  <2>3. QED BY <2>1, <2>2
<1>9. s \in Reads /\ ReadOK(s, owner, faults')
  BY <1>1, <1>5, <1>7, <1>8, DecideOK
<1>10. read' = [read EXCEPT ![c] = s]
  BY <1>3
<1> HIDE DEF s
<1>11. QED BY <1>2, <1>4, <1>9, <1>10, ReadStep

(* An owner component changes: more owners since a request arrived excuse  *)
(* and justify more.                                                       *)
LEMMA TransferKeepsReads ==
    ASSUME ReadInv, Transfer
    PROVE  ReadInv'
<1>1. PICK e \in Entities, i \in Identities \cup {None} :
         /\ owner' = [owner EXCEPT ![e] = i]
         /\ read' = [c \in Clients |->
              IF read[c] # None /\ ~Reading(c, "done")
              THEN [read[c] EXCEPT !.since[e] = @ \cup {i}] ELSE read[c]]
  BY DEF Transfer
<1>2. /\ owner' \in [Entities -> Identities \cup {None}] /\ faults' = faults
      /\ CacheTyped'
  BY <1>1 DEF ReadInv, Transfer, CacheTyped
<1>3. ASSUME NEW c \in Clients
      PROVE  /\ read'[c] \in Reads \cup {None}
             /\ read'[c] # None => ReadOK(read'[c], owner', faults)
  <2>1. CASE read[c] # None /\ ~Reading(c, "done")
    <3> DEFINE r == read[c]
    <3>1. r \in Reads /\ ReadOK(r, owner, faults) /\ r.pc # "done"
      BY <2>1 DEF ReadInv, Reading
    <3>2. PICK since \in [Entities -> Owners] : since = [r.since EXCEPT ![e] = @ \cup {i}]
      BY <3>1 DEF Reads, Owners
    <3> DEFINE s == [r EXCEPT !.since = since]
    <3>3. read'[c] = s
      BY <1>1, <2>1, <3>2
    <3>4. s \in Reads
      BY <3>1, Zenon DEF Reads
    <3>5. /\ s.since = since
          /\ \A f \in {"pc", "gate", "by", "options", "key", "listing", "todo", "named",
                       "found", "seen", "shown"} : s[f] = r[f]
      BY <3>1 DEF Reads
    <3>6. r.since \in [Entities -> Owners] /\ r.todo \in SUBSET Entities
          /\ r.shown \subseteq Found /\ r.seen \subseteq Found
      BY <3>1 DEF Reads
    <3>7. \A f \in Entities : r.since[f] \subseteq since[f]
      BY <3>2, <3>6
    <3>8. \A f \in Entities : owner'[f] \in since[f]
      BY <1>1, <3>1, <3>2, <3>6 DEF ReadOK, ReadInv
    <3> HIDE DEF s
    <3>9. \A y, t : Entitled(s, y, t) <=> Entitled(r, y, t)
      BY <3>5 DEF Entitled
    <3>10. \A y \in Found : (Justified(r, y) => Justified(s, y))
                            /\ (Excused(r, y) => Excused(s, y))
      BY <3>5, <3>7, <3>9 DEF Justified, Excused, Found
    <3>11. r.todo # {} => First(r.todo) \in Entities
      BY <3>6, FirstOf
    <3>12. ReadOK(s, owner', faults)
      BY <3>1, <3>5, <3>6, <3>7, <3>8, <3>10, <3>11 DEF ReadOK, Undecided
    <3>13. QED BY <3>3, <3>4, <3>12
  <2>2. CASE ~(read[c] # None /\ ~Reading(c, "done"))
    <3>1. read'[c] = read[c] /\ (read[c] # None => read[c].pc = "done")
      BY <1>1, <2>2 DEF Reading
    <3>2. QED BY <3>1 DEF ReadInv, ReadOK
  <2>3. QED BY <2>1, <2>2
<1>4. read' \in [Clients -> Reads \cup {None}]
  <2>1. read' = [c \in Clients |-> read'[c]]
    BY <1>1
  <2>2. \A c \in Clients : read'[c] \in Reads \cup {None}
    BY <1>3
  <2>3. QED BY <2>1, <2>2
<1>5. QED BY <1>2, <1>3, <1>4 DEF ReadInv

LEMMA ReadInitially == Init => ReadInv
<1> SUFFICES ASSUME Init PROVE ReadInv
  OBVIOUS
<1>1. CacheTyped
  BY GatewayAssumption DEF Init, CacheTyped
<1>2. QED BY <1>1 DEF Init, ReadInv

LEMMA ReadKept == ReadInv /\ [Next]_vars => ReadInv'
<1> SUFFICES ASSUME ReadInv, [Next]_vars PROVE ReadInv'
  OBVIOUS
<1>1. CASE UNCHANGED vars
  <2>1. CacheTyped' /\ UNCHANGED <<read, owner, faults>>
    BY <1>1 DEF vars, ReadInv, CacheTyped
  <2>2. QED BY <2>1, ReadFrame
<1>2. CASE Transfer
  BY <1>2, TransferKeepsReads
<1>3. CASE Tick
  <2>1. UNCHANGED <<read, owner, faults, cache>> /\ now' \in 0..MaxTime
    BY <1>3, GatewayAssumption DEF Tick, ReadInv, CacheTyped
  <2>2. CacheTyped'
    BY <2>1 DEF ReadInv, CacheTyped
  <2>3. QED BY <2>1, <2>2, ReadFrame
<1>4. CASE ExecuteWsQuery \/ ExecuteGqlQuery \/ ExecuteRestQuery
  <2>1. UNCHANGED <<read, owner, faults, cache, now>>
    BY <1>4 DEF ExecuteWsQuery, ExecuteGqlQuery, ExecuteRestQuery, Asking
  <2>2. CacheTyped'
    BY <2>1 DEF ReadInv, CacheTyped
  <2>3. QED BY <2>1, <2>2, ReadFrame
<1>5. ASSUME NEW c \in Clients, ReceiveWrite(c) \/ ReadScope(c) \/ Apply(c)
      PROVE  ReadInv'
  <2>1. /\ UNCHANGED <<read, owner, cache, now>>
        /\ faults' = faults \/ faults' = faults + 1
    BY <1>5 DEF ReceiveWrite, ReadScope, Apply, Ok, Fault
  <2>2. CacheTyped'
    BY <2>1 DEF ReadInv, CacheTyped
  <2>3. QED BY <2>1, <2>2, ReadFrame
<1>6. QED BY <1>1, <1>2, <1>3, <1>4, <1>5, RequestKeeps, CollectionKeeps, QueryKeeps,
          FillKeeps, ValueKeeps, AudienceKeeps, FallbackKeeps DEF Next

LEMMA ReadsHold == Spec => []ReadInv
BY ReadInitially, ReadKept, PTL DEF Spec

(* A snapshot holds only what its reader was entitled to at some moment    *)
(* since the request arrived, however the awaited reads fall.              *)
THEOREM SnapshotsKeepAudience == Spec => []SnapshotsWithinAudience
<1>1. ReadInv => SnapshotsWithinAudience
  BY DEF ReadInv, ReadOK, Justified, SnapshotsWithinAudience
<1>2. QED BY <1>1, ReadsHold, PTL

(* Who was entitled all the while gets what the lookup found.              *)
THEOREM EntitledGetTheirs == Spec => []EntitledAreServed
<1>1. ASSUME ReadInv, NEW c \in Clients, Reading(c, "done"), faults = 0,
             NEW x \in read[c].seen,
             \A o \in read[c].since[x[1]] : Entitled(read[c], x, o)
      PROVE  x \in read[c].shown
  <2>1. ReadOK(read[c], owner, faults) /\ read[c].pc = "done"
    BY <1>1 DEF ReadInv, Reading
  <2>2. x \in read[c].shown \/ Excused(read[c], x) \/ Undecided(read[c], x)
    BY <1>1, <2>1 DEF ReadOK
  <2>3. QED BY <1>1, <2>1, <2>2 DEF Excused, Undecided
<1>2. ReadInv => EntitledAreServed
  BY <1>1 DEF EntitledAreServed
<1>3. QED BY <1>2, ReadsHold, PTL

-----------------------------------------------------------------------------
(* The inductive invariant of collections: where the ids of a request r    *)
(* and of the cache come from, at time t and with the owners p so far.     *)

Times == Nat \X [Entities -> Identities \cup {None}]

(* The ids are those of the reader's query at the time x.                  *)
Recent(r, x) == /\ x[1] <= r.listing.at
                /\ \/ r.listing.at = x[1]
                   \/ r.listing.at < x[1] + Ttl + MaxLatency
                /\ r.listing.ids = Rows(x[2], r.by, r.key)

ListOK(r, t, p) ==
    /\ r.pc \in {"query", "fill"} => (r.key.owned => r.key.of = r.by)
    /\ r.pc = "query" => r.listing = None
    /\ r.pc = "fill" => /\ t <= r.listing.at + MaxLatency
                        /\ \E x \in p : x[1] = r.listing.at
                                        /\ r.listing.ids = Rows(x[2], r.by, r.key)
    /\ r.listing # None => \E x \in p : Recent(r, x)

(* An entry was right when it was queried, and expires in time.            *)
EntryOK(k, entry, x) == /\ entry.ids = Rows(x[2], k.of, k)
                        /\ entry.expiresAt <= x[1] + Ttl + MaxLatency

CacheOK(entries, p) ==
    \A k \in Keys : entries[k] # None => \E x \in p : EntryOK(k, entries[k], x)

ListInv ==
    /\ past \subseteq Times /\ <<now, owner>> \in past
    /\ \A x \in past : x[1] <= now
    /\ CacheOK(cache, past)
    /\ \A c \in Clients : read[c] # None => ListOK(read[c], now, past)

LEMMA AskersRows ==
    ASSUME NEW o, NEW i, NEW key, key.owned => key.of = i
    PROVE  Rows(o, i, key) = Rows(o, key.of, key)
<1>1. \A e : Mine(o, i, key, e) <=> Mine(o, key.of, key, e)
  BY DEF Mine
<1>2. {e \in Entities : Mine(o, i, key, e)} = {e \in Entities : Mine(o, key.of, key, e)}
  BY <1>1
<1>3. QED BY <1>2, Zenon DEF Rows

(* One client's request goes on as r.                                      *)
LEMMA ListStep ==
    ASSUME ReadInv, ListInv, NEW c \in Clients, NEW r,
           read' = [read EXCEPT ![c] = r], UNCHANGED <<owner, now, past>>,
           CacheOK(cache', past), ListOK(r, now, past)
    PROVE  ListInv'
<1>1. read'[c] = r /\ \A d \in Clients \ {c} : read'[d] = read[d]
  BY DEF ReadInv
<1>2. ASSUME NEW d \in Clients, read'[d] # None PROVE ListOK(read'[d], now, past)
  <2>1. CASE d = c
    BY <1>1, <2>1
  <2>2. CASE d # c
    BY <1>1, <1>2, <2>2 DEF ListInv
  <2>3. QED BY <2>1, <2>2
<1>3. QED BY <1>2 DEF ListInv

LEMMA ListFrame ==
    ASSUME ListInv, UNCHANGED <<read, owner, now, past, cache>>
    PROVE  ListInv'
BY DEF ListInv

(* A request that is past its query keeps its ids.                         *)
LEMMA ListKept ==
    ASSUME ReadInv, ListInv, NEW c \in Clients, NEW s, read[c] # None,
           read' = [read EXCEPT ![c] = s], UNCHANGED <<owner, now, past>>,
           CacheOK(cache', past), s.pc \notin {"query", "fill"}, s.by = read[c].by,
           s.key = read[c].key, s.listing = read[c].listing
    PROVE  ListInv'
<1>1. ListOK(read[c], now, past)
  BY DEF ListInv
<1>2. ListOK(s, now, past)
  BY <1>1 DEF ListOK, Recent
<1>3. QED BY <1>2, ListStep

LEMMA ListRequest ==
    ASSUME ReadInv, ListInv, NEW c \in Clients, RequestEntity(c)
    PROVE  ListInv'
<1>1. PICK g \in {"ws", "gql"}, i \in Identities, p \in Projections, e \in Entities :
         read' = [read EXCEPT ![c] = Resolve(NewRead(g, i, p), {e})]
  BY DEF RequestEntity
<1>2. UNCHANGED <<owner, now, past, cache>>
  BY DEF RequestEntity
<1> DEFINE a == NewRead(g, i, p)
           r == Resolve(a, {e})
<1>3. a \in Reads /\ {e} \in SUBSET Entities /\ a.listing = None
  BY NewReadOK DEF NewRead
<1> HIDE DEF a
<1>4. r.pc \in {"value", "done"} /\ r.listing = None
  BY <1>3, ResolveFields
<1>5. ListOK(r, now, past)
  BY <1>4 DEF ListOK
<1>6. read' = [read EXCEPT ![c] = r] /\ CacheOK(cache', past)
  BY <1>1, <1>2 DEF a, ListInv
<1> HIDE DEF r
<1>7. QED BY <1>2, <1>5, <1>6, ListStep

LEMMA ListCollection ==
    ASSUME ReadInv, ListInv, NEW c \in Clients, RequestCollection(c)
    PROVE  ListInv'
<1>1. UNCHANGED <<owner, now, past>>
  BY DEF RequestCollection
<1>2. PICK i \in Identities, p \in Listed, owned \in BOOLEAN, limit \in 0..(MaxRows + 1) :
        LET key == CacheKey(i, owned, limit)
            r == [NewRead("ws", i, p) EXCEPT !.key = key] IN
        IF Live(key)
        THEN /\ read' = [read EXCEPT ![c] =
                  Resolve([r EXCEPT !.listing = [ids |-> cache[key].ids, at |-> now]],
                          cache[key].ids)]
             /\ UNCHANGED cache
        ELSE /\ read' = [read EXCEPT ![c] = [r EXCEPT !.pc = "query"]]
             /\ cache' = [cache EXCEPT ![key] = None]
  BY DEF RequestCollection
<1>3. p \in Projections
  BY GatewayAssumption
<1>4. PICK key \in Keys : key = CacheKey(i, owned, limit)
  BY KeyOK
<1>5. key.owned => key.of = i
  BY <1>4 DEF CacheKey
<1> DEFINE a == [NewRead("ws", i, p) EXCEPT !.key = key]
<1>6. CASE Live(key)
  <2> DEFINE listing == [ids |-> cache[key].ids, at |-> now]
             b == [a EXCEPT !.listing = listing]
             r == Resolve(b, cache[key].ids)
  <2>1. cache[key] \in Entries
    BY <1>6 DEF Live, ReadInv, CacheTyped
  <2>2. cache[key].ids \in SUBSET Entities /\ listing \in Listings
    BY <2>1 DEF Entries, Listings, ReadInv, CacheTyped
  <2>3. b \in Reads /\ b.by = i /\ b.key = key /\ b.listing = listing
    <3>1. b = Listing(i, p, key, listing)
      BY Zenon DEF Listing
    <3> HIDE DEF listing, b
    <3>2. QED BY <1>3, <2>2, <3>1, ListingOK
  <2>4. read' = [read EXCEPT ![c] = r] /\ UNCHANGED cache
    BY <1>2, <1>4, <1>6
  <2> HIDE DEF b
  <2>5. r.pc \in {"value", "done"} /\ r.by = i /\ r.key = key /\ r.listing = listing
    BY <2>2, <2>3, ResolveFields
  <2>6. PICK x \in past : EntryOK(key, cache[key], x)
    BY <1>6 DEF ListInv, CacheOK, Live
  <2>7. x[1] <= now /\ x[1] \in Nat
    BY DEF ListInv, Times
  <2>8. now < x[1] + Ttl + MaxLatency
    <3>1. now < cache[key].expiresAt /\ cache[key].expiresAt <= x[1] + Ttl + MaxLatency
      BY <1>6, <2>6 DEF Live, EntryOK
    <3>2. now \in Nat /\ cache[key].expiresAt \in Nat /\ Ttl \in Nat /\ MaxLatency \in Nat
      BY <2>1, GatewayAssumption DEF Entries, ReadInv, CacheTyped
    <3>3. QED BY <2>7, <3>1, <3>2
  <2>9. cache[key].ids = Rows(x[2], i, key)
    BY <1>5, <2>6, AskersRows DEF EntryOK
  <2>10. Recent(r, x)
    BY <2>5, <2>7, <2>8, <2>9 DEF Recent
  <2>11. ListOK(r, now, past)
    BY <2>5, <2>10 DEF ListOK
  <2> HIDE DEF r
  <2>12. CacheOK(cache', past)
    BY <2>4 DEF ListInv
  <2>13. QED BY <1>1, <2>4, <2>11, <2>12, ListStep
<1>7. CASE ~Live(key)
  <2> DEFINE r == [a EXCEPT !.pc = "query"]
  <2>1. /\ read' = [read EXCEPT ![c] = r]
        /\ cache' = [cache EXCEPT ![key] = None]
    BY <1>2, <1>4, <1>7
  <2>2. NewRead("ws", i, p) \in Reads /\ NewRead("ws", i, p).by = i
        /\ NewRead("ws", i, p).listing = None
    BY <1>3, NewReadOK DEF NewRead
  <2>3. a \in Reads
    BY <2>2, Zenon DEF Reads
  <2>4. a.key = key /\ a.by = i /\ a.listing = None
    BY <2>2 DEF Reads
  <2> HIDE DEF a
  <2>5. r.pc = "query" /\ r.key = key /\ r.by = i /\ r.listing = None
    BY <2>3, <2>4 DEF Reads
  <2>6. ListOK(r, now, past)
    BY <1>5, <2>5 DEF ListOK
  <2>7. CacheOK(cache', past)
    BY <2>1 DEF ListInv, CacheOK, ReadInv, CacheTyped
  <2> HIDE DEF r
  <2>8. QED BY <1>1, <2>1, <2>6, <2>7, ListStep
<1>8. QED BY <1>6, <1>7

LEMMA ListQuery ==
    ASSUME ReadInv, ListInv, NEW c \in Clients, QueryRows(c)
    PROVE  ListInv'
<1> DEFINE r == read[c]
           x == <<now, owner>>
<1>1. r \in Reads /\ r.pc = "query" /\ ListOK(r, now, past)
  BY DEF ReadInv, QueryRows, Reading, ListInv
<1>2. UNCHANGED <<owner, now, past, cache>>
  BY DEF QueryRows
<1>3. PICK listing \in Listings :
        listing = [ids |-> Rows(owner, r.by, r.key), at |-> now]
  BY RowsOf DEF Listings, ReadInv, CacheTyped
<1> DEFINE a == [r EXCEPT !.pc = "fill"]
           s == [a EXCEPT !.listing = listing]
<1>4. read' = [read EXCEPT ![c].pc = "fill", ![c].listing = listing]
  BY <1>3 DEF QueryRows
<1>5. read' = [read EXCEPT ![c] = s]
  BY <1>4 DEF ReadInv
<1>6. s.pc = "fill" /\ s.key = r.key /\ s.by = r.by /\ s.listing = listing
  BY <1>1 DEF Reads
<1>7. x \in past /\ x[1] = now /\ x[2] = owner
  BY DEF ListInv
<1>8. listing.at = now /\ listing.ids = Rows(owner, r.by, r.key)
  BY <1>3
<1> HIDE DEF s
<1>9. Recent(s, x)
  <2>1. now <= now
    BY DEF ReadInv, CacheTyped
  <2>2. QED BY <1>6, <1>7, <1>8, <2>1 DEF Recent
<1>10. ListOK(s, now, past)
  <2>1. now <= now + MaxLatency
    BY GatewayAssumption DEF ReadInv, CacheTyped
  <2>2. QED BY <1>1, <1>6, <1>7, <1>8, <1>9, <2>1 DEF ListOK
<1>11. CacheOK(cache', past)
  BY <1>2 DEF ListInv
<1>12. QED BY <1>2, <1>5, <1>10, <1>11, ListStep

LEMMA ListFill ==
    ASSUME ReadInv, ListInv, NEW c \in Clients, FillCache(c)
    PROVE  ListInv'
<1> DEFINE r == read[c]
           s == Resolve(r, r.listing.ids)
           entry == [ids |-> r.listing.ids, expiresAt |-> now + Ttl]
<1>1. /\ r \in Reads /\ r.pc = "fill" /\ read[c] # None
      /\ ReadOK(r, owner, faults) /\ ListOK(r, now, past)
  BY DEF ReadInv, FillCache, Reading, ListInv
<1>2. UNCHANGED <<owner, now, past>>
  BY DEF FillCache
<1>3. r.key \in Keys /\ r.listing \in Listings /\ r.listing.ids \in SUBSET Entities
  BY <1>1 DEF ReadOK, Listings
<1>4. PICK x \in past : x[1] = r.listing.at /\ r.listing.ids = Rows(x[2], r.by, r.key)
  BY <1>1 DEF ListOK
<1>5. EntryOK(r.key, entry, x)
  <2>1. r.listing.ids = Rows(x[2], r.key.of, r.key)
    BY <1>1, <1>4, AskersRows DEF ListOK
  <2>2. now <= x[1] + MaxLatency
    BY <1>1, <1>4 DEF ListOK
  <2>3. now \in Nat /\ x[1] \in Nat /\ Ttl \in Nat /\ MaxLatency \in Nat
    BY GatewayAssumption DEF ReadInv, CacheTyped, ListInv, Times
  <2>4. now + Ttl <= x[1] + Ttl + MaxLatency
    BY <2>2, <2>3
  <2>5. QED BY <2>1, <2>4 DEF EntryOK
<1>6. CacheOK(cache', past)
  <2>1. cache' = cache \/ cache' = [cache EXCEPT ![r.key] = entry]
    BY DEF FillCache, Filled
  <2> HIDE DEF entry
  <2>2. CASE cache' = [cache EXCEPT ![r.key] = entry]
    BY <1>3, <1>5, <2>2 DEF ReadInv, CacheTyped, ListInv, CacheOK
  <2>3. QED BY <2>1, <2>2 DEF ListInv
<1>7. /\ s.pc \in {"value", "done"} /\ s.by = r.by /\ s.key = r.key
      /\ s.listing = r.listing
  BY <1>1, <1>3, ResolveFields
<1>8. read' = [read EXCEPT ![c] = s]
  BY DEF FillCache
<1> HIDE DEF s
<1>9. QED BY <1>1, <1>2, <1>6, <1>7, <1>8, ListKept

(* A decision keeps the ids.                                               *)
LEMMA DecideFields ==
    ASSUME NEW q \in Reads, q.todo # {}, NEW first, NEW second
    PROVE  LET s == Decide(q, first, second) IN
           /\ s.pc \in {"value", "done"} /\ s.by = q.by
           /\ s.key = q.key /\ s.listing = q.listing
<1> DEFINE e == First(q.todo)
<1>1. PICK allowed \in BOOLEAN :
        allowed = Receives(q.gate, q.options, q.by, Facts(e, q.named, first),
                           Facts(e, q.named, second))
  BY DEF Receives, CanIdentityReceive, GqlCanIdentityReceive
<1>2. Decide(q, first, second) = Settled(q, allowed)
  BY <1>1, Zenon DEF Decide
<1> DEFINE s == Settled(q, allowed)
<1>3. s.pc \in {"value", "done"} /\ s.by = q.by /\ s.key = q.key /\ s.listing = q.listing
  BY SettledFields
<1> HIDE DEF s
<1>4. QED BY <1>2, <1>3 DEF s

(* What waits for the owner component keeps the ids.                       *)
LEMMA AwaitsFields ==
    ASSUME NEW q \in Reads, NEW pc \in {"audience", "fallback"}
    PROVE  LET s == [q EXCEPT !.pc = pc] IN
           s.pc = pc /\ s.by = q.by /\ s.key = q.key /\ s.listing = q.listing
BY DEF Reads

LEMMA ListValue ==
    ASSUME ReadInv, ListInv, NEW c \in Clients, ReadValue(c)
    PROVE  ListInv'
<1> DEFINE r == read[c]
           e == First(r.todo)
<1>1. /\ r \in Reads /\ ReadOK(r, owner, faults) /\ r.pc = "value" /\ read[c] # None
  BY DEF ReadInv, ReadValue, Reading
<1>2. UNCHANGED <<owner, now, past>> /\ CacheOK(cache', past)
  BY DEF ReadValue, ListInv
<1>3. r.todo \in SUBSET Entities /\ r.todo # {}
  BY <1>1 DEF ReadOK, Reads
<1>4. CASE read' = [read EXCEPT ![c] = Resolve(r, Rest(r.todo))]
  <2> DEFINE s == Resolve(r, Rest(r.todo))
  <2>1. Rest(r.todo) \in SUBSET Entities
    BY <1>3 DEF Rest
  <2>2. s.pc \in {"value", "done"} /\ s.by = r.by /\ s.key = r.key /\ s.listing = r.listing
    BY <1>1, <2>1, ResolveFields
  <2>3. read' = [read EXCEPT ![c] = s]
    BY <1>4
  <2> HIDE DEF s
  <2>4. QED BY <1>1, <1>2, <2>2, <2>3, ListKept
<1>5. ASSUME NEW named \in SUBSET Identities,
             read' = [read EXCEPT ![c] =
                 IF AudienceReadsOwner(r.options)
                 THEN [ValueFound(r, named) EXCEPT !.pc = "audience"]
                 ELSE IF FallbackReadsOwner(r.options, Facts(e, named, {}))
                 THEN [ValueFound(r, named) EXCEPT !.pc = "fallback"]
                 ELSE Decide(ValueFound(r, named), {}, {})]
      PROVE  ListInv'
  <2>1. PICK q : q = ValueFound(r, named)
    OBVIOUS
  <2>2. /\ q \in Reads /\ AtHand(q, owner, faults)
        /\ q.by = r.by /\ q.key = r.key /\ q.listing = r.listing
    BY <1>1, <2>1, ValueAtHand
  <2>3. q.todo # {}
    BY <2>2 DEF AtHand
  <2>4. PICK s : s = IF AudienceReadsOwner(r.options) THEN [q EXCEPT !.pc = "audience"]
                     ELSE IF FallbackReadsOwner(r.options, Facts(e, named, {}))
                     THEN [q EXCEPT !.pc = "fallback"]
                     ELSE Decide(q, {}, {})
    OBVIOUS
  <2>5. /\ s.pc \notin {"query", "fill"} /\ s.by = r.by /\ s.key = r.key
        /\ s.listing = r.listing
    <3>1. CASE s = [q EXCEPT !.pc = "audience"] \/ s = [q EXCEPT !.pc = "fallback"]
      BY <2>2, <3>1, AwaitsFields
    <3>2. CASE s = Decide(q, {}, {})
      BY <2>2, <2>3, <3>2, DecideFields
    <3>3. QED BY <2>4, <3>1, <3>2
  <2>6. read' = [read EXCEPT ![c] = s]
    BY <1>5, <2>1, <2>4
  <2>7. QED BY <1>1, <1>2, <2>5, <2>6, ListKept
<1>6. CASE \E named \in IF r.options.ownerField THEN {{i} : i \in Identities} ELSE {{}} :
             LET q == [r EXCEPT !.named = named, !.found = {},
                                !.seen = @ \cup {<<e, named>>}] IN
             read' = [read EXCEPT ![c] =
                 IF AudienceReadsOwner(r.options) THEN [q EXCEPT !.pc = "audience"]
                 ELSE IF FallbackReadsOwner(r.options, Facts(e, named, {}))
                 THEN [q EXCEPT !.pc = "fallback"]
                 ELSE Decide(q, {}, {})]
  <2>1. PICK named \in IF r.options.ownerField THEN {{i} : i \in Identities} ELSE {{}} :
             read' = [read EXCEPT ![c] =
                 IF AudienceReadsOwner(r.options)
                 THEN [ValueFound(r, named) EXCEPT !.pc = "audience"]
                 ELSE IF FallbackReadsOwner(r.options, Facts(e, named, {}))
                 THEN [ValueFound(r, named) EXCEPT !.pc = "fallback"]
                 ELSE Decide(ValueFound(r, named), {}, {})]
    BY <1>6, Zenon DEF ValueFound
  <2>2. named \in SUBSET Identities
    BY <2>1
  <2>3. QED BY <1>5, <2>1, <2>2
<1>7. QED BY <1>4, <1>6 DEF ReadValue

LEMMA ListAudience ==
    ASSUME ReadInv, ListInv, NEW c \in Clients, ReadAudience(c)
    PROVE  ListInv'
<1> DEFINE r == read[c]
<1>1. r \in Reads /\ r.todo # {} /\ read[c] # None
  BY DEF ReadInv, ReadAudience, Reading, ReadOK
<1>2. UNCHANGED <<owner, now, past>> /\ CacheOK(cache', past)
  BY DEF ReadAudience, ListInv
<1>3. PICK found \in {Owner(First(r.todo)), {}} : read' = [read EXCEPT ![c] =
                IF FallbackReadsOwner(r.options, Facts(First(r.todo), r.named, found))
                THEN [r EXCEPT !.pc = "fallback", !.found = found]
                ELSE Decide(r, found, {})]
  BY DEF ReadAudience
<1>4. PICK s : s = IF FallbackReadsOwner(r.options, Facts(First(r.todo), r.named, found))
                   THEN [r EXCEPT !.pc = "fallback", !.found = found]
                   ELSE Decide(r, found, {})
  OBVIOUS
<1>5. s.pc \notin {"query", "fill"} /\ s.by = r.by /\ s.key = r.key /\ s.listing = r.listing
  <2>1. CASE s = [r EXCEPT !.pc = "fallback", !.found = found]
    BY <1>1, <2>1 DEF Reads
  <2>2. CASE s = Decide(r, found, {})
    BY <1>1, <2>2, DecideFields
  <2>3. QED BY <1>4, <2>1, <2>2
<1>6. read' = [read EXCEPT ![c] = s]
  BY <1>3, <1>4
<1>7. QED BY <1>1, <1>2, <1>5, <1>6, ListKept

LEMMA ListFallback ==
    ASSUME ReadInv, ListInv, NEW c \in Clients, ReadFallback(c)
    PROVE  ListInv'
<1> DEFINE r == read[c]
<1>1. r \in Reads /\ r.todo # {} /\ read[c] # None
  BY DEF ReadInv, ReadFallback, Reading, ReadOK
<1>2. UNCHANGED <<owner, now, past>> /\ CacheOK(cache', past)
  BY DEF ReadFallback, ListInv
<1>3. PICK found \in {Owner(First(r.todo)), {}} :
        read' = [read EXCEPT ![c] = Decide(r, r.found, found)]
  BY DEF ReadFallback
<1>4. PICK s : s = Decide(r, r.found, found)
  OBVIOUS
<1>5. s.pc \in {"value", "done"} /\ s.by = r.by /\ s.key = r.key /\ s.listing = r.listing
  BY <1>1, <1>4, DecideFields
<1>6. read' = [read EXCEPT ![c] = s]
  BY <1>3, <1>4
<1>7. QED BY <1>1, <1>2, <1>5, <1>6, ListKept

(* What was so of the past remains so.                                     *)
LEMMA PastGrows ==
    ASSUME NEW p, NEW q, p \subseteq q
    PROVE  /\ \A entries : CacheOK(entries, p) => CacheOK(entries, q)
           /\ \A r, t : ListOK(r, t, p) => ListOK(r, t, q)
BY DEF CacheOK, ListOK

LEMMA ListTransfer ==
    ASSUME ReadInv, ListInv, Transfer
    PROVE  ListInv'
<1>1. PICK e \in Entities, i \in Identities \cup {None} :
         /\ owner' = [owner EXCEPT ![e] = i]
         /\ past' = past \cup {<<now, owner'>>}
         /\ read' = [c \in Clients |->
              IF read[c] # None /\ ~Reading(c, "done")
              THEN [read[c] EXCEPT !.since[e] = @ \cup {i}] ELSE read[c]]
  BY DEF Transfer
<1>2. UNCHANGED <<cache, now>>
  BY DEF Transfer
<1>3. past' \subseteq Times /\ <<now, owner'>> \in past' /\ \A x \in past' : x[1] <= now
  BY <1>1 DEF ListInv, Times, ReadInv, CacheTyped
<1>4. CacheOK(cache', past')
  BY <1>1, <1>2, PastGrows DEF ListInv
<1>5. ASSUME NEW c \in Clients, read'[c] # None PROVE ListOK(read'[c], now, past')
  <2>1. CASE read[c] # None /\ ~Reading(c, "done")
    <3> DEFINE r == read[c]
    <3>1. r \in Reads /\ ListOK(r, now, past')
      BY <1>1, <2>1, PastGrows DEF ListInv, ReadInv
    <3>2. PICK since : since = [r.since EXCEPT ![e] = @ \cup {i}]
      OBVIOUS
    <3> DEFINE s == [r EXCEPT !.since = since]
    <3>3. read'[c] = s
      BY <1>1, <2>1, <3>2
    <3>4. s.pc = r.pc /\ s.by = r.by /\ s.key = r.key /\ s.listing = r.listing
      BY <3>1 DEF Reads
    <3> HIDE DEF s
    <3>5. QED BY <3>1, <3>3, <3>4 DEF ListOK, Recent
  <2>2. CASE ~(read[c] # None /\ ~Reading(c, "done"))
    <3>1. read'[c] = read[c]
      BY <1>1, <2>2
    <3>2. QED BY <1>1, <1>5, <3>1, PastGrows DEF ListInv
  <2>3. QED BY <2>1, <2>2
<1>6. QED BY <1>2, <1>3, <1>4, <1>5 DEF ListInv

LEMMA ListTick ==
    ASSUME ReadInv, ListInv, Tick
    PROVE  ListInv'
<1>1. /\ now' = now + 1 /\ past' = past \cup {<<now', owner>>}
      /\ UNCHANGED <<read, owner, cache>>
      /\ \A c \in Clients : Reading(c, "fill") => now < read[c].listing.at + MaxLatency
  BY DEF Tick
<1>2. now \in Nat /\ now' \in Nat /\ MaxLatency \in Nat
  BY <1>1, GatewayAssumption DEF ReadInv, CacheTyped
<1>3. past' \subseteq Times /\ <<now', owner'>> \in past'
  BY <1>1, <1>2 DEF ListInv, Times, ReadInv
<1>4. \A x \in past' : x[1] <= now'
  BY <1>1, <1>2 DEF ListInv, Times
<1>5. CacheOK(cache', past')
  BY <1>1, PastGrows DEF ListInv
<1>6. ASSUME NEW c \in Clients, read[c] # None PROVE ListOK(read[c], now', past')
  <2>1. ListOK(read[c], now, past') /\ read[c] \in Reads /\ ReadOK(read[c], owner, faults)
    BY <1>1, <1>6, PastGrows DEF ListInv, ReadInv
  <2>2. read[c].pc = "fill" => now' <= read[c].listing.at + MaxLatency
    <3>1. SUFFICES ASSUME read[c].pc = "fill" PROVE now' <= read[c].listing.at + MaxLatency
      OBVIOUS
    <3>2. read[c].listing.at \in Nat
      BY <2>1, <3>1 DEF ReadOK, Listings
    <3>3. now < read[c].listing.at + MaxLatency
      BY <1>1, <1>6, <3>1 DEF Reading
    <3>4. QED BY <1>1, <1>2, <3>2, <3>3
  <2>3. QED BY <2>1, <2>2 DEF ListOK
<1>7. QED BY <1>1, <1>3, <1>4, <1>5, <1>6 DEF ListInv

LEMMA ListInitially == Init => ListInv
BY DEF Init, ListInv, CacheOK, Times

LEMMA ListsKept == ReadInv /\ ListInv /\ [Next]_vars => ListInv'
<1> SUFFICES ASSUME ReadInv, ListInv, [Next]_vars PROVE ListInv'
  OBVIOUS
<1>1. CASE UNCHANGED vars
  BY <1>1, ListFrame DEF vars
<1>2. CASE ExecuteWsQuery \/ ExecuteGqlQuery \/ ExecuteRestQuery
  BY <1>2, ListFrame DEF ExecuteWsQuery, ExecuteGqlQuery, ExecuteRestQuery, Asking
<1>3. ASSUME NEW c \in Clients, ReceiveWrite(c) \/ ReadScope(c) \/ Apply(c)
      PROVE  ListInv'
  BY <1>3, ListFrame DEF ReceiveWrite, ReadScope, Apply
<1>4. QED BY <1>1, <1>2, <1>3, ListRequest, ListCollection, ListQuery, ListFill,
          ListValue, ListAudience, ListFallback, ListTransfer, ListTick DEF Next

LEMMA ListsHold == Spec => []ListInv
<1>1. Init => ReadInv /\ ListInv
  BY ReadInitially, ListInitially
<1>2. (ReadInv /\ ListInv) /\ [Next]_vars => (ReadInv /\ ListInv)'
  BY ReadKept, ListsKept
<1>3. QED BY <1>1, <1>2, PTL DEF Spec

(* What a collection lists is what the query would have listed within the  *)
(* time to live and the time a query takes, whoever filled the cache.      *)
THEOREM CollectionsStayRecent == Spec => []CollectionsAreRecent
<1>1. ListInv => CollectionsAreRecent
  BY DEF ListInv, ListOK, Recent, CollectionsAreRecent
<1>2. QED BY <1>1, ListsHold, PTL

-----------------------------------------------------------------------------
(* Coercion of a scalar: there is at most one result, a null stays one,    *)
(* and anything else becomes of the type.                                  *)
ScalarTexts == [t : {"string", "number", "boolean", "null", "object"}, text : STRING]
Coerces(type, s, results) ==
    \A x \in results :
        /\ results = {x}
        /\ x \in [t : Types \cup {"null"}, text : STRING]
        /\ x.t = type \/ (x.t = "null" /\ s.t = "null")

LEMMA WsCoerces ==
    ASSUME NEW type \in Types, NEW s \in ScalarTexts
    PROVE  Coerces(type, s, WsCoerce(type, s))
<1>1. CASE s.t = "null"
  BY <1>1 DEF WsCoerce, Coerces, ScalarTexts
<1>2. CASE s.t # "null" /\ type # "date" /\ s.t = type
  BY <1>2 DEF WsCoerce, Coerces, ScalarTexts, Types
<1>3. CASE s.t # "null" /\ type = "date" /\ s.t \in {"string", "number"}
             /\ s.text \in DOMAIN DateText
  <2>1. DateText[s.text] \in STRING
    BY <1>3, RulesAssumption
  <2>2. WsCoerce(type, s) = {Scalar("date", DateText[s.text])}
    BY <1>3 DEF WsCoerce
  <2>3. QED BY <1>3, <2>1, <2>2 DEF Coerces, Scalar, Types
<1>4. CASE /\ s.t # "null" /\ ~(type # "date" /\ s.t = type)
           /\ ~(type = "date" /\ s.t \in {"string", "number"} /\ s.text \in DOMAIN DateText)
  BY <1>4 DEF WsCoerce, Coerces
<1>5. QED BY <1>1, <1>2, <1>3, <1>4

LEMMA RestCoerces ==
    ASSUME NEW type \in Types, NEW s \in ScalarTexts
    PROVE  /\ Coerces(type, s, RestCoerce(type, s))
           /\ WsCoerce(type, s) # {} => RestCoerce(type, s) = WsCoerce(type, s)
<1>1. CASE type = "boolean" /\ s.t = "string" /\ s.text \in {"true", "false"}
  <2>1. RestCoerce(type, s) = {Scalar("boolean", s.text)}
    BY <1>1 DEF RestCoerce
  <2>2. WsCoerce(type, s) = {}
    BY <1>1 DEF WsCoerce
  <2>3. QED BY <1>1, <2>1, <2>2 DEF Coerces, Scalar, Types, ScalarTexts
<1>2. CASE type = "number" /\ s.t = "string" /\ s.text \in DOMAIN NumberText
  <2>1. RestCoerce(type, s) = {Scalar("number", NumberText[s.text])}
    BY <1>2 DEF RestCoerce
  <2>2. WsCoerce(type, s) = {}
    BY <1>2 DEF WsCoerce
  <2>3. NumberText[s.text] \in STRING
    BY <1>2, RulesAssumption
  <2>4. QED BY <1>2, <2>1, <2>2, <2>3 DEF Coerces, Scalar, Types
<1>3. CASE /\ ~(type = "boolean" /\ s.t = "string" /\ s.text \in {"true", "false"})
           /\ ~(type = "number" /\ s.t = "string" /\ s.text \in DOMAIN NumberText)
  <2>1. RestCoerce(type, s) = WsCoerce(type, s)
    BY <1>3 DEF RestCoerce
  <2>2. QED BY <2>1, WsCoerces
<1>4. QED BY <1>1, <1>2, <1>3

-----------------------------------------------------------------------------
(* A parameter after normalization.                                        *)

Parameter(raw) ==
    /\ raw \in Raws
    /\ raw.form # "array" => Len(raw.items) = IF raw.form = "absent" THEN 0 ELSE 1

(* What HandlersGetDeclared asks of the result v of a declaration d.       *)
Declared(d, v) ==
    v # Refused /\ v # d.default =>
        /\ d.required => v.form # "absent"
        /\ v.form = "array" => d.array
        /\ v.form = "scalar" => ~d.array
        /\ \A k \in DOMAIN v.items :
             \/ v.items[k].t = d.type /\ InRange(d, v.items[k])
             \/ v.items[k].t = "null" /\ d.array

LEMMA NormalizedIsDeclared ==
    ASSUME NEW d \in ParamOptions, NEW raw, Parameter(raw),
           NEW coerced, NEW asArray \in BOOLEAN,
           \A k \in DOMAIN raw.items : Coerces(d.type, raw.items[k], coerced[k]),
           ~d.array => (asArray <=> raw.form = "array")
    PROVE  /\ Normalized(d, raw, coerced, asArray) \in Results
           /\ Declared(d, Normalized(d, raw, coerced, asArray))
<1> DEFINE gone == raw.form = "absent" \/ (raw.form = "scalar" /\ raw.items[1].t = "null")
           taken == /\ asArray <=> d.array
                    /\ \A k \in DOMAIN raw.items :
                         raw.items[k].t # "object" /\ \E s \in coerced[k] : InRange(d, s)
           v == Normalized(d, raw, coerced, asArray)
<1>1. /\ d.default \in Results \cup {None} /\ d.array \in BOOLEAN
      /\ d.required \in BOOLEAN /\ d.type \in Types
  BY DEF ParamOptions
<1>2. Absent \in Results /\ Refused \in Results /\ Absent.form = "absent" /\ Absent.items = <<>>
  BY DEF Absent, Refused, Results
<1>3. CASE gone /\ d.default # None
  <2>1. v = d.default
    BY <1>3 DEF Normalized
  <2>2. QED BY <1>1, <1>3, <2>1 DEF Declared
<1>4. CASE gone /\ d.default = None /\ d.required
  <2>1. v = Refused
    BY <1>4 DEF Normalized
  <2>2. QED BY <1>2, <2>1 DEF Declared
<1>5. CASE gone /\ d.default = None /\ ~d.required
  <2>1. v = Absent
    BY <1>5 DEF Normalized
  <2>2. QED BY <1>2, <1>5, <2>1 DEF Declared
<1>6. CASE ~gone /\ ~taken
  <2>1. v = Refused
    BY <1>6 DEF Normalized
  <2>2. QED BY <1>2, <2>1 DEF Declared
<1>7. CASE ~gone /\ taken
  <2> DEFINE items == [k \in DOMAIN raw.items |-> CHOOSE s \in coerced[k] : TRUE]
             form == IF d.array THEN "array" ELSE "scalar"
  <2>1. v = [form |-> form, items |-> items]
    BY <1>7 DEF Normalized
  <2>2. raw.items \in Seq(ScalarTexts) /\ DOMAIN raw.items = 1..Len(raw.items)
        /\ raw.form \in {"absent", "scalar", "array"}
    BY DEF Parameter, Raws, ScalarTexts
  <2>3. ASSUME NEW k \in DOMAIN raw.items
        PROVE  /\ items[k] \in [t : Types \cup {"null"}, text : STRING]
               /\ InRange(d, items[k])
               /\ items[k].t = d.type
                  \/ (items[k].t = "null" /\ raw.items[k].t = "null")
    <3>1. PICK s \in coerced[k] : InRange(d, s)
      BY <1>7
    <3>2. coerced[k] = {s} /\ s \in [t : Types \cup {"null"}, text : STRING]
          /\ (s.t = d.type \/ (s.t = "null" /\ raw.items[k].t = "null"))
      BY DEF Coerces
    <3>3. items[k] = s
      BY <3>2
    <3> HIDE DEF items
    <3>4. QED BY <3>1, <3>2, <3>3
  <2>4. items \in Seq([t : Types \cup {"null"}, text : STRING])
    <3>1. Len(raw.items) \in Nat /\ items = [k \in 1..Len(raw.items) |-> items[k]]
      BY <2>2
    <3>2. \A k \in 1..Len(raw.items) : items[k] \in [t : Types \cup {"null"}, text : STRING]
      BY <2>2, <2>3
    <3> HIDE DEF items
    <3>3. QED BY <3>1, <3>2
  <2>5. ASSUME NEW k \in DOMAIN raw.items, ~d.array PROVE raw.items[k].t # "null"
    <3>1. raw.form = "scalar" /\ Len(raw.items) = 1
      BY <1>7, <2>2, <2>5 DEF Parameter
    <3>2. k = 1
      BY <2>2, <3>1
    <3>3. QED BY <1>7, <3>1, <3>2
  <2>6. DOMAIN items = DOMAIN raw.items
    OBVIOUS
  <2> HIDE DEF items
  <2>7. /\ v.form = form /\ v.items = items /\ v \in Results
    BY <2>1, <2>4 DEF Results
  <2> HIDE DEF v
  <2>8. \A k \in DOMAIN v.items :
             \/ v.items[k].t = d.type /\ InRange(d, v.items[k])
             \/ v.items[k].t = "null" /\ d.array
    BY <1>1, <2>3, <2>5, <2>6, <2>7
  <2>9. Declared(d, v)
    BY <1>1, <2>7, <2>8 DEF Declared
  <2>10. QED BY <2>7, <2>9 DEF v
<1>8. QED BY <1>3, <1>4, <1>5, <1>6, <1>7

LEMMA ItemsOf ==
    ASSUME NEW raw, Parameter(raw)
    PROVE  /\ raw.items \in Seq(ScalarTexts) /\ raw.form \in {"absent", "scalar", "array"}
           /\ raw = [form |-> raw.form, items |-> raw.items]
           /\ DOMAIN raw.items = 1..Len(raw.items)
           /\ \A k \in DOMAIN raw.items : raw.items[k] \in ScalarTexts
<1>1. /\ raw.form \in {"absent", "scalar", "array"} /\ raw.items \in Seq(ScalarTexts)
      /\ raw = [form |-> raw.form, items |-> raw.items]
  BY DEF Parameter, Raws, ScalarTexts
<1>2. DOMAIN raw.items = 1..Len(raw.items)
      /\ \A k \in DOMAIN raw.items : raw.items[k] \in ScalarTexts
  BY <1>1
<1>3. QED BY <1>1, <1>2

LEMMA WsDeclared ==
    ASSUME NEW d \in ParamOptions, NEW raw, Parameter(raw)
    PROVE  WsParam(d, raw) \in Results /\ Declared(d, WsParam(d, raw))
<1> DEFINE coerced == [k \in DOMAIN raw.items |-> WsCoerce(d.type, raw.items[k])]
           asArray == raw.form = "array"
<1>1. d.type \in Types
  BY DEF ParamOptions
<1>2. \A k \in DOMAIN raw.items : Coerces(d.type, raw.items[k], coerced[k])
  BY <1>1, ItemsOf, WsCoerces
<1>3. asArray \in BOOLEAN /\ (~d.array => (asArray <=> raw.form = "array"))
  OBVIOUS
<1>4. WsParam(d, raw) = Normalized(d, raw, coerced, asArray)
  BY Zenon DEF WsParam
<1> HIDE DEF coerced, asArray
<1>5. QED BY <1>2, <1>3, <1>4, NormalizedIsDeclared

LEMMA RestDeclared ==
    ASSUME NEW d \in ParamOptions, NEW raw, Parameter(raw)
    PROVE  RestParam(d, raw) \in Results /\ Declared(d, RestParam(d, raw))
<1> DEFINE coerced == [k \in DOMAIN raw.items |-> RestCoerce(d.type, raw.items[k])]
           asArray == raw.form = "array" \/ d.array
<1>1. d.type \in Types /\ d.array \in BOOLEAN
  BY DEF ParamOptions
<1>2. \A k \in DOMAIN raw.items : Coerces(d.type, raw.items[k], coerced[k])
  BY <1>1, ItemsOf, RestCoerces
<1>3. asArray \in BOOLEAN /\ (~d.array => (asArray <=> raw.form = "array"))
  BY <1>1
<1>4. RestParam(d, raw) = Normalized(d, raw, coerced, asArray)
  BY Zenon DEF RestParam
<1> HIDE DEF coerced, asArray
<1>5. QED BY <1>2, <1>3, <1>4, NormalizedIsDeclared

(* The URL's parameter is one that the body could have held.               *)
LEMMA UrlParameter ==
    ASSUME NEW raw, Parameter(raw)
    PROVE  Parameter(UrlParam(raw))
<1>1. CASE raw.form = "array" /\ Len(raw.items) = 1
  <2>1. UrlParam(raw) = [raw EXCEPT !.form = "scalar"]
    BY <1>1 DEF UrlParam
  <2>2. UrlParam(raw) = [form |-> "scalar", items |-> raw.items]
    BY <2>1, ItemsOf
  <2>3. QED BY <1>1, <2>2, ItemsOf DEF Parameter, Raws, ScalarTexts
<1>2. CASE ~(raw.form = "array" /\ Len(raw.items) = 1)
  BY <1>2 DEF UrlParam
<1>3. QED BY <1>1, <1>2

LEMMA GqlIsWsParam ==
    ASSUME NEW d, NEW raw PROVE GqlParam(d, raw) = WsParam(d, raw)
BY Zenon DEF GqlParam, WsParam

Gates == {"ws", "gql", "rest", "url"}

LEMMA ParamDeclared ==
    ASSUME NEW g \in Gates, NEW d \in ParamOptions, NEW raw, Parameter(raw)
    PROVE  Param(g, d, raw) \in Results /\ Declared(d, Param(g, d, raw))
<1>1. CASE g = "ws"
  BY <1>1, WsDeclared DEF Param
<1>2. CASE g = "gql"
  BY <1>2, WsDeclared, GqlIsWsParam DEF Param
<1>3. CASE g = "rest"
  BY <1>3, RestDeclared DEF Param
<1>4. CASE g = "url"
  <2>1. Param(g, d, raw) = RestParam(d, UrlParam(raw))
    BY <1>4 DEF Param
  <2>2. PICK url : url = UrlParam(raw)
    OBVIOUS
  <2>3. Parameter(url)
    BY <2>2, UrlParameter
  <2>4. QED BY <2>1, <2>2, <2>3, RestDeclared
<1>5. QED BY <1>1, <1>2, <1>3, <1>4 DEF Gates

-----------------------------------------------------------------------------
(* The services agree.                                                     *)

(* Of a parameter that is there, what the WebSocket service takes the REST *)
(* service takes for the same.                                             *)
LEMMA RestTakesWs ==
    ASSUME NEW d \in ParamOptions, NEW raw, Parameter(raw), WsParam(d, raw) # Refused
    PROVE  RestParam(d, raw) = WsParam(d, raw)
<1> DEFINE ws == [k \in DOMAIN raw.items |-> WsCoerce(d.type, raw.items[k])]
           rest == [k \in DOMAIN raw.items |-> RestCoerce(d.type, raw.items[k])]
           gone == raw.form = "absent" \/ (raw.form = "scalar" /\ raw.items[1].t = "null")
<1>1. d.type \in Types /\ d.array \in BOOLEAN
  BY DEF ParamOptions
<1>2. WsParam(d, raw) = Normalized(d, raw, ws, raw.form = "array")
  BY Zenon DEF WsParam
<1>3. RestParam(d, raw) = Normalized(d, raw, rest, raw.form = "array" \/ d.array)
  BY Zenon DEF RestParam
<1>4. CASE gone
  BY <1>2, <1>3, <1>4 DEF Normalized
<1>5. CASE ~gone
  <2>1. /\ raw.form = "array" <=> d.array
        /\ \A k \in DOMAIN raw.items :
             raw.items[k].t # "object" /\ \E s \in ws[k] : InRange(d, s)
    BY <1>2, <1>5 DEF Normalized
  <2>2. ASSUME NEW k \in DOMAIN raw.items PROVE rest[k] = ws[k]
    <3>1. WsCoerce(d.type, raw.items[k]) # {}
      BY <2>1
    <3>2. QED BY <1>1, <3>1, ItemsOf, RestCoerces
  <2>3. rest = ws
    BY <2>2
  <2>4. ((raw.form = "array") \/ d.array) = (raw.form = "array")
    BY <1>1, <2>1
  <2> HIDE DEF ws, rest
  <2>5. QED BY <1>2, <1>3, <2>3, <2>4
<1>6. QED BY <1>4, <1>5

(* In a list of one, or alone, a text of a list means the same to REST.    *)
LEMMA AloneIsListed ==
    ASSUME NEW d \in ParamOptions, NEW items,
           items[1].t # "null", RestParam(d, [form |-> "array", items |-> items]) # Refused
    PROVE  RestParam(d, [form |-> "scalar", items |-> items])
             = RestParam(d, [form |-> "array", items |-> items])
<1> DEFINE coerced == [k \in DOMAIN items |-> RestCoerce(d.type, items[k])]
           many == [form |-> "array", items |-> items]
           one == [form |-> "scalar", items |-> items]
<1>1. d.array \in BOOLEAN
  BY DEF ParamOptions
<1>2. RestParam(d, many) = Normalized(d, many, coerced, many.form = "array" \/ d.array)
  BY DEF RestParam
<1>3. RestParam(d, one) = Normalized(d, one, coerced, one.form = "array" \/ d.array)
  BY DEF RestParam
<1> HIDE DEF coerced
<1>4. d.array
  BY <1>1, <1>2 DEF Normalized
<1>5. QED BY <1>1, <1>2, <1>3, <1>4 DEF Normalized

LEMMA UrlTakesRest ==
    ASSUME NEW d \in ParamOptions, NEW raw, Parameter(raw), OfTexts(raw),
           RestParam(d, raw) # Refused
    PROVE  RestParam(d, UrlParam(raw)) = RestParam(d, raw)
<1>1. CASE raw.form = "array" /\ Len(raw.items) = 1
  <2>1. PICK items : items = raw.items
    OBVIOUS
  <2>2. raw = [form |-> "array", items |-> items]
    BY <1>1, <2>1, ItemsOf
  <2>3. UrlParam(raw) = [form |-> "scalar", items |-> items]
    BY <1>1, <2>2 DEF UrlParam
  <2>4. items[1].t # "null"
    <3>1. 1 \in DOMAIN raw.items
      BY <1>1, ItemsOf
    <3>2. QED BY <2>1, <3>1 DEF OfTexts
  <2>5. QED BY <2>2, <2>3, <2>4, AloneIsListed
<1>2. CASE ~(raw.form = "array" /\ Len(raw.items) = 1)
  <2>1. UrlParam(raw) = raw
    BY <1>2 DEF UrlParam
  <2>2. QED BY <2>1
<1>3. QED BY <1>1, <1>2

LEMMA ListedIsAlone ==
    ASSUME NEW raw, Parameter(raw), raw.form = "scalar"
    PROVE  UrlParam([raw EXCEPT !.form = "array"]) = raw
<1>1. PICK items : items = raw.items
  OBVIOUS
<1>2. raw = [form |-> "scalar", items |-> items] /\ Len(items) = 1
  BY <1>1, ItemsOf DEF Parameter
<1>3. [raw EXCEPT !.form = "array"] = [form |-> "array", items |-> items]
  BY <1>2
<1>4. UrlParam([form |-> "array", items |-> items]) = [form |-> "scalar", items |-> items]
  BY <1>2 DEF UrlParam
<1>5. QED BY <1>2, <1>3, <1>4

(* What QueriesAlike asks of a declaration and a parameter.                *)
LEMMA Alike ==
    ASSUME NEW d \in ParamOptions, NEW raw, Parameter(raw)
    PROVE  /\ Param("gql", d, raw) = Param("ws", d, raw)
           /\ Param("ws", d, raw) # Refused => Param("rest", d, raw) = Param("ws", d, raw)
           /\ OfTexts(raw) /\ Param("rest", d, raw) # Refused =>
                /\ Param("url", d, raw) = Param("rest", d, raw)
                /\ raw.form = "scalar" =>
                     Param("url", d, [raw EXCEPT !.form = "array"]) = Param("rest", d, raw)
<1>1. \A x : /\ Param("gql", d, x) = GqlParam(d, x) /\ Param("ws", d, x) = WsParam(d, x)
             /\ Param("rest", d, x) = RestParam(d, x)
             /\ Param("url", d, x) = RestParam(d, UrlParam(x))
  BY DEF Param
<1>2. Param("gql", d, raw) = Param("ws", d, raw)
  BY <1>1, GqlIsWsParam
<1>3. Param("ws", d, raw) # Refused => Param("rest", d, raw) = Param("ws", d, raw)
  BY <1>1, RestTakesWs
<1>4. ASSUME OfTexts(raw), Param("rest", d, raw) # Refused
      PROVE  Param("url", d, raw) = Param("rest", d, raw)
  BY <1>1, <1>4, UrlTakesRest
<1>5. ASSUME raw.form = "scalar"
      PROVE  Param("url", d, [raw EXCEPT !.form = "array"]) = Param("rest", d, raw)
  <2>1. PICK x : x = [raw EXCEPT !.form = "array"]
    OBVIOUS
  <2>2. UrlParam(x) = raw
    BY <1>5, <2>1, ListedIsAlone
  <2>3. QED BY <1>1, <2>1, <2>2
<1>6. QED BY <1>2, <1>3, <1>4, <1>5

-----------------------------------------------------------------------------
(* The inductive invariant of answers, and of the rest of the state.       *)

AnswerInv ==
    answer # None =>
        /\ answer.gate \in Gates /\ answer.declared \in ParamOptions
        /\ Parameter(answer.raw)
        /\ \/ answer.params = Refused
           \/ answer.params = Param(answer.gate, answer.declared, answer.raw)

CountersInv == traffic \in Traffics /\ {calls, transfers, faults} \subseteq Nat

LEMMA Asked ==
    ASSUME NEW g \in Gates, NEW d \in ParamDefs, NEW raw \in RawParams,
           NEW open \in BOOLEAN, answer' = Answered(g, d, raw, open)
    PROVE  AnswerInv'
<1>1. d \in ParamOptions /\ Parameter(raw)
  BY GatewayAssumption DEF Parameter
<1>2. /\ answer'.gate = g /\ answer'.declared = d /\ answer'.raw = raw
      /\ answer'.params = IF open THEN Param(g, d, raw) ELSE Refused
  BY DEF Answered
<1>3. QED BY <1>1, <1>2 DEF AnswerInv

LEMMA AnswersKept == AnswerInv /\ [Next]_vars => AnswerInv'
<1> SUFFICES ASSUME AnswerInv, [Next]_vars PROVE AnswerInv'
  OBVIOUS
<1>1. CASE ExecuteWsQuery
  BY <1>1, Asked DEF ExecuteWsQuery, Gates
<1>2. CASE ExecuteGqlQuery
  BY <1>2, Asked DEF ExecuteGqlQuery, Gates
<1>3. CASE ExecuteRestQuery
  BY <1>3, Asked DEF ExecuteRestQuery, Gates
<1>4. ASSUME answer' = answer PROVE AnswerInv'
  BY <1>4 DEF AnswerInv
<1>5. CASE Transfer \/ Tick \/ UNCHANGED vars
  BY <1>4, <1>5 DEF Transfer, Tick, vars
<1>6. ASSUME NEW c \in Clients,
             \/ ReceiveWrite(c) \/ ReadScope(c) \/ Apply(c)
             \/ RequestEntity(c) \/ RequestCollection(c) \/ QueryRows(c) \/ FillCache(c)
             \/ ReadValue(c) \/ ReadAudience(c) \/ ReadFallback(c)
      PROVE  AnswerInv'
  BY <1>4, <1>6 DEF ReceiveWrite, ReadScope, Apply, RequestEntity, RequestCollection,
     QueryRows, FillCache, ReadValue, ReadAudience, ReadFallback
<1>7. QED BY <1>1, <1>2, <1>3, <1>5, <1>6 DEF Next

LEMMA AnswersHold == Spec => []AnswerInv
<1>1. Init => AnswerInv
  BY DEF Init, AnswerInv
<1>2. QED BY <1>1, AnswersKept, PTL DEF Spec

(* A handler is given what its query declares, or the default, through     *)
(* every gate.                                                             *)
THEOREM HandlersGetTheirs == Spec => []HandlersGetDeclared
<1>1. ASSUME AnswerInv, answer # None, answer.params # Refused
      PROVE  Declared(answer.declared, answer.params)
  BY <1>1, ParamDeclared DEF AnswerInv
<1>2. AnswerInv => HandlersGetDeclared
  BY <1>1 DEF HandlersGetDeclared, Declared
<1>3. QED BY <1>2, AnswersHold, PTL

(* A parameter that several gates accept means the same to them.           *)
THEOREM GatesAgree == Spec => []QueriesAlike
<1>1. AnswerInv => QueriesAlike
  BY Alike DEF AnswerInv, QueriesAlike
<1>2. QED BY <1>1, AnswersHold, PTL

LEMMA CountersKept ==
    ASSUME ReadInv, CountersInv, [Next]_vars
    PROVE  CountersInv'
<1>1. faults' \in Nat
  BY ReadKept DEF ReadInv
<1>2. ASSUME UNCHANGED <<traffic, transfers>>, calls' = calls \/ calls' = calls + 1
      PROVE  CountersInv'
  BY <1>1, <1>2 DEF CountersInv
<1>3. CASE UNCHANGED vars
  BY <1>2, <1>3 DEF vars
<1>4. CASE ExecuteWsQuery \/ ExecuteGqlQuery \/ ExecuteRestQuery
  BY <1>2, <1>4 DEF ExecuteWsQuery, ExecuteGqlQuery, ExecuteRestQuery, Asking, Begins
<1>5. CASE Transfer
  BY <1>1, <1>5 DEF Transfer, CountersInv
<1>6. CASE Tick
  BY <1>2, <1>6 DEF Tick
<1>7. ASSUME NEW c \in Clients,
             \/ ReceiveWrite(c) \/ ReadScope(c) \/ Apply(c)
             \/ RequestEntity(c) \/ RequestCollection(c) \/ QueryRows(c) \/ FillCache(c)
             \/ ReadValue(c) \/ ReadAudience(c) \/ ReadFallback(c)
      PROVE  CountersInv'
  BY <1>2, <1>7 DEF ReceiveWrite, ReadScope, Apply, RequestEntity, RequestCollection,
     QueryRows, FillCache, ReadValue, ReadAudience, ReadFallback, Begins
<1>8. QED BY <1>3, <1>4, <1>5, <1>6, <1>7 DEF Next

(* Everything the gateways keep is well-typed; a snapshot that goes on has *)
(* an entity at hand.                                                      *)
THEOREM GatewayTypes == Spec => []TypeOK
<1>1. Init => CountersInv
  BY DEF Init, CountersInv
<1>2. ReadInv /\ CountersInv /\ [Next]_vars => CountersInv'
  BY CountersKept
<1>3. Spec => []CountersInv
  BY <1>1, <1>2, ReadsHold, PTL DEF Spec
<1>4. ASSUME AnswerInv, answer # None PROVE answer.params \in Results
  <2>1. Refused \in Results
    BY DEF Refused, Results
  <2>2. QED BY <1>4, <2>1, ParamDeclared DEF AnswerInv
<1>5. ASSUME WriteInv, ReadInv, ListInv, AnswerInv, CountersInv PROVE TypeOK
  <2>1. \A c \in Clients : \A pc \in {"value", "audience", "fallback"} :
          Reading(c, pc) => read[c].todo # {}
    BY <1>5 DEF ReadInv, ReadOK, Reading
  <2>2. past \subseteq (0..MaxTime) \X [Entities -> Identities \cup {None}]
    <3>1. now \in 0..MaxTime
      BY <1>5 DEF ReadInv, CacheTyped
    <3>2. \A x \in past : x \in Times /\ x[1] <= now
      BY <1>5 DEF ListInv
    <3>3. ASSUME NEW x \in past
          PROVE  x \in (0..MaxTime) \X [Entities -> Identities \cup {None}]
      <4>1. PICK n \in Nat, o \in [Entities -> Identities \cup {None}] : x = <<n, o>>
        BY <3>2 DEF Times
      <4>2. n \in 0..MaxTime
        BY <3>1, <3>2, <4>1, GatewayAssumption
      <4>3. QED BY <4>1, <4>2
    <3>4. QED BY <3>3
  <2>3. QED BY <1>4, <1>5, <2>1, <2>2
        DEF TypeOK, WriteInv, ReadInv, CacheTyped, CountersInv
<1>6. WriteInv /\ ReadInv /\ ListInv /\ AnswerInv /\ CountersInv => TypeOK
  BY <1>5
<1>7. QED BY <1>3, <1>6, WritesHold, ReadsHold, ListsHold, AnswersHold, PTL
=============================================================================
