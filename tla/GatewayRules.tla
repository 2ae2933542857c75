---------------------------- MODULE GatewayRules ----------------------------
(***************************************************************************)
(* The decisions of the three gateways, as operators over the options a    *)
(* component or a query declares: who is sent a component, who may write   *)
(* it, and which parameters reach a query handler.  The services of the    *)
(* WebSocket, GraphQL and REST gateways are three implementations.         *)
(***************************************************************************)
EXTENDS Integers, Sequences

CONSTANTS Identities,
          NumberText, \* JavaScript's Number(): texts that parse -> the number's text
          DateText,   \* new Date(): texts that parse -> the date's text
          Value,      \* a number's text -> its value
          DefaultRoles, \* defaultRoles of the gateways
          Blank,      \* an identityId of spaces
          None

Operations == {"add", "update", "upsert", "remove"}
LifecycleKinds == {"added", "updated", "removed"}

ASSUME RulesAssumption ==
    /\ None \notin Identities \cup Operations
    /\ Blank \notin Identities \cup {None}
    /\ NumberText \in [DOMAIN NumberText -> DOMAIN Value]
    /\ DateText \in [DOMAIN DateText -> STRING] /\ DOMAIN Value \subseteq STRING

-----------------------------------------------------------------------------
(* Projection.  Options of a component: its audience; whether an owner     *)
(* component and an owner field are declared; denied, when a policy of the *)
(* application says no.  Facts f of an entity: owners, named by its owner  *)
(* component; named, by the owner field of the component itself; self, the *)
(* identity whose entity it is.  Audience resolvers of the application,    *)
(* which come first, are not here.                                         *)
ProjectionOptions ==
    [expose : BOOLEAN, audience : {"none", "world", "city"}, ownerComponent : BOOLEAN,
     ownerField : BOOLEAN, lifecycleKinds : SUBSET LifecycleKinds, denied : BOOLEAN]

(* resolveAudience: everybody, or the recipients.                          *)
Audience(p, f) ==
    CASE p.audience = "world" -> Identities
      [] p.audience = "city" -> {}
      [] p.audience = "none" /\ p.ownerComponent -> f.owners
      [] p.audience = "none" /\ ~p.ownerComponent /\ p.ownerField -> f.named
      [] OTHER -> Identities \cap {f.self}

(* canExpose: the policies of the application, asked in turn.              *)
CanExpose(p) == p.expose /\ ~p.denied

(* isSupportedLifecycleKind, isLifecycleAllowed: the kinds a component     *)
(* declares; all three if it does not declare any, for which {} stands.    *)
IsLifecycleAllowed(p, kind) ==
    kind \in LifecycleKinds /\ (p.lifecycleKinds = {} \/ kind \in p.lifecycleKinds)

(* resolveLifecycleProjection: who is sent the event of a component.       *)
LifecycleProjected(p, kind, f) ==
    IF IsLifecycleAllowed(p, kind) /\ CanExpose(p) THEN Audience(p, f) ELSE {}

(* canReadAsSnapshot: the components a snapshot may hold are those whose   *)
(* updates are sent.                                                       *)
Readable(p) == p.expose /\ (p.lifecycleKinds = {} \/ "updated" \in p.lifecycleKinds)

(* Mutant: without recipients there is nobody to ask for.                  *)
CanIdentityReceiveListed(p, i, f, g) ==
    CanExpose(p) /\ (p.audience = "world" \/ i \in Audience(p, f))

(* canIdentityReceiveComponent, where the owner component was found as in  *)
(* f for the audience, and as in g when it is read again because there is  *)
(* no recipient.                                                           *)
CanIdentityReceive(p, i, f, g) ==
    /\ CanExpose(p)
    /\ \/ p.audience = "world"
       \/ IF Audience(p, f) # {} THEN i \in Audience(p, f)
          ELSE IF p.ownerComponent THEN i \in g.owners
          ELSE IF p.ownerField THEN i \in f.named
          ELSE i = f.self

(* resolveAudience and canIdentityReceiveComponent of the GraphQL service, *)
(* which has no part in WebSocket traffic.                                 *)
GqlAudience(p, f) ==
    IF p.audience # "none" THEN {i \in Identities : p.audience = "world"}
    ELSE IF p.ownerComponent THEN f.owners
    ELSE IF p.ownerField THEN f.named
    ELSE {f.self} \cap Identities

GqlCanIdentityReceive(p, i, f, g) ==
    LET recipients == GqlAudience(p, f) IN
    /\ CanExpose(p)
    /\ \/ p.audience = "world" \/ i \in recipients
       \/ /\ recipients = {}
          /\ \/ p.ownerComponent /\ i \in g.owners
             \/ ~p.ownerComponent /\ p.ownerField /\ i \in f.named
             \/ ~p.ownerComponent /\ ~p.ownerField /\ i = f.self

Receives(gate, p, i, f, g) ==
    IF gate = "gql" THEN GqlCanIdentityReceive(p, i, f, g)
    ELSE CanIdentityReceive(p, i, f, g)

(* Whether the audience, and then its lack, have the owner component read. *)
AudienceReadsOwner(p) == CanExpose(p) /\ p.audience = "none" /\ p.ownerComponent
FallbackReadsOwner(p, f) ==
    CanExpose(p) /\ p.audience # "world" /\ Audience(p, f) = {} /\ p.ownerComponent

-----------------------------------------------------------------------------
(* Callers.  What the adapter of the application finds, sent: None, or an  *)
(* identityId with roles, None when it names none.  A caller is an         *)
(* identity with its roles; a call without one is refused.                 *)
CallerOf(sent) ==
    [id |-> sent.id,
     roles |-> IF sent.roles = None THEN DefaultRoles ELSE sent.roles]

(* resolveAuthenticatedIdentity of the GraphQL resolver; the WebSocket     *)
(* gateway does the same once for a socket (module WsSessions).            *)
GqlCallers(sent) == {CallerOf(x) : x \in {sent} \ {None}}

(* resolveIdentity of the REST controller refuses a blank identity too.    *)
RestCallers(sent) == {who \in GqlCallers(sent) : who.id # Blank}

Callers(gate, sent) ==
    IF gate = "rest" THEN RestCallers(sent) ELSE GqlCallers(sent)

-----------------------------------------------------------------------------
(* Writes.  Options b: expose, operations, roles, fields (None when not    *)
(* declared), anyEntity (entityId is not 'playerId'), ownerComponent,      *)
(* ownerField, command.  Envelope e: known (are its entity and component   *)
(* classes), operation, target (an identity's entity or None), fields,     *)
(* claims (the owners its component itself names), parses (its dates are   *)
(* dates).  The caller is who.                                             *)

(* What is allowed when a component does not say.                          *)
AllowedOperations(b) == IF b.operations = None THEN {"upsert"} ELSE b.operations

(* resolveEntityClass, resolveComponentClass and the expose option.        *)
Exposed(b, e) == e.known /\ b.expose

(* assertOperationAllowed, assertRolesAllowed and the first check of       *)
(* assertEntityScope, in the WebSocket service.                            *)
WsOpen(b, who, e) ==
    /\ Exposed(b, e)
    /\ e.operation \in AllowedOperations(b)
    /\ b.roles = {} \/ b.roles \cap who.roles # {}
    /\ b.anyEntity \/ e.target = who.id

(* The same three in the GraphQL service.                                  *)
GqlOpen(b, who, e) ==
    /\ Exposed(b, e)
    /\ \E operation \in AllowedOperations(b) : operation = e.operation
    /\ b.roles # {} => \E role \in who.roles : role \in b.roles
    /\ ~b.anyEntity => who.id = e.target

(* The same three in the REST service.                                     *)
RestOpen(b, who, e) ==
    /\ Exposed(b, e)
    /\ AllowedOperations(b) \cap {e.operation} # {}
    /\ b.roles = {} \/ \E role \in b.roles : role \in who.roles
    /\ who.id = e.target \/ b.anyEntity

(* assertEntityScope of the WebSocket service: an owner field alone is     *)
(* looked up in the component sent.                                        *)
WsInScope(b, who, e, owners) ==
    \/ ~b.ownerComponent /\ ~b.ownerField
    \/ b.ownerComponent /\ who.id \in owners
    \/ ~b.ownerComponent /\ b.ownerField /\ who.id \in e.claims

(* hydrateComponent of the WebSocket service: any field is taken.          *)
WsHydrates(e) == e.operation = "remove" \/ e.parses

(* applyMutation of the WebSocket service up to ComponentManager.          *)
WsAdmits(b, who, e, owners) ==
    WsOpen(b, who, e) /\ WsInScope(b, who, e, owners) /\ WsHydrates(e)

(* assertFieldsDeclared of the GraphQL service.                            *)
GqlFieldsDeclared(b, e) == e.operation = "remove" \/ b.fields # None

(* assertEntityScope of the GraphQL service: an owner field needs an owner *)
(* component.                                                              *)
GqlInScope(b, who, owners) ==
    \/ ~b.ownerComponent /\ ~b.ownerField
    \/ b.ownerComponent /\ who.id \in owners

(* hydrateComponent of the GraphQL service.                                *)
GqlHydrates(b, e) ==
    e.operation = "remove" \/ (e.fields \subseteq b.fields /\ e.parses)

(* applyMutation of the GraphQL service.                                   *)
GqlAdmits(b, who, e, owners) ==
    /\ GqlOpen(b, who, e) /\ GqlFieldsDeclared(b, e)
    /\ GqlInScope(b, who, owners)
    /\ GqlHydrates(b, e)

(* assertFieldsDeclared of the REST service.                               *)
RestFieldsDeclared(b, e) == b.fields = None => e.operation = "remove"

(* assertEntityScope of the REST service.                                  *)
RestInScope(b, who, owners) ==
    (b.ownerComponent /\ who.id \in owners) \/ ~(b.ownerComponent \/ b.ownerField)

(* hydrateComponent of the REST service.                                   *)
RestHydrates(b, e) ==
    e.operation # "remove" => e.parses /\ \A f \in e.fields : f \in b.fields

(* Mutant: undeclared fields are open.                                     *)
RestAdmitsUndeclared(b, who, e, owners) ==
    /\ RestOpen(b, who, e) /\ RestInScope(b, who, owners)
    /\ b.fields = None \/ RestHydrates(b, e)

(* applyMutation of the REST service, a third copy.                        *)
RestAdmits(b, who, e, owners) ==
    /\ RestOpen(b, who, e) /\ RestFieldsDeclared(b, e)
    /\ RestInScope(b, who, owners)
    /\ RestHydrates(b, e)

Admits(gate, b, who, e, owners) ==
    \/ gate = "ws" /\ WsAdmits(b, who, e, owners)
    \/ gate = "gql" /\ GqlAdmits(b, who, e, owners)
    \/ gate = "rest" /\ RestAdmits(b, who, e, owners)

(* applyMutation, applyCommandMutation: the operation of ComponentManager  *)
(* that is called in the end.  The upsert of a command asks hasComponent,  *)
(* which is false for every command, and adds it.                          *)
ManagerOperation(b, e) ==
    IF b.command /\ e.operation = "upsert" THEN "add" ELSE e.operation

(* Whether a service awaits the owner component on its way.                *)
AwaitsOwner(gate, b, who, e) ==
    /\ b.ownerComponent
    /\ \/ gate = "ws" /\ WsOpen(b, who, e)
       \/ gate = "gql" /\ GqlOpen(b, who, e) /\ GqlFieldsDeclared(b, e)
       \/ gate = "rest" /\ RestOpen(b, who, e) /\ RestFieldsDeclared(b, e)

-----------------------------------------------------------------------------
(* Query parameters.  A scalar is its JSON type t and its text String(v);  *)
(* a raw parameter is absent, a scalar or an array of scalars, a result    *)
(* may be refused.  values are the texts a parameter allows.               *)
Types == {"string", "number", "boolean", "date"}
Raws == [form : {"absent", "scalar", "array"},
         items : Seq([t : {"string", "number", "boolean", "null", "object"},
                      text : STRING])]
Results == [form : {"absent", "scalar", "array", "refused"},
            items : Seq([t : Types \cup {"null"}, text : STRING])]
ParamOptions == [type : Types, array : BOOLEAN, required : BOOLEAN,
                 default : Results \cup {None}, min : Int \cup {None},
                 max : Int \cup {None}, values : (SUBSET STRING) \cup {None}]
Scalar(t, text) == [t |-> t, text |-> text]
Absent == [form |-> "absent", items |-> <<>>]
Refused == [form |-> "refused", items |-> <<>>]

(* coerceScalarParam of the WebSocket service: the type must be declared's. *)
WsCoerce(type, s) ==
    CASE s.t = "null" -> {s}
      [] s.t # "null" /\ type # "date" /\ s.t = type -> {s}
      [] type = "date" /\ s.t \in {"string", "number"}
           /\ s.text \in DOMAIN DateText -> {Scalar("date", DateText[s.text])}
      [] OTHER -> {}

(* Mutant: any text makes a number.                                        *)
RestCoerceAny(type, s) ==
    IF type = "number" /\ s.t = "string" THEN {s} ELSE WsCoerce(type, s)

(* coerceScalarParam of the REST service: texts of the URL stand for       *)
(* booleans and numbers too.                                               *)
RestCoerce(type, s) ==
    CASE type = "boolean" /\ s.t = "string" /\ s.text \in {"true", "false"} ->
           {Scalar("boolean", s.text)}
      [] type = "number" /\ s.t = "string" /\ s.text \in DOMAIN NumberText ->
           {Scalar("number", NumberText[s.text])}
      [] OTHER -> WsCoerce(type, s)

(* normalizeScalarParam on a coerced scalar: its range and its values.     *)
InRange(d, s) ==
    /\ s.t = "number" => /\ d.min # None => Value[s.text] >= d.min
                         /\ d.max # None => Value[s.text] <= d.max
    /\ d.values # None => s.text \in d.values

(* normalizeParam after coerced gave the scalars each item may become.     *)
Normalized(d, raw, coerced, asArray) ==
    LET gone == raw.form = "absent" \/ (raw.form = "scalar" /\ raw.items[1].t = "null")
    IN  IF gone /\ d.default # None THEN d.default
        ELSE IF gone /\ d.required THEN Refused
        ELSE IF gone THEN Absent
        ELSE IF (asArray <=> d.array)
                /\ \A k \in DOMAIN raw.items :
                     raw.items[k].t # "object" /\
                       \E s \in coerced[k] : InRange(d, s)
        THEN [form |-> IF d.array THEN "array" ELSE "scalar",
              items |-> [k \in DOMAIN raw.items |-> CHOOSE s \in coerced[k] : TRUE]]
        ELSE Refused

(* normalizeParam of the WebSocket service.                                *)
WsParam(d, raw) ==
    Normalized(d, raw, [k \in DOMAIN raw.items |-> WsCoerce(d.type, raw.items[k])],
               raw.form = "array")

(* normalizeParam of the GraphQL service, the same text.                   *)
GqlParam(d, raw) ==
    Normalized(d, raw, [k \in DOMAIN raw.items |-> WsCoerce(d.type, raw.items[k])],
               raw.form = "array")

(* normalizeParam of the REST service: a scalar is an array of one.        *)
RestParam(d, raw) ==
    Normalized(d, raw, [k \in DOMAIN raw.items |-> RestCoerce(d.type, raw.items[k])],
               raw.form = "array" \/ d.array)

(* What a URL can hold.                                                    *)
OfTexts(raw) == \A k \in DOMAIN raw.items : raw.items[k].t = "string"

(* Mutant: an array of one in the URL stays an array.                      *)
UrlParamKept(raw) == raw

(* normalizeQueryParams: an array of one in the URL is its item.           *)
UrlParam(raw) ==
    IF raw.form = "array" /\ Len(raw.items) = 1
    THEN [raw EXCEPT !.form = "scalar"] ELSE raw

Param(gate, d, raw) ==
    CASE gate = "ws" -> WsParam(d, raw)
      [] gate = "gql" -> GqlParam(d, raw)
      [] gate = "rest" -> RestParam(d, raw)
      [] gate = "url" -> RestParam(d, UrlParam(raw))
=============================================================================
