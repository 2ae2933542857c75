----------------------------- MODULE MCGateways -----------------------------
(***************************************************************************)
(* Instance of Gateways for TLC: e1 is the entity of i1, e2 is nobody's.   *)
(***************************************************************************)
EXTENDS Gateways, TLC

CONSTANTS c1, c2, e1, e2, i1, i2, player, admin, f1, f2

Order == [e \in Entities |-> IF e = e1 THEN 1 ELSE 2]
Self == [e \in Entities |-> IF e = e1 THEN i1 ELSE None]

(* The queries meet nobody: one of them, like one write and one snapshot.  *)
Faults == [t \in Traffics |-> IF t = "collections" THEN 0 ELSE 1]
Calls == [t \in Traffics |-> IF t = "collections" THEN 2 ELSE 1]

ProjectionSet ==
    [expose : {TRUE}, audience : {"none", "world", "city"},
     ownerComponent : BOOLEAN, ownerField : BOOLEAN,
     lifecycleKinds : {{}, {"added", "removed"}}, denied : BOOLEAN]

ListedSet ==
    {p \in ProjectionSet : /\ p.audience = "none" /\ ~p.ownerField
                           /\ p.ownerComponent /\ p.lifecycleKinds = {} /\ ~p.denied}

InboundSet ==
    [expose : {TRUE}, operations : {{"upsert", "remove"}, None},
     roles : {{}, {player}}, fields : {None, {f1}}, anyEntity : BOOLEAN,
     ownerComponent : BOOLEAN, ownerField : BOOLEAN, command : {FALSE}]
    \cup {[expose |-> exposed, operations |-> {"upsert", "remove"}, roles |-> {},
           fields |-> {f1}, anyEntity |-> TRUE, ownerComponent |-> FALSE,
           ownerField |-> FALSE, command |-> TRUE] : exposed \in BOOLEAN}

EnvelopeSet ==
    [known : {TRUE}, operation : {"upsert", "remove"},
     target : {i1, None}, fields : {{f1}, {f1, f2}}, claims : {{}, {i1}},
     parses : BOOLEAN]
    \cup {[known |-> FALSE, operation |-> "upsert", target |-> i1,
           fields |-> {f1}, claims |-> {}, parses |-> TRUE]}

(* Nobody, two players, one by default, an administrator, and one without  *)
(* a name.                                                                 *)
SentSet ==
    {None, [id |-> i1, roles |-> None], [id |-> i2, roles |-> {player}],
     [id |-> i1, roles |-> {admin}], [id |-> Blank, roles |-> {}]}

(* Texts: a number, one that Number("") makes 0, no number, a boolean.     *)
Numbers == "2" :> "2" @@ "" :> "0" @@ "0" :> "0"
Dates == "2" :> "2001-02-01" @@ "0" :> "2000-01-01"
Values == "2" :> 2 @@ "0" :> 0
Texts == {"2", "", "x", "true"}

Scalars == [t : {"string"}, text : Texts] \cup
           {Scalar("number", "2"), Scalar("number", "0"), Scalar("boolean", "true"),
            Scalar("null", "null"), Scalar("object", "x")}
RawSet == {Absent} \cup
          [form : {"scalar"}, items : {<<s>> : s \in Scalars}] \cup
          [form : {"array"}, items : {<<>>} \cup {<<s>> : s \in Scalars}
                                     \cup (Scalars \X {Scalar("string", "2")})]
DefSet ==
    [type : Types, array : BOOLEAN, required : BOOLEAN, min : {None, 1},
     max : {None, 1}, values : {None, {"2", "true"}},
     default : {None, [form |-> "scalar", items |-> <<Scalar("string", "d")>>]}]

ClientSymmetry == Permutations(Clients)
=============================================================================
