--------------------------- MODULE ComponentStore ---------------------------
(***************************************************************************)
(* What ComponentManager promises about one entity to callers that take    *)
(* turns: a map from component classes to values, and a stream of events   *)
(* that tells every change of the map once, in order and by its right      *)
(* name: ADDED what was absent, UPDATED what was there, REMOVED what the   *)
(* event carries.                                                          *)
(***************************************************************************)
EXTENDS Naturals, Sequences

CONSTANTS Comps, Values, Null

VARIABLES store,    \* the component's value, Null when absent
          pending,  \* the events of a change that is not published yet
          stream    \* the lifecycle events published

storeVars == <<store, pending, stream>>

Events == [type : {"ADDED", "UPDATED", "REMOVED"}, comp : Comps,
           val : Values \cup {Null}]

Init ==
    /\ store \in [Comps -> Values \cup {Null}]
    /\ pending = <<>>
    /\ stream = <<>>

(* What the map held of e's component, and holds once e's change is made.  *)
Tells(e) ==
    CASE e.type = "ADDED"   -> store[e.comp] = Null /\ store'[e.comp] = e.val
      [] e.type = "UPDATED" -> store[e.comp] # Null /\ store'[e.comp] = e.val
      [] e.type = "REMOVED" -> store[e.comp] = e.val /\ store'[e.comp] = Null

(* A change of the map and of nothing that its events do not tell; a batch *)
(* changes several components at once.                                     *)
Change ==
    /\ pending = <<>>
    /\ pending' \in Seq(Events) \ {<<>>}
    /\ \A i, j \in 1..Len(pending') : i # j => pending'[i].comp # pending'[j].comp
    /\ \A i \in 1..Len(pending') : Tells(pending'[i])
    /\ \A c \in Comps : (\A i \in 1..Len(pending') : pending'[i].comp # c)
                          => store'[c] = store[c]
    /\ UNCHANGED stream

Publish ==
    /\ pending # <<>>
    /\ stream' = stream \o pending
    /\ pending' = <<>>
    /\ UNCHANGED store

Next == Change \/ Publish

Spec == Init /\ [][Next]_storeVars
=============================================================================
