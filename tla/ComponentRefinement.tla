------------------------ MODULE ComponentRefinement -------------------------
(***************************************************************************)
(* ComponentManager, called by callers that take turns (one caller) and    *)
(* with no request failing, implements ComponentStore.                     *)
(***************************************************************************)
EXTENDS ComponentBatch

(* From every state in which the stores agree and the cache is warm or, as *)
(* after a restart of Redis, empty.                                        *)
TurnsInit ==
    /\ BatchInit
    /\ redis = EmptyMap \/ redis = [c \in Comps |-> Effective(c)]

TurnsNext == \E p \in Procs : SingleStep(p) \/ BatchStart(p) \/ BatchStep(p)

TurnsSpec == TurnsInit /\ [][TurnsNext]_batchVars

-----------------------------------------------------------------------------

(* After any sequence of undisturbed calls and batches Redis, the JSONB    *)
(* map and the projected columns agree, so a cold read returns what a warm *)
(* one does.                                                               *)
StoresAgreeWhenQuiet ==
    Quiet /\ batch = [p \in Procs |-> NoBatch] /\ faults = 0
      => \A c \in Comps : StoresAgree(c)

(* A single call has made its change and not published it yet.  The change *)
(* of a removal is its hDel, although the database still has the value.    *)
Announcing(k) ==
    \/ k.pc = "emit"
    \/ /\ k.op \in {"add", "update"}
       /\ k.pc \in {"columns.find", "columns.update", "columns.insert",
                    "jsonb.find", "jsonb.update", "jsonb.insert"}
    \/ k.pc \in {"remove.columns", "remove.find", "remove.jsonb"}

EventOf(k) == [type |-> EventType(k.op), comp |-> k.comp,
               val |-> IF k.op = "remove" THEN k.found ELSE k.val]

Untagged(events) == [i \in 1..Len(events) |->
    [type |-> events[i].type, comp |-> events[i].comp, val |-> events[i].val]]

(* The change of a batch is its hSet, although the database is ahead.      *)
AbstractValue(p, c) ==
    IF Announcing(call[p]) /\ call[p].op = "remove" /\ call[p].comp = c
    THEN Null
    ELSE IF BatchAt(p, "hset") /\ c \in Listed(batch[p]) THEN batch[p].found[c]
    ELSE Effective(c)

AbstractPending(p) ==
    IF Announcing(call[p]) THEN <<EventOf(call[p])>>
    ELSE IF BatchAt(p, "emit") THEN Untagged(BatchEvents(batch[p]))
    ELSE <<>>

Caller == CHOOSE p \in Procs : TRUE

Contents == [c \in Comps |-> AbstractValue(Caller, c)]
Unpublished == AbstractPending(Caller)
Published == Untagged(log)

Store == INSTANCE ComponentStore WITH
    store <- Contents, pending <- Unpublished, stream <- Published

(* To one caller at a time the manager is a map from components to values  *)
(* in which add creates, update changes and remove deletes, each change is *)
(* published once, under the right name and with the right value, before   *)
(* the next is made, and a batch is one change.                            *)
ImplementsStore == Store!Spec
=============================================================================
