------------------------- MODULE PersistenceManager -------------------------
(***************************************************************************)
(* The database side of one EBCA entity: the entity's row, its JSONB map   *)
(* `components' and the columns that @PersistentProperty projects into,    *)
(* with one operator per SQL statement persistence.manager.ts issues.  A   *)
(* statement is atomic; the read and the write of a read-modify-write are  *)
(* two statements and the caller chooses when each of them runs.           *)
(***************************************************************************)
EXTENDS Integers, Sequences, FiniteSets

CONSTANTS Comps,          \* the component classes of the entity
          Persistent,     \* those declared isPersistent: true
          Projected,      \* those with a @PersistentProperty column
          Keys,           \* values of the projected property
          Bodies,         \* values of everything else in a component
          DefaultBody,    \* what `new componentClass()' holds there
          ColumnDefault,  \* the DEFAULT of a projected column, or Null
          Nullable,       \* whether projected columns are nullable
          Null

ASSUME StorageAssumption ==
    /\ Persistent \subseteq Comps
    /\ Projected \subseteq Comps
    /\ DefaultBody \in Bodies
    /\ ColumnDefault \in Keys \cup {Null}
    /\ Nullable \in BOOLEAN
    /\ Null \notin Keys
    /\ Null \notin [key : Keys, body : Bodies]

VARIABLES exists,      \* the entity has a row
          components,  \* the row's JSONB map
          columns      \* the row's projected columns

row == <<exists, components, columns>>

(* Component instances; timestamps are abstracted, no decision reads them. *)
Values   == [key : Keys, body : Bodies]
OptValue == Values \cup {Null}
OptKey   == Keys \cup {Null}
EmptyMap == [c \in Comps |-> Null]

RowTypeOK ==
    /\ exists \in BOOLEAN
    /\ components \in [Comps -> OptValue]
    /\ columns \in [Comps -> OptKey]

-----------------------------------------------------------------------------
(* Mutant: the raw column is taken for the component.                      *)
FromColumnRaw(k) == k

(* An instance rebuilt from its projected column alone.                    *)
FromColumn(k) == IF k = Null THEN Null ELSE [key |-> k, body |-> DefaultBody]

(* Mutant: a removal leaves the column alone.                              *)
ClearedKeyKept(k) == k

(* What clearing leaves in a column that holds k: NULL, else the DEFAULT,  *)
(* else the old value, when no safe reset value exists.                    *)
ClearedKey(k) == IF Nullable THEN Null
                 ELSE IF ColumnDefault # Null THEN ColumnDefault ELSE k

LoadComponentFromJsonb(c)   == components[c]
LoadPersistentProperties(c) == IF c \in Projected THEN columns[c] ELSE Null

(* UPDATE ... SET column WHERE id: touches nothing when there is no row.   *)
UpdateColumns(patched) ==
    /\ columns' = IF exists THEN patched ELSE columns
    /\ UNCHANGED <<exists, components>>

(* UPDATE ... SET components = the whole map the writer composed.          *)
UpdateComponents(map) ==
    /\ components' = IF exists THEN map ELSE components
    /\ UNCHANGED <<exists, columns>>

(* INSERT of the row; the columns a writer does not name take their        *)
(* DEFAULT.  A second row with the id, or a NULL in a column that may not  *)
(* hold one, is an error.                                                  *)
DefaultColumns == [c \in Comps |-> IF c \in Projected THEN ColumnDefault
                                   ELSE Null]

InsertFails(cols) ==
    exists \/ (~Nullable /\ \E c \in Projected : cols[c] = Null)

InsertRow(map, cols) ==
    /\ ~InsertFails(cols)
    /\ exists' = TRUE
    /\ components' = map
    /\ columns' = cols

(* Mutant: the WHERE clause names the row only.                            *)
GuardIgnored(c, expected) == exists

(* One UPDATE guarded by WHERE id AND column = expected; the JSONB part is *)
(* a merge with the current map (||), not with one read earlier.           *)
GuardMatches(c, expected) == exists /\ columns[c] = expected

GuardedUpdate(c, v) ==
    /\ columns' = [columns EXCEPT ![c] = v.key]
    /\ components' = IF c \in Persistent THEN [components EXCEPT ![c] = v]
                     ELSE components
    /\ UNCHANGED exists
=============================================================================
