----------------------------- MODULE MCCommands -----------------------------
(***************************************************************************)
(* An instance of Commands for TLC: two handlers share one ingress of two  *)
(* partitions; both commands go to the second one.                         *)
(***************************************************************************)
EXTENDS Commands, TLC

CONSTANTS c1, c2, i1, i2, game, move, attack

OneIngress ==
    << [event |-> "added", handles |-> move, ingress |-> "match",
        stream |-> None, partitions |-> 2],
       [event |-> "added", handles |-> attack, ingress |-> "match",
        stream |-> None, partitions |-> 2] >>

MCPartitions == {"match"} \X (0..1)
C2HasAnId == [c \in Commands |-> IF c = c2 THEN 1 ELSE 0]
SecondPartition == [c \in Commands |-> <<"match", 1>>]

Ask(operation, handles, known, hash, delayed) ==
    [operation |-> operation, handles |-> handles, known |-> known,
     hash |-> hash, delayed |-> delayed, allowed |-> TRUE]

(* Both go to one partition, one after the other or with c2 delayed; or c2 *)
(* goes there alone, beside an update; or neither does.                    *)
MCRequests ==
    LET first == Ask("add", move, TRUE, 3, FALSE)
        second == Ask("add", attack, TRUE, 5, FALSE) IN
    {(c1 :> q[1]) @@ (c2 :> q[2]) :
       q \in {<<first, second>>,
              <<first, [second EXCEPT !.delayed = TRUE]>>,
              <<[first EXCEPT !.operation = "update"], second>>,
              <<[first EXCEPT !.operation = "remove"],
                [second EXCEPT !.known = FALSE]>>,
              <<[first EXCEPT !.allowed = FALSE], [second EXCEPT !.hash = None]>>}}
=============================================================================
