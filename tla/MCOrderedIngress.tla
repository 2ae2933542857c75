-------------------------- MODULE MCOrderedIngress --------------------------
(***************************************************************************)
(* OrderedIngress alone, with one partition and two subscribers of the     *)
(* topic: the system that handles the command and one that only listens.   *)
(***************************************************************************)
EXTENDS OrderedIngress, TLC

CONSTANTS c1, c2, c3, i1, i2, game, sink

C2HasAnId == [c \in Commands |-> IF c = c2 THEN 1 ELSE 0]
OnePartition == [c \in Commands |-> 1]

(* README.md of the core package: the consumer acknowledges only after the *)
(* handler completes.  The handler is the one that opted in; other systems *)
(* (the analytics sink subscribes to all topics) receive the replay too.   *)
AcknowledgedAfterHandler == \A c \in acked : <<c, game>> \in handled
=============================================================================
