---------------------------- MODULE AnalyticsSink ----------------------------
(***************************************************************************)
(* EbcaAnalyticsSinkSystem: lifecycle events are buffered in memory and    *)
(* written to a table in batches.  The class runs on one JavaScript        *)
(* thread: an action is the synchronous code that runs when an event       *)
(* arrives, the timer fires, a save settles or the application shuts down. *)
(* Events are numbered in the order in which they are received.            *)
(***************************************************************************)
EXTENDS Naturals, Sequences

CONSTANTS BatchSize,      \* options.batchSize
          MaxBufferSize,  \* options.maxBufferSize, or Unlimited
          Unlimited,
          MaxEvents,      \* bound on the events received
          MaxFaults       \* bound on the saves that fail

ASSUME SinkAssumption ==
    /\ BatchSize \in Nat \ {0}
    /\ MaxBufferSize \in Nat \ {0} \/ MaxBufferSize = Unlimited
    /\ Unlimited \notin Nat
    /\ MaxEvents \in Nat
    /\ MaxFaults \in Nat

VARIABLES received,  \* number of events received so far
          buffer,    \* eventBuffer
          saving,    \* eventsToInsert of the flush in flight
          flushing,  \* flushPromise is set
          table,     \* the events that have a row in ecs_events
          dropped,   \* the events refused because the buffer was full
          phase,     \* where the application is in its life
          faults     \* saves that failed so far

vars == <<received, buffer, saving, flushing, table, dropped, phase, faults>>

TypeOK ==
    /\ received \in Nat
    /\ buffer \in Seq(1..received)
    /\ saving \in Seq(1..received)
    /\ flushing \in BOOLEAN
    /\ flushing <=> saving # <<>>
    /\ table \subseteq 1..received
    /\ dropped \subseteq 1..received
    /\ phase \in {"running", "draining", "drained", "failed"}
    /\ faults \in Nat

Init ==
    /\ received = 0
    /\ buffer = <<>> /\ saving = <<>>
    /\ flushing = FALSE
    /\ table = {} /\ dropped = {}
    /\ phase = "running"
    /\ faults = 0

-----------------------------------------------------------------------------
(* flush with the buffer b: a flush in flight is joined; otherwise the     *)
(* whole buffer goes into one save, and an empty buffer is flushed already.*)
Flush(b) ==
    IF flushing \/ b = <<>>
    THEN buffer' = b /\ UNCHANGED <<saving, flushing>>
    ELSE saving' = b /\ buffer' = <<>> /\ flushing' = TRUE

Full(b) == MaxBufferSize # Unlimited /\ Len(b) >= MaxBufferSize

(* handleEbcaLifecycle and enqueueEvent; an event with a malformed topic   *)
(* is never received.                                                      *)
Receive ==
    /\ phase \in {"running", "draining"}
    /\ received < MaxEvents
    /\ received' = received + 1
    /\ LET b == Append(buffer, received + 1) IN
       IF Full(buffer)
       THEN dropped' = dropped \cup {received + 1}
            /\ UNCHANGED <<buffer, saving, flushing>>
       ELSE /\ IF Len(b) >= BatchSize \/ Full(b) THEN Flush(b)
               ELSE buffer' = b /\ UNCHANGED <<saving, flushing>>
            /\ UNCHANGED dropped
    /\ UNCHANGED <<table, phase, faults>>

(* The interval set up by onModuleInit.                                    *)
Tick ==
    /\ phase = "running"
    /\ Flush(buffer)
    /\ UNCHANGED <<received, table, dropped, phase, faults>>

(* onApplicationShutdown clears the interval and starts to drain: it joins *)
(* a flush in flight or starts one; with neither to do it is done.         *)
Shutdown ==
    /\ phase = "running"
    /\ phase' = IF flushing \/ buffer # <<>> THEN "draining" ELSE "drained"
    /\ Flush(buffer)
    /\ UNCHANGED <<received, table, dropped, faults>>

(* Mutant: flushPromise is not reset.                                      *)
SaveSucceedsStuck ==
    /\ saving # <<>>
    /\ table' = table \cup {saving[i] : i \in 1..Len(saving)}
    /\ saving' = <<>>
    /\ phase' = IF phase = "draining" /\ buffer = <<>> THEN "drained" ELSE phase
    /\ UNCHANGED <<received, buffer, flushing, dropped, faults>>

(* Mutant: draining stops after one flush.                                 *)
SaveSucceedsOnce ==
    /\ flushing
    /\ table' = table \cup {saving[i] : i \in 1..Len(saving)}
    /\ phase' = IF phase = "draining" THEN "drained" ELSE phase
    /\ saving' = <<>> /\ flushing' = FALSE
    /\ UNCHANGED <<received, buffer, dropped, faults>>

(* The save settles; drainBufferedEvents goes on until nothing is left.    *)
SaveSucceeds ==
    /\ flushing
    /\ table' = table \cup {saving[i] : i \in 1..Len(saving)}
    /\ IF phase = "draining" /\ buffer # <<>>
       THEN saving' = buffer /\ buffer' = <<>> /\ UNCHANGED <<flushing, phase>>
       ELSE /\ saving' = <<>> /\ flushing' = FALSE /\ UNCHANGED buffer
            /\ phase' = IF phase = "draining" THEN "drained" ELSE phase
    /\ UNCHANGED <<received, dropped, faults>>

(* Mutant: the batch of a failed save is not put back.                     *)
SaveFailsDrops ==
    /\ flushing
    /\ faults < MaxFaults /\ faults' = faults + 1
    /\ saving' = <<>> /\ flushing' = FALSE
    /\ phase' = IF phase = "draining" THEN "failed" ELSE phase
    /\ UNCHANGED <<received, buffer, table, dropped>>

(* The save rejects, before the transaction committed or (the answer was   *)
(* lost) after it: the batch goes back to the head of the buffer.  Its     *)
(* objects carry the ids the INSERT returned, so a retry of a batch that   *)
(* was committed finds its rows.                                           *)
SaveFails ==
    /\ flushing
    /\ faults < MaxFaults /\ faults' = faults + 1
    /\ \/ UNCHANGED table
       \/ table' = table \cup {saving[i] : i \in 1..Len(saving)}
    /\ buffer' = saving \o buffer
    /\ saving' = <<>> /\ flushing' = FALSE
    /\ phase' = IF phase = "draining" THEN "failed" ELSE phase
    /\ UNCHANGED <<received, dropped>>

Next == Receive \/ Tick \/ Shutdown \/ SaveSucceeds \/ SaveFails

Spec == Init /\ [][Next]_vars

(* The interval keeps firing and a save settles at some time.              *)
FairSpec == Spec /\ WF_vars(Tick) /\ WF_vars(SaveSucceeds \/ SaveFails)

-----------------------------------------------------------------------------
Accepted == (1..received) \ dropped

(* An event has a row only if all the events accepted before it have one,  *)
(* whatever arrives while a save is in flight and however often saves      *)
(* fail: there is one save at a time, and a failed batch is retried no     *)
(* later than what came after it.                                          *)
StoredInOrder ==
    \A e \in table, f \in Accepted : f < e => f \in table

(* When the shutdown reports that the events are flushed every accepted    *)
(* event has a row, also when a flush was in flight as it began or events  *)
(* arrived while it drained.                                               *)
DrainedIsComplete == phase = "drained" => Accepted \subseteq table

(* An accepted event is stored in the end, unless the shutdown gave up.    *)
EventuallyStored ==
    \A e \in 1..MaxEvents : e \in Accepted ~> (e \in table \/ phase = "failed")
=============================================================================
