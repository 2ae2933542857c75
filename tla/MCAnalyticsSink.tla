--------------------------- MODULE MCAnalyticsSink ---------------------------
(***************************************************************************)
(* Instances of AnalyticsSink for TLC.                                     *)
(***************************************************************************)
EXTENDS AnalyticsSink

(* README.md of the package: maxBufferSize is a hard cap for the events    *)
(* buffered during database outages, so the buffer never exceeds it.       *)
BufferWithinCap == MaxBufferSize # Unlimited => Len(buffer) <= MaxBufferSize
=============================================================================
