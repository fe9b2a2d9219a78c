------------------------- MODULE ReadingRefinement --------------------------
(***************************************************************************)
(* ReadingSession implements ReadingLog: what has reached the device is    *)
(* the log.                                                                *)
(***************************************************************************)
EXTENDS ReadingSession

Log == INSTANCE ReadingLog WITH
    mark <- device.progress,
    answers <- device.answers

(* What the app leaves on the device, killed at any time, is what a log    *)
(* written in the reader's order would hold.                               *)
ImplementsLog == Log!Spec
=============================================================================
