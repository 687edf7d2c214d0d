---------------------------- MODULE MCTimeSlices ----------------------------
(***************************************************************************)
(* TimeSlices with a second of 16 ns, slices below 4 ns and a long of 5    *)
(* bits for TLC.                                                           *)
(***************************************************************************)
EXTENDS TimeSlices

MCLongMin     == -16
MCLongs       == -15 .. 15
MCDurations   == -1 .. 3
=============================================================================
