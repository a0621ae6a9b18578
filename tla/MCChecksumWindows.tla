---------------------------- MODULE MCChecksumWindows ----------------------------
(* Six clock ticks in three seconds: every window boundary is crossed in and out of order. *)
EXTENDS ChecksumWindows

MCClock == 0 .. 5
==================================================================================
