---------------------------- MODULE MCReminders ----------------------------
(* Small instances of Reminders for TLC.                                   *)
EXTENDS Reminders, TLC

CONSTANTS r1, r2, r3, d1, d2

Symmetry == Permutations(Requests) \cup Permutations(Devices)
=============================================================================
