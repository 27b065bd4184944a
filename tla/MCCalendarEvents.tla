-------------------------- MODULE MCCalendarEvents --------------------------
(* CalendarEvents for TLC: the requests may be exchanged for one another.   *)
EXTENDS CalendarEvents, TLC

Exchangeable == Permutations(Requests)
=============================================================================
