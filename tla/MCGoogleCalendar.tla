--------------------------- MODULE MCGoogleCalendar ---------------------------
(* GoogleCalendar for TLC: the requests may be exchanged for one another.    *)
EXTENDS GoogleCalendar, TLC

Exchangeable == Permutations(Requests)
=============================================================================
