-------------------------- MODULE MCAgentCalendar ---------------------------
(* A small instance of ActionExecution and AvailableSlots for TLC.         *)
(*                                                                         *)
(* They are the calendar as the agent changes it and as it is told of it.  *)
(* The sweep works on the copy its query returned, so the two share no     *)
(* state and their interleavings show no more than each by itself. The     *)
(* behaviours are therefore those of one beside the other at rest.         *)
EXTENDS ActionExecution, AvailableSlots, TLC

CONSTANTS u1, u2, u3

\* Pairs that are too short, fit, or are too long; the first is past at Latest.
\* With a horizon of one, each that fits has both ends within it, the start
\* only, or neither, depending on the time.
MCTimes == {11, 12, 13, 14, 15}

\* Actions can be exchanged, and so can the user's events that do not recur.
AgentSymmetry == Permutations(Actions) \cup Permutations(UserEvents \ Recurring)

\* Beside the actions, a request for slots that was refused; beside the sweep,
\* one of the calendars that the actions start from.
NoSweep ==
    /\ window = [start |-> 0, end |-> 0, duration |-> 0]
    /\ from = [u \in UserEvents |-> 0] /\ to = from
    /\ pc = "refused" /\ todo = {} /\ cursor = 0 /\ slots = {}
NoAction ==
    \A e \in Existing : /\ row[e].slot = [start |-> 11, end |-> 13]
                        /\ \A a \in Actions : proposal[a].target = e

AgentInit == Init /\ (NoSweep \/ (NoAction /\ SweepInit))
AgentNext ==
    \/ NoSweep /\ Next /\ UNCHANGED sweepVars
    \/ SweepNext /\ UNCHANGED vars
AgentSpec == AgentInit /\ [][AgentNext]_<<vars, sweepVars>>
=============================================================================
