--------------------------- MODULE AvailableSlots ---------------------------
(***************************************************************************)
(* CalendarService.GetAvailableSlots: the free time of a user within a     *)
(* window, computed by one sweep over the events sorted by start. Each     *)
(* iteration of the sweep is a step, so that its invariant can be stated.  *)
(*                                                                         *)
(* The events are whatever the rest of the service lets into the table:    *)
(* nothing there requires an event to end after it starts. Times are whole *)
(* seconds. A recurring event is busy at its first occurrence only: no     *)
(* code of the calendar expands recurrence rules.                          *)
(***************************************************************************)
EXTENDS Integers

CONSTANTS
    Instants,           \* the instants that occur
    UserEvents,         \* ids of the user's events
    Recurring,          \* those whose is_recurring is set
    DefaultDuration     \* 3600 in the code

ASSUME InstantsAssumption == Instants \subseteq Int
ASSUME RecurringAssumption == Recurring \subseteq UserEvents
ASSUME DurationAssumption == DefaultDuration \in Int /\ DefaultDuration > 0

VARIABLES
    from, to,           \* from[e], to[e]: the event as stored
    window,             \* [start, end, duration] of the request
    pc,
    todo,               \* listed events the sweep has still to visit
    cursor,
    slots               \* <<s, t>>: free from s to t

sweepVars == <<from, to, window, pc, todo, cursor, slots>>

SweepInit ==
    /\ from \in [UserEvents -> Instants]
    /\ to \in [UserEvents -> Instants]
    /\ window \in [start : Instants, end : Instants, duration : Instants]
    /\ pc = "request"
    /\ todo = {}
    /\ cursor = window.start
    /\ slots = {}

duration == IF window.duration <= 0 THEN DefaultDuration ELSE window.duration

\* ListEventsByUserAndTime: bounds included, recurring events whenever they
\* started before the window ends.
Listed == {e \in UserEvents :
              /\ from[e] <= window.end
              /\ to[e] >= window.start \/ e \in Recurring}

Refuse ==
    /\ pc = "request"
    /\ window.start >= window.end
    /\ pc' = "refused"
    /\ UNCHANGED <<from, to, window, todo, cursor, slots>>

ListEvents ==
    /\ pc = "request"
    /\ window.start < window.end
    /\ pc' = "sweep"
    /\ todo' = Listed
    /\ UNCHANGED <<from, to, window, cursor, slots>>

\* Mutant: the events are not sorted.
FirstOfAny(e) == e \in todo

\* sort.Slice is not stable: events that start together come in any order.
First(e) == e \in todo /\ \A other \in todo : from[e] <= from[other]

Gap(s, t) == IF t > s /\ t - s >= duration THEN {<<s, t>>} ELSE {}

AdvancePast(e) == cursor' = IF to[e] > cursor THEN to[e] ELSE cursor

Visit(e) ==
    /\ pc = "sweep"
    /\ First(e)
    /\ slots' = slots \cup Gap(cursor, from[e])
    /\ AdvancePast(e)
    /\ todo' = todo \ {e}
    /\ UNCHANGED <<from, to, window, pc>>

\* Mutant: the free time after the last event is forgotten.
FinishWithoutTail ==
    /\ pc = "sweep" /\ todo = {}
    /\ pc' = "done"
    /\ UNCHANGED <<from, to, window, todo, cursor, slots>>

Finish ==
    /\ pc = "sweep"
    /\ todo = {}
    /\ slots' = slots \cup Gap(cursor, window.end)
    /\ pc' = "done"
    /\ UNCHANGED <<from, to, window, todo, cursor>>

SweepNext == Refuse \/ ListEvents \/ (\E e \in todo : Visit(e)) \/ Finish

SweepSpec == SweepInit /\ [][SweepNext]_sweepVars

-----------------------------------------------------------------------------
(* Properties.                                                             *)

\* The sweep works with instants that occur in the request or the events.
SweepTypeOK ==
    /\ from \in [UserEvents -> Instants]
    /\ to \in [UserEvents -> Instants]
    /\ window \in [start : Instants, end : Instants, duration : Instants]
    /\ pc \in {"request", "refused", "sweep", "done"}
    /\ todo \subseteq UserEvents
    /\ cursor \in Instants
    /\ slots \subseteq Instants \X Instants

\* Event e is in the way of a meeting from s to t.
Blocks(e, s, t) == from[e] < t /\ to[e] > s
Free(s, t) == \A e \in UserEvents : ~Blocks(e, s, t)

\* Every slot the agent is offered lies in the window, is long enough, and
\* meets no event of the user, not even one the query did not list.
SlotsAreFree ==
    \A slot \in slots :
        /\ window.start <= slot[1] /\ slot[2] <= window.end
        /\ slot[2] - slot[1] >= duration
        /\ Free(slot[1], slot[2])

\* Whatever free time of the requested length the window has, the answer
\* shows: GetAvailableSlots misses nothing.
NothingMissed ==
    pc = "done" =>
        \A s, t \in Instants :
            /\ window.start <= s /\ t <= window.end /\ t - s >= duration
            /\ Free(s, t)
            => \E slot \in slots : slot[1] <= s /\ t <= slot[2]

\* No free minute is offered twice, if every event ends after it starts.
WellFormed == \A e \in UserEvents : from[e] <= to[e]
SlotsAreDisjoint ==
    WellFormed => \A p, q \in slots : p = q \/ p[2] <= q[1] \/ q[2] <= p[1]
=============================================================================
