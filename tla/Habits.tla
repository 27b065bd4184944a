------------------------------- MODULE Habits -------------------------------
(***************************************************************************)
(* Habit detection (internal/habit) for one pattern: events of one user    *)
(* with the same title, weekday, time and duration.                        *)
(*                                                                         *)
(* Every save of such an event, new or updated, starts a goroutine that    *)
(* counts it in the pattern's event_frequency row and, at the threshold,   *)
(* creates a suggestion, which the user accepts or rejects over HTTP.      *)
(* Trackers and handlers read the frequency row, change their copy and     *)
(* write all of it back; nothing orders them. Save t starts tracker t;     *)
(* event t is the one it creates, if it does, and suggestion t the one     *)
(* that its tracker creates.                                               *)
(***************************************************************************)
EXTENDS Naturals, FiniteSets

CONSTANTS
    Saves,          \* saves of events of the pattern
    Requests,       \* accept and reject requests, each sent at most once
    Threshold,      \* 3 in the code
    Weeks,          \* occurrences to create on acceptance, 260 in the code
    MaxFaults       \* bound on failed calls and crashes

ASSUME CountsAssumption ==
    /\ Threshold \in Nat /\ Threshold > 1
    /\ Weeks \in Nat /\ Weeks > 0
    /\ MaxFaults \in Nat
ASSUME ActorsAssumption == IsFiniteSet(Saves) /\ Saves \cap Requests = {}

VARIABLES
    freq,           \* the event_frequency row
    event,          \* event[t]: "none", "single" or, once marked, "recurring"
    suggestion,     \* suggestion[t]: its status in habit_suggestions
    pc,             \* stage of each tracker and each request
    copy,           \* the row as each of them read it
    target,         \* target[r]: the suggestion that request r is about
    kind,           \* "accept" or "reject"
    made,           \* made[r]: occurrences r has created
    faults,
    disturbed       \* observer: a call failed, or two actors overlapped

vars == <<freq, event, suggestion, pc, copy, target, kind, made, faults,
          disturbed>>

Actors == Saves \cup Requests
Stages == {"idle", "get", "upsert", "update", "suggest", "mark", "shown",
           "read", "create", "settle", "reread", "accepted", "done"}
NoRow == [exists |-> FALSE, count |-> 0, shown |-> FALSE, accepted |-> FALSE]
NewRow == [exists |-> TRUE, count |-> 1, shown |-> FALSE, accepted |-> FALSE]

Busy(a) == pc[a] \notin {"idle", "done"}
Quiet == \A a \in Actors : ~Busy(a)

Init ==
    /\ freq = NoRow
    /\ event = [t \in Saves |-> "none"]
    /\ suggestion = [t \in Saves |-> "none"]
    /\ pc = [a \in Actors |-> "idle"]
    /\ copy = [a \in Actors |-> NoRow]
    /\ target \in [Requests -> Saves]
    /\ kind \in [Requests -> {"accept", "reject"}]
    /\ made = [r \in Requests |-> 0]
    /\ faults = 0
    /\ disturbed = FALSE

Goto(a, stage) == pc' = [pc EXCEPT ![a] = stage]
Fault ==
    /\ faults < MaxFaults
    /\ faults' = faults + 1
    /\ disturbed' = TRUE
NoFault == UNCHANGED <<faults, disturbed>>
Begin(a, stage) ==
    /\ pc[a] = "idle"
    /\ Goto(a, stage)
    /\ disturbed' = (disturbed \/ ~Quiet)
    /\ UNCHANGED faults

-----------------------------------------------------------------------------
(* TrackEventCreation.                                                     *)

\* The calendar stores the event and starts the tracker.
Create(t) ==
    /\ Begin(t, "get")
    /\ event' = [event EXCEPT ![t] = "single"]
    /\ UNCHANGED <<freq, suggestion, copy, target, kind, made>>

\* An update starts a tracker too. GetEventByID reads no recurrence, so every
\* event passes for a single one, and UpdateEvent stores it as such.
Edit(t, u) ==
    /\ event[u] # "none"
    /\ Begin(t, "get")
    /\ event' = [event EXCEPT ![u] = "single"]
    /\ UNCHANGED <<freq, suggestion, copy, target, kind, made>>

GetFrequency(t) ==
    /\ pc[t] = "get"
    /\ \/ /\ copy' = [copy EXCEPT ![t] = freq]
          /\ Goto(t, IF freq.exists THEN "update" ELSE "upsert")
          /\ NoFault
       \/ Goto(t, "done") /\ Fault /\ UNCHANGED copy
    /\ UNCHANGED <<freq, event, suggestion, target, kind, made>>

\* UpsertEventFrequency: on conflict it counts, and nobody looks at the count.
Upserted(row) == IF row.exists THEN [row EXCEPT !.count = @ + 1] ELSE NewRow

Upsert(t) ==
    /\ pc[t] = "upsert"
    /\ Goto(t, "done")
    /\ \/ freq' = Upserted(freq) /\ NoFault
       \/ freq' \in {freq, Upserted(freq)} /\ Fault
    /\ UNCHANGED <<event, suggestion, copy, target, kind, made>>

\* Mutant: a new cycle does not start from one.
CountedOn(row) == [row EXCEPT !.count = @ + 1, !.shown = FALSE, !.accepted = FALSE]

\* A save after the suggestion was shown starts a new cycle.
Counted(row) == IF row.shown THEN NewRow ELSE [row EXCEPT !.count = @ + 1]

\* Mutant: one save too early.
DueEarly(row) == row.count + 1 >= Threshold /\ ~row.shown /\ ~row.accepted

Due(row) == row.count >= Threshold /\ ~row.shown /\ ~row.accepted

\* UpdateEventFrequency writes the whole copy.
Update(t) ==
    LET new == Counted(copy[t]) IN
    /\ pc[t] = "update"
    /\ \/ /\ freq' = new
          /\ copy' = [copy EXCEPT ![t] = new]
          /\ Goto(t, IF Due(new) THEN "suggest" ELSE "done")
          /\ NoFault
       \/ /\ freq' \in {freq, new}
          /\ Goto(t, "done")
          /\ Fault /\ UNCHANGED copy
    /\ UNCHANGED <<event, suggestion, target, kind, made>>

\* createSuggestionFromFrequency, in three statements; only the second may fail
\* without ending it.
Suggest(t) ==
    /\ pc[t] = "suggest"
    /\ \/ /\ suggestion' = [suggestion EXCEPT ![t] = "pending"]
          /\ \/ Goto(t, "mark") /\ NoFault
             \/ Goto(t, "done") /\ Fault
       \/ Goto(t, "done") /\ Fault /\ UNCHANGED suggestion
    /\ UNCHANGED <<freq, event, copy, target, kind, made>>

MarkEventsAsRecurring(t) ==
    /\ pc[t] = "mark"
    /\ Goto(t, "shown")
    /\ \/ /\ event' = [u \in Saves |->
                         IF event[u] = "none" THEN "none" ELSE "recurring"]
          /\ NoFault
       \/ UNCHANGED event /\ Fault
    /\ UNCHANGED <<freq, suggestion, copy, target, kind, made>>

MarkShown(t) ==
    /\ pc[t] = "shown"
    /\ Goto(t, "done")
    /\ \/ freq' = [copy[t] EXCEPT !.shown = TRUE] /\ NoFault
       \/ freq' \in {freq, [copy[t] EXCEPT !.shown = TRUE]} /\ Fault
    /\ UNCHANGED <<event, suggestion, copy, target, kind, made>>

-----------------------------------------------------------------------------
(* POST /habit/suggestions/{id}/accept and .../reject.                     *)

Send(r) ==
    /\ suggestion[target[r]] # "none"
    /\ Begin(r, "read")
    /\ UNCHANGED <<freq, event, suggestion, copy, target, kind, made>>

\* Mutant: the status of the suggestion is not looked at.
ReadAnyStatus(r) ==
    /\ pc[r] = "read"
    /\ Goto(r, IF kind[r] = "accept" THEN "create" ELSE "settle")
    /\ NoFault
    /\ UNCHANGED <<freq, event, suggestion, copy, target, kind, made>>

\* Only the status counts; that the suggestion has expired does not.
ReadSuggestion(r) ==
    /\ pc[r] = "read"
    /\ \/ /\ suggestion[target[r]] = "pending"
          /\ Goto(r, IF kind[r] = "accept" THEN "create" ELSE "settle")
          /\ NoFault
       \/ suggestion[target[r]] # "pending" /\ Goto(r, "done") /\ NoFault
       \/ Goto(r, "done") /\ Fault
    /\ UNCHANGED <<freq, event, suggestion, copy, target, kind, made>>

\* Mutant: an occurrence that cannot be created is skipped.
CreateOrSkip(r) ==
    /\ pc[r] = "create"
    /\ made[r] < Weeks
    /\ \/ made' = [made EXCEPT ![r] = @ + 1] /\ UNCHANGED pc /\ NoFault
       \/ Goto(r, "settle") /\ UNCHANGED made /\ Fault
    /\ UNCHANGED <<freq, event, suggestion, copy, target, kind>>

\* One turn of the loop. An error ends the request and leaves the occurrences
\* made so far.
CreateOccurrence(r) ==
    /\ pc[r] = "create"
    /\ made[r] < Weeks
    /\ \/ /\ made' = [made EXCEPT ![r] = @ + 1]
          /\ \/ UNCHANGED pc /\ NoFault
             \/ Goto(r, "done") /\ Fault
       \/ Goto(r, "done") /\ UNCHANGED made /\ Fault
    /\ UNCHANGED <<freq, event, suggestion, copy, target, kind>>


\* UpdateHabitSuggestionStatus: WHERE id, whatever the status is by now.
Settled(r) == IF kind[r] = "accept" THEN "accepted" ELSE "rejected"

UpdateSuggestionStatus(r) ==
    /\ \/ pc[r] = "settle"
       \/ pc[r] = "create" /\ made[r] = Weeks
    /\ \/ /\ suggestion' = [suggestion EXCEPT ![target[r]] = Settled(r)]
          /\ Goto(r, IF kind[r] = "accept" THEN "reread" ELSE "done")
          /\ NoFault
       \/ /\ suggestion' \in {suggestion,
                              [suggestion EXCEPT ![target[r]] = Settled(r)]}
          /\ Goto(r, "done")
          /\ Fault
    /\ UNCHANGED <<freq, event, copy, target, kind, made>>

\* habit_accepted is set in a copy, and its failure is ignored.
RereadFrequency(r) ==
    /\ pc[r] = "reread"
    /\ \/ /\ copy' = [copy EXCEPT ![r] = freq]
          /\ Goto(r, "accepted")
          /\ NoFault
       \/ Goto(r, "done") /\ Fault /\ UNCHANGED copy
    /\ UNCHANGED <<freq, event, suggestion, target, kind, made>>

MarkAccepted(r) ==
    /\ pc[r] = "accepted"
    /\ Goto(r, "done")
    /\ \/ freq' = [copy[r] EXCEPT !.accepted = TRUE] /\ NoFault
       \/ freq' \in {freq, [copy[r] EXCEPT !.accepted = TRUE]} /\ Fault
    /\ UNCHANGED <<event, suggestion, copy, target, kind, made>>

-----------------------------------------------------------------------------
Crash ==
    /\ ~Quiet
    /\ Fault
    /\ pc' = [a \in Actors |-> IF pc[a] = "idle" THEN "idle" ELSE "done"]
    /\ UNCHANGED <<freq, event, suggestion, copy, target, kind, made>>

Track(t) ==
    \/ GetFrequency(t) \/ Upsert(t) \/ Update(t)
    \/ Suggest(t) \/ MarkEventsAsRecurring(t) \/ MarkShown(t)

Handle(r) ==
    \/ ReadSuggestion(r) \/ CreateOccurrence(r) \/ UpdateSuggestionStatus(r)
    \/ RereadFrequency(r) \/ MarkAccepted(r)

Next ==
    \/ \E t \in Saves :
         Create(t) \/ (\E u \in Saves : Edit(t, u)) \/ Track(t)
    \/ \E r \in Requests : Send(r) \/ Handle(r)
    \/ Crash

Spec == Init /\ [][Next]_vars

-----------------------------------------------------------------------------
(* Properties.                                                             *)

Row == [exists : BOOLEAN, count : Nat, shown : BOOLEAN, accepted : BOOLEAN]

\* The rows and the copies of them hold what the code gives them.
TypeOK ==
    /\ freq \in Row
    /\ event \in [Saves -> {"none", "single", "recurring"}]
    /\ suggestion \in [Saves -> {"none", "pending", "accepted", "rejected"}]
    /\ pc \in [Actors -> Stages]
    /\ copy \in [Actors -> Row]
    /\ target \in [Requests -> Saves]
    /\ kind \in [Requests -> {"accept", "reject"}]
    /\ made \in [Requests -> 0 .. Weeks]
    /\ faults \in 0 .. MaxFaults
    /\ disturbed \in BOOLEAN

Created == {t \in Saves : event[t] # "none"}
Saved == {t \in Saves : pc[t] # "idle"}
Suggested == {t \in Saves : suggestion[t] # "none"}

\* Whatever races and failures, nobody is asked about a habit before events
\* were saved as often as the threshold says: lost updates only undercount.
SuggestionsAreEarned ==
    Suggested # {} => Cardinality(Saved) >= Threshold

\* docs/SERVICE_ARCHITECTURE.md: a habit takes "Minimum 3 occurrences": so many
\* events, not one that is saved again.
SuggestedForOccurrences ==
    Suggested # {} => Cardinality(Created) >= Threshold

\* Trackers that do not overlap suggest a habit once in every cycle, as long as
\* none is accepted (TrackEventCreation).
OncePerCycle ==
    ~disturbed /\ Quiet /\ (\A t \in Saves : suggestion[t] # "accepted")
        => Cardinality(Suggested) * Threshold <= Cardinality(Saved)
           /\ Cardinality(Saved) < (Cardinality(Suggested) + 1) * Threshold

\* A suggestion is recorded as accepted only when some request created every
\* occurrence, however requests race and fail (AcceptSuggestion).
AcceptedIsComplete ==
    \A t \in Saves :
        suggestion[t] = "accepted" =>
            \E r \in Requests : target[r] = t /\ made[r] = Weeks

Makers(t) == {r \in Requests : target[r] = t /\ made[r] > 0}

\* Requests that do not overlap and do not fail book an accepted suggestion
\* once, and no other (AcceptSuggestion, RejectSuggestion).
AnsweredOnce ==
    ~disturbed /\ Quiet =>
        \A t \in Saves :
            Cardinality(Makers(t)) = IF suggestion[t] = "accepted" THEN 1 ELSE 0

\* docs/SERVICE_ARCHITECTURE.md: "3+ occurrences triggers suggestion". When
\* nothing is under way, a pattern at the threshold has been suggested.
ThresholdTriggers ==
    ~disturbed /\ Quiet /\ freq.count >= Threshold => freq.shown
=============================================================================
