--------------------------- MODULE ActionExecution --------------------------
(***************************************************************************)
(* What a confirmed action does to the calendar, and when.                 *)
(*                                                                         *)
(* PendingActions models who may confirm and how often; here each action   *)
(* is confirmed at most once, and what counts is the times it carries. The *)
(* policy validator (internal/chat/policy.go) looks at them when the owner *)
(* confirms, extractTimeFields (internal/chat/service.go) filters them     *)
(* when the action is executed, and UpdateEvent of the calendar service    *)
(* reads the event, replaces the fields that are not zero and writes the   *)
(* row back, while other actions and the owner change the same rows.       *)
(*                                                                         *)
(* An instant is a number of seconds since the epoch; 0 is also what the   *)
(* gRPC messages carry for a time that was left out.                       *)
(***************************************************************************)
EXTENDS Naturals

CONSTANTS
    Actions,                    \* an action's id is also that of the event it creates
    Existing,                   \* events that are there from the start
    Times,                      \* the instants an event may start or end at
    Start, Latest,              \* the clock runs from Start to Latest, a bound
    MinDuration, MaxDuration,   \* 15 minutes and 8 hours in the code
    Tolerance,                  \* one hour
    Horizon                     \* ten years

ASSUME ClockAssumption == Start \in Nat /\ Latest \in Nat
ASSUME PolicyAssumption ==
    /\ MinDuration \in Nat /\ MaxDuration \in Nat
    /\ Tolerance \in Nat /\ Horizon \in Nat
ASSUME TimesAssumption ==       \* all later than 1970-01-01 08:00
    Times \subseteq {t \in Nat : t > MaxDuration}
ASSUME EventsAssumption == Actions \cap Existing = {}

VARIABLES
    now,
    row,        \* row[e]: the row of event e in the events table
    proposal,   \* proposal[a]: the stored proposed_action
    stage,      \* stage[a]: how far action a has come
    draft,      \* draft[a]: the event as UpdateEvent is about to write it
    \* Observers, read by the properties only:
    checkedAt,  \* when the policy accepted a
    sent        \* sent[a]: the times the calendar was asked for, after the filter

vars == <<now, row, proposal, stage, draft, checkedAt, sent>>

Events == Actions \cup Existing
Slots == [start : Times \cup {0}, end : Times \cup {0}]
Rows == [state : {"not yet", "present", "gone"}, slot : Slots]
\* complete: the title or the id is there, and no more than 50 attendees.
Proposals == [kind : {"create", "update", "delete"}, target : Events,
              slot : Slots, complete : BOOLEAN]
Stages == {"new", "proposed", "accepted", "writing", "confirmed", "failed",
           "refused"}

NoSlot == [start |-> 0, end |-> 0]
Present(e) == row[e].state = "present"

\* The time range rules, the same for created and for updated events.
InOrder(slot) ==
    /\ slot.start < slot.end
    /\ slot.end - slot.start >= MinDuration
    /\ slot.end - slot.start <= MaxDuration

Init ==
    /\ now = Start
    /\ \E kept \in [Existing -> {s \in Slots : s.start # 0 /\ InOrder(s)}] :
          row = [e \in Events |->
                   IF e \in Existing
                   THEN [state |-> "present", slot |-> kept[e]]
                   ELSE [state |-> "not yet", slot |-> NoSlot]]
    /\ \E e \in Events :
          proposal = [a \in Actions |->
                        [kind |-> "delete", target |-> e, slot |-> NoSlot,
                         complete |-> FALSE]]
    /\ stage = [a \in Actions |-> "new"]
    /\ draft = [a \in Actions |-> NoSlot]
    /\ checkedAt = [a \in Actions |-> Start]
    /\ sent = [a \in Actions |-> NoSlot]

Goto(a, s) == stage' = [stage EXCEPT ![a] = s]
\* A call of the calendar succeeded, or took effect and answered too late.
Settle(a) == Goto(a, "confirmed") \/ Goto(a, "failed")
Executed(a) == stage[a] \in {"confirmed", "failed"}

-----------------------------------------------------------------------------
Tick ==
    /\ now < Latest
    /\ now' = now + 1
    /\ UNCHANGED <<row, proposal, stage, draft, checkedAt, sent>>

\* The owner deletes an event of theirs over HTTP.
UserDeletes(e) ==
    /\ Present(e)
    /\ row' = [row EXCEPT ![e].state = "gone"]
    /\ UNCHANGED <<now, proposal, stage, draft, checkedAt, sent>>

\* What convert...EventRequest stores: an update always carries both times, as
\* 0 when the agent gave none; a deletion has none. The agent has seen the
\* event it wants to change, but it may be gone by now.
Convertible(a, p) ==
    CASE p.kind = "create" -> p.target = a
      [] p.kind = "update" -> row[p.target].state # "not yet"
      [] p.kind = "delete" -> row[p.target].state # "not yet" /\ p.slot = NoSlot

Propose(a) ==
    /\ stage[a] = "new"
    /\ \E p \in Proposals :
          /\ Convertible(a, p)
          /\ proposal' = [proposal EXCEPT ![a] = p]
    /\ Goto(a, "proposed")
    /\ UNCHANGED <<now, row, draft, checkedAt, sent>>

-----------------------------------------------------------------------------
\* Mutants of the validator: the past is not looked at; only the order is.
AcceptsThePast(p) ==
    p.complete /\ (p.kind = "delete" \/ (p.slot.start # 0 /\ InOrder(p.slot)))
AcceptsAnyLength(p) ==
    /\ p.complete
    /\ p.kind # "delete" => p.slot.start # 0 /\ p.slot.start < p.slot.end
    /\ p.kind = "create" => p.slot.start + Tolerance >= now

\* ValidateAction. The past only matters to a new event.
Accepts(p) ==
    /\ p.complete
    /\ p.kind # "delete" => InOrder(p.slot)
    /\ p.kind = "create" =>
          p.slot.start # 0 /\ p.slot.end # 0 /\ p.slot.start + Tolerance >= now

\* checkConflicts follows; it logs and finds nothing.
Validate(a) ==
    /\ stage[a] = "proposed"
    /\ Goto(a, IF Accepts(proposal[a]) THEN "accepted" ELSE "refused")
    /\ checkedAt' = [checkedAt EXCEPT ![a] = now]
    /\ UNCHANGED <<now, row, proposal, draft, sent>>

\* extractTimeFields: a time beyond the horizon becomes 0, each end by itself.
Extracted(t) == IF t > now + Horizon THEN 0 ELSE t
ExtractedSlot(p) ==
    [start |-> Extracted(p.slot.start), end |-> Extracted(p.slot.end)]
Ask(a) == sent' = [sent EXCEPT ![a] = ExtractedSlot(proposal[a])]

\* executeCreateEvent and CreateEvent, which takes the times as they come.
ExecuteCreate(a) ==
    /\ stage[a] = "accepted" /\ proposal[a].kind = "create"
    /\ \/ /\ row' = [row EXCEPT ![a] = [state |-> "present",
                                        slot |-> ExtractedSlot(proposal[a])]]
          /\ Settle(a)
       \/ Goto(a, "failed") /\ UNCHANGED row
    /\ Ask(a)
    /\ UNCHANGED <<now, proposal, draft, checkedAt>>

\* executeUpdateEvent, and UpdateEvent up to the write: times that are zero
\* leave those of the event alone.
Replaced(old, new) == IF new # 0 THEN new ELSE old

ReadEvent(a) ==
    LET p == proposal[a]
        old == row[p.target].slot
        new == ExtractedSlot(p)
    IN  /\ stage[a] = "accepted" /\ p.kind = "update"
        /\ \/ /\ Present(p.target)
              /\ draft' = [draft EXCEPT ![a] =
                             [start |-> Replaced(old.start, new.start),
                              end |-> Replaced(old.end, new.end)]]
              /\ Goto(a, "writing")
           \/ Goto(a, "failed") /\ UNCHANGED draft
        /\ Ask(a)
        /\ UNCHANGED <<now, row, proposal, checkedAt>>

\* Mutant: the end is not among the columns that are set.
UpdateRowButEnd(a) ==
    LET e == proposal[a].target IN
    row' = [row EXCEPT ![e].slot.start = IF Present(e) THEN draft[a].start ELSE @]

\* UPDATE events ... WHERE id: no row, no error.
UpdateRow(a) ==
    LET e == proposal[a].target IN
    row' = [row EXCEPT ![e].slot = IF Present(e) THEN draft[a] ELSE @]

WriteEvent(a) ==
    /\ stage[a] = "writing"
    /\ \/ UpdateRow(a) /\ Settle(a)
       \/ Goto(a, "failed") /\ UNCHANGED row
    /\ UNCHANGED <<now, proposal, draft, checkedAt, sent>>

\* executeDeleteEvent: deleting what is gone succeeds as well.
ExecuteDelete(a) ==
    LET e == proposal[a].target IN
    /\ stage[a] = "accepted" /\ proposal[a].kind = "delete"
    /\ \/ row' = [row EXCEPT ![e].state = "gone"] /\ Settle(a)
       \/ Goto(a, "failed") /\ UNCHANGED row
    /\ UNCHANGED <<now, proposal, draft, checkedAt, sent>>

-----------------------------------------------------------------------------
Next ==
    \/ Tick
    \/ \E e \in Events : UserDeletes(e)
    \/ \E a \in Actions :
          \/ Propose(a) \/ Validate(a)
          \/ ExecuteCreate(a) \/ ReadEvent(a) \/ WriteEvent(a)
          \/ ExecuteDelete(a)

Spec == Init /\ [][Next]_vars
-----------------------------------------------------------------------------
(* Properties.                                                             *)

\* Rows, proposals and drafts are what the tables and messages can hold.
TypeOK ==
    /\ now \in Nat
    /\ row \in [Events -> Rows]
    /\ proposal \in [Actions -> Proposals]
    /\ stage \in [Actions -> Stages]
    /\ draft \in [Actions -> Slots]
    /\ checkedAt \in [Actions -> Nat]
    /\ sent \in [Actions -> Slots]

\* The filter dropped a time of a; and the calendar acted on what was left, the
\* one end of an update, or a creation, which takes 0 for 1970.
Clipped(a) == Executed(a) /\ sent[a] # proposal[a].slot
Torn(a) == Clipped(a) /\ (proposal[a].kind = "create" \/ sent[a].start # 0)

\* policy.go: "End time must be after start time", with a duration within the
\* limits. Confirmed actions, however they interleave, leave every event of the
\* calendar so, unless extractTimeFields tore an action on the event apart: it
\* drops the end of a slot that reaches beyond the horizon, or both ends.
CalendarRespectsPolicy ==
    \A e \in Events :
        Present(e) => \/ InOrder(row[e].slot)
                      \/ \E a \in Actions : Torn(a) /\ proposal[a].target = e

\* An event that some action creates started, when its owner confirmed it, no
\* more than the tolerance ago: the verdict of the validator survives the delay
\* until execution (validateCreateEvent, CreateEvent). Excepted are an event
\* that an update moved, and one proposed so far ahead that the filter dropped
\* both its times: that one is put at 1970.
NotIntoThePast ==
    \A a \in Actions :
        Present(a) =>
            \/ row[a].slot.start + Tolerance >= checkedAt[a]
            \/ sent[a] = NoSlot /\ Clipped(a)
            \/ \E b \in Actions : /\ proposal[b].kind = "update" /\ Executed(b)
                                  /\ proposal[b].target = a

\* What the owner confirmed is what the calendar shows: both ends of an event
\* stem from one and the same accepted proposal, as the filter let it through,
\* or from before all of them. No interleaving of updates mixes two (UpdateEvent
\* reads, then writes); only an update of which the filter dropped a time does,
\* for it keeps the event's own time in that place.
SlotsAreConfirmed ==
    \A e \in Events :
        Present(e) =>
            \/ /\ e \in Existing
               /\ \A a \in Actions :
                     proposal[a].kind = "update" /\ proposal[a].target = e
                         => stage[a] # "confirmed"
            \/ \E a \in Actions :
                  /\ proposal[a].kind # "delete" /\ proposal[a].target = e
                  /\ sent[a] = row[e].slot
                  /\ Executed(a)
            \/ \E a \in Actions :
                  /\ proposal[a].kind = "update" /\ proposal[a].target = e
                  /\ Clipped(a)

\* A deleted event stays deleted, even when an update that had read it before
\* writes afterwards (repository UpdateEvent).
DeletedForGood ==
    [][\A e \in Events : row[e].state = "gone" => row'[e].state = "gone"]_vars

=============================================================================
