------------------------- MODULE ReminderLifecycle -------------------------
(***************************************************************************)
(* What the notification service promises about the reminders of an event: *)
(* at most one subscription is pending, a device is told only by a run     *)
(* that found its subscription pending, a subscription is settled once, by *)
(* such a run, and as sent only if a device was told or there was none,    *)
(* and a user told that a subscription is gone has none.                   *)
(*                                                                         *)
(* It promises neither that a pending subscription is settled, which needs *)
(* Asynq and no fault, nor that a run stops when its subscription does:    *)
(* the worker looks at the status once (see PendingSettles of Reminders).  *)
(***************************************************************************)
CONSTANT Subscriptions

VARIABLES event,      \* is the event there?
          status,     \* of each subscription
          running,    \* subscriptions that are being worked on
          told,       \* those of which a device was told, or that had none
          gone        \* those a user was told are gone

lifecycleVars == <<event, status, running, told, gone>>

Pending == {s \in Subscriptions : status[s] = "pending"}

Init ==
    /\ event = TRUE
    /\ status = [s \in Subscriptions |-> "none"]
    /\ running = {} /\ told = {} /\ gone = {}

Subscribe(s) ==
    /\ event /\ Pending = {}
    /\ status[s] = "none"
    /\ status' = [status EXCEPT ![s] = "pending"]
    /\ UNCHANGED <<event, running, told, gone>>

\* What is pending is cancelled; the rest is over in any case.
Unsubscribe(S) ==
    /\ status' = [s \in Subscriptions |->
                    IF s \in S \cap Pending THEN "cancelled" ELSE status[s]]
    /\ gone' = gone \cup S
    /\ UNCHANGED <<event, running, told>>

Begin(s) ==
    /\ s \in Pending
    /\ running' = running \cup {s}
    /\ UNCHANGED <<event, status, told, gone>>

Tell(s) ==
    /\ s \in running
    /\ told' = told \cup {s}
    /\ UNCHANGED <<event, status, running, gone>>

\* The subscription may be in the hands of another run still.
Settle(s, new) ==
    /\ s \in Pending \cap running
    /\ new = "sent" => s \in told
    /\ status' = [status EXCEPT ![s] = new]
    /\ running' \in {running, running \ {s}}
    /\ UNCHANGED <<event, told, gone>>

Abandon ==
    /\ running' \in SUBSET running
    /\ UNCHANGED <<event, status, told, gone>>

DeleteEvent ==
    /\ event
    /\ event' = FALSE
    /\ status' = [s \in Subscriptions |-> "none"]
    /\ UNCHANGED <<running, told, gone>>

Next ==
    \/ \E s \in Subscriptions : Subscribe(s) \/ Begin(s) \/ Tell(s)
    \/ \E s \in Subscriptions, new \in {"sent", "failed"} : Settle(s, new)
    \/ \E S \in SUBSET Subscriptions : Unsubscribe(S)
    \/ Abandon \/ DeleteEvent

Spec == Init /\ [][Next]_lifecycleVars
=============================================================================
