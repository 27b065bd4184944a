----------------------------- MODULE Reminders -----------------------------
(***************************************************************************)
(* Push reminders (internal/notification): the subscriptions of one user   *)
(* to one event, the Asynq tasks that will send them, and the user's       *)
(* devices.                                                                *)
(*                                                                         *)
(* A subscription is a row of PostgreSQL, its task lives in Redis, and     *)
(* nothing ties the two together: the handlers write first to one and then *)
(* to the other, the worker reads the row when the task fires and updates  *)
(* it after sending. Request ids also name what a request creates: row r   *)
(* and task r are those of subscribe request r.                            *)
(*                                                                         *)
(* Time is abstracted: once enqueued, a task may fire at any moment.       *)
(* Asynq and PostgreSQL are modelled as the code relies on them: a task    *)
(* fires at least once, a failed run is retried, an active task cannot be  *)
(* deleted; a statement sees a snapshot, and migration 009 checks statuses *)
(* and keeps one active row per user and event.                            *)
(* Firebase is configured: without it the worker marks rows as sent though *)
(* it sends nothing.                                                       *)
(***************************************************************************)
EXTENDS Naturals, FiniteSets

CONSTANTS
    Requests,           \* HTTP requests on the event, each sent at most once
    Devices,            \* FCM tokens of the user
    MaxRetry,           \* 3 in the code
    MaxFaults           \* bound on failed calls and crashes

ASSUME BoundsAssumption == MaxRetry \in Nat /\ MaxFaults \in Nat

VARIABLES
    event,              \* does the event exist?
    status,             \* status[s] of the event_subscriptions rows
    born,               \* born[s]: rank of row s by created_at, 0 if never created
    job,                \* job[s]: job_id of row s, a set of at most one task
    task, retried,      \* task[t] in Redis, and how often it was retried
    devices,            \* rows of device_tokens
    kind, pc,           \* kind[r] and stage of request r
    got, aim,           \* the row r works on, and the job_id r read in it:
                        \* sets of at most one
    reply,
    worker,             \* worker[t]: the run of an active task
    faults,
    \* Observers, read by the properties only:
    notified,           \* <<s, d>>: device d was sent the reminder of row s
    twice,              \* rows some device was sent twice
    unreachable,        \* rows for which the worker found no device
    late,               \* active tasks that fired when their row was settled
    before,             \* before[r]: rows pending when r was sent
    disturbed           \* rows hit by a second task, or by a fault that no
                        \* retry makes good

rows == <<event, status, born, job>>
queue == <<task, retried>>
handlers == <<kind, pc, got, aim, reply>>
observers == <<notified, twice, unreachable, late, before, disturbed>>
vars == <<rows, queue, devices, handlers, worker, faults, observers>>

StatusCancelled == "canceled"                                   \* tasks.go
AllowedStatuses == {"pending", "sent", "cancelled", "failed"}   \* migration 009
Idle == [stage |-> "idle", left |-> {}, found |-> FALSE, hit |-> FALSE]

Init ==
    /\ event = TRUE
    /\ status = [s \in Requests |-> "none"]
    /\ born = [s \in Requests |-> 0]
    /\ job = [s \in Requests |-> {}]
    /\ task = [t \in Requests |-> "none"]
    /\ retried = [t \in Requests |-> 0]
    /\ devices \in SUBSET Devices
    /\ kind \in [Requests -> {"subscribe", "unsubscribe"}]
    /\ pc = [r \in Requests |-> "idle"]
    /\ got = [r \in Requests |-> {}]
    /\ aim = [r \in Requests |-> {}]
    /\ reply = [r \in Requests |-> "none"]
    /\ worker = [t \in Requests |-> Idle]
    /\ faults = 0
    /\ notified = {} /\ twice = {} /\ unreachable = {} /\ late = {}
    /\ before = [r \in Requests |-> {}]
    /\ disturbed = {}

\* The partial unique index: rows neither cancelled, sent nor failed.
Active == {s \in Requests : status[s] \notin {"none", "cancelled", "sent", "failed"}}
Pending == {s \in Requests : status[s] = "pending"}
Live(t) == task[t] \in {"waiting", "active"}

Goto(r, stage) == pc' = [pc EXCEPT ![r] = stage]
Answer(r, answer) == Goto(r, "done") /\ reply' = [reply EXCEPT ![r] = answer]
Fault(S) ==
    /\ faults < MaxFaults
    /\ faults' = faults + 1
    /\ disturbed' = disturbed \cup S
NoFault == UNCHANGED <<faults, disturbed>>

Send(r) ==
    /\ pc[r] = "idle"
    /\ Goto(r, IF kind[r] = "subscribe" THEN "exists" ELSE "fetch")
    /\ before' = [before EXCEPT ![r] = Pending]
    /\ UNCHANGED <<rows, queue, devices, kind, got, aim, reply, worker, faults,
                   notified, twice, unreachable, late, disturbed>>

-----------------------------------------------------------------------------
(* POST /events/{id}/notify                                                *)

\* SubscriptionExists, in validateSubscribeRequest.
Exists(r) ==
    /\ pc[r] = "exists"
    /\ \/ Active = {} /\ Goto(r, "snapshot") /\ UNCHANGED reply /\ NoFault
       \/ Active # {} /\ Answer(r, "conflict") /\ NoFault
       \/ Answer(r, "error") /\ Fault({})
    /\ UNCHANGED <<rows, queue, devices, kind, got, aim, worker, notified, twice,
                   unreachable, late, before>>

\* CreateSubscription is one statement: its SELECT sees the rows committed when
\* the statement started, its INSERT those committed when it is done.
Snapshot(r) ==
    /\ pc[r] = "snapshot"
    /\ got' = [got EXCEPT ![r] = Active]
    /\ Goto(r, "insert")
    /\ UNCHANGED <<rows, queue, devices, kind, aim, reply, worker, faults,
                   observers>>

InsertRow(r) ==
    /\ status' = [status EXCEPT ![r] = "pending"]
    /\ born' = [born EXCEPT ![r] = 1 + Cardinality({s \in Requests : born[s] > 0})]
    /\ got' = [got EXCEPT ![r] = {r}]
    /\ UNCHANGED <<event, job>>

Insert(r) ==
    /\ pc[r] = "insert"
    /\ \/ /\ event /\ Active = {}
          /\ InsertRow(r)
          /\ \/ Goto(r, "enqueue") /\ UNCHANGED reply /\ NoFault
             \/ Answer(r, "error") /\ Fault({r})
       \/ /\ ~(event /\ Active = {})
          /\ IF event /\ got[r] # {}       \* ON CONFLICT DO NOTHING, then SELECT
             THEN Goto(r, "enqueue") /\ UNCHANGED reply
             ELSE Answer(r, IF event THEN "conflict" ELSE "error")
          /\ UNCHANGED <<rows, got>> /\ NoFault
       \/ Answer(r, "error") /\ Fault({}) /\ UNCHANGED <<rows, got>>
    /\ UNCHANGED <<queue, devices, kind, aim, worker, notified, twice, unreachable,
                   late, before>>

\* EnqueueContext; its failure is logged and the client is told nothing.
Enqueue(r) ==
    /\ pc[r] = "enqueue"
    /\ \/ /\ task' = [task EXCEPT ![r] = "waiting"]
          /\ Goto(r, "jobid")
          /\ disturbed' = disturbed \cup
                {s \in got[r] : \E t \in Requests : task[t] # "none" /\ s \in got[t]}
          /\ UNCHANGED <<reply, faults>>
       \/ /\ task' \in {task, [task EXCEPT ![r] = "waiting"]}
          /\ Answer(r, "created")
          /\ Fault(got[r])
    /\ UNCHANGED <<rows, retried, devices, kind, got, aim, worker, notified, twice,
                   unreachable, late, before>>

\* UpdateSubscriptionJobID; its failure is logged as well.
StoreJobID(r) ==
    /\ pc[r] = "jobid"
    /\ \/ /\ job' = [s \in Requests |->
                        IF s \in got[r] /\ status[s] # "none" THEN {r} ELSE job[s]]
          /\ NoFault
       \/ UNCHANGED job /\ Fault(got[r])
    /\ Answer(r, "created")
    /\ UNCHANGED <<event, status, born, queue, devices, kind, got, aim, worker,
                   notified, twice, unreachable, late, before>>

-----------------------------------------------------------------------------
(* DELETE /events/{id}/notify                                              *)

Listed == {s \in Requests : status[s] \notin {"none", "cancelled", "sent"}}
\* Mutant: ORDER BY created_at without DESC.
OldestListed == {s \in Listed : \A o \in Listed : born[s] <= born[o]}
\* GetSubscriptionByUserAndEvent: the newest row neither cancelled nor sent.
NewestListed == {s \in Listed : \A o \in Listed : born[o] <= born[s]}

Fetch(r) ==
    /\ pc[r] = "fetch"
    /\ \/ /\ got' = [got EXCEPT ![r] = NewestListed]
          /\ aim' = [aim EXCEPT ![r] = UNION {job[s] : s \in NewestListed}]
          /\ IF NewestListed = {} THEN Answer(r, "gone")
                                  ELSE Goto(r, "delete") /\ UNCHANGED reply
          /\ NoFault
       \/ Answer(r, "error") /\ Fault({}) /\ UNCHANGED <<got, aim>>
    /\ UNCHANGED <<rows, queue, devices, kind, worker, notified, twice,
                   unreachable, late, before>>

\* DeleteTask removes a task that is not being processed, if the row had a
\* job_id; its failure is logged.
DeleteTask(r) ==
    /\ pc[r] = "delete"
    /\ \/ /\ task' = [t \in Requests |->
                        IF t \in aim[r] /\ task[t] = "waiting"
                        THEN "deleted" ELSE task[t]]
          /\ NoFault
       \/ UNCHANGED task /\ Fault(got[r])
    /\ Goto(r, "cancel")
    /\ UNCHANGED <<rows, retried, devices, kind, got, aim, reply, worker,
                   notified, twice, unreachable, late, before>>

\* MarkSubscriptionStatus: ... WHERE id = s AND status = 'pending'. A status
\* that the CHECK constraint does not know is an error and changes nothing.
Violates(s, new) == status[s] = "pending" /\ new \notin AllowedStatuses
MarkSubscriptionStatus(s, new) ==
    status' = IF status[s] = "pending" /\ ~Violates(s, new)
              THEN [status EXCEPT ![s] = new] ELSE status

Cancel(r) ==
    /\ pc[r] = "cancel"
    /\ \E s \in got[r] :
          \/ /\ MarkSubscriptionStatus(s, StatusCancelled)
             /\ Answer(r, IF Violates(s, StatusCancelled) THEN "error" ELSE "gone")
             /\ NoFault
          \/ UNCHANGED status /\ Answer(r, "error") /\ Fault(got[r])
    /\ UNCHANGED <<event, born, job, queue, devices, kind, got, aim, worker,
                   notified, twice, unreachable, late, before>>
-----------------------------------------------------------------------------
(* The worker: HandleSendNotification as a task of Asynq.                  *)

Fire(t) ==
    /\ task[t] = "waiting"
    /\ task' = [task EXCEPT ![t] = "active"]
    /\ worker' = [worker EXCEPT ![t].stage = "read"]
    /\ late' = IF got[t] \subseteq Pending THEN late \ {t} ELSE late \cup {t}
    /\ UNCHANGED <<rows, retried, devices, handlers, faults, notified, twice,
                   unreachable, before, disturbed>>

Return(t) ==
    /\ task' = [task EXCEPT ![t] = "done"]
    /\ worker' = [worker EXCEPT ![t] = Idle]
    /\ UNCHANGED retried

\* The handler returned an error, or the lease of a crashed run expired.
AfterRetry(t) == IF retried[t] < MaxRetry THEN "waiting" ELSE "archived"
Retry(t) ==
    /\ task' = [task EXCEPT ![t] = AfterRetry(t)]
    /\ retried' = [retried EXCEPT ![t] = @ + 1]
    /\ worker' = [worker EXCEPT ![t] = Idle]
\* A call of a run failed; after the last run the row is left to nobody.
RunFault(t) == Fault(IF retried[t] < MaxRetry THEN {} ELSE got[t])

\* Mutant: the worker does not look at the status.
ReadSubAnyStatus(t) ==
    /\ worker[t].stage = "read"
    /\ worker' = [worker EXCEPT ![t].stage = "tokens"]
    /\ UNCHANGED <<rows, queue, devices, handlers, faults, observers>>

ReadSub(t) ==
    /\ worker[t].stage = "read"
    /\ \E s \in got[t] :
          \/ status[s] = "none" /\ Retry(t) /\ NoFault
          \/ status[s] \notin {"none", "pending"} /\ Return(t) /\ NoFault
          \/ /\ status[s] = "pending"
             /\ worker' = [worker EXCEPT ![t].stage = "tokens"]
             /\ UNCHANGED queue /\ NoFault
          \/ Retry(t) /\ RunFault(t)
    /\ UNCHANGED <<rows, devices, handlers, notified, twice, unreachable, late,
                   before>>

GetDeviceTokens(t) ==
    /\ worker[t].stage = "tokens"
    /\ \/ /\ worker' = [worker EXCEPT ![t] =
                  [stage |-> "send", left |-> devices, found |-> devices # {},
                   hit |-> FALSE]]
          /\ UNCHANGED queue /\ NoFault
          /\ unreachable' = IF devices = {} THEN unreachable \cup got[t]
                                            ELSE unreachable
       \/ Retry(t) /\ RunFault(t) /\ UNCHANGED unreachable
    /\ UNCHANGED <<rows, devices, handlers, notified, twice, late, before>>

\* Mutant: a message that FCM took may be sent again.
SendToTokenAgain(t, d) ==
    /\ worker[t].stage = "send"
    /\ d \in worker[t].left
    /\ worker' \in {[worker EXCEPT ![t].left = @ \ {d}, ![t].hit = TRUE],
                    [worker EXCEPT ![t].hit = TRUE]}
    /\ notified' = notified \cup {<<s, d>> : s \in got[t]}
    /\ twice' = twice \cup {s \in got[t] : <<s, d>> \in notified}
    /\ UNCHANGED <<rows, queue, devices, handlers, faults, unreachable, late,
                   before, disturbed>>

\* sendToToken: FCM takes the message, calls the token invalid, or fails.
SendToToken(t, d) ==
    /\ worker[t].stage = "send"
    /\ d \in worker[t].left
    /\ \/ /\ worker' = [worker EXCEPT ![t].left = @ \ {d}, ![t].hit = TRUE]
          /\ notified' = notified \cup {<<s, d>> : s \in got[t]}
          /\ twice' = twice \cup {s \in got[t] : <<s, d>> \in notified}
          /\ UNCHANGED devices
       \/ /\ worker' = [worker EXCEPT ![t].left = @ \ {d}]
          /\ devices' \in {devices, devices \ {d}}
          /\ UNCHANGED <<notified, twice>>
    /\ UNCHANGED <<rows, queue, handlers, faults, unreachable, late, before,
                   disturbed>>

\* Mutants: failures do not count; the status is not updated.
FinishSent(t) ==
    /\ worker[t].stage = "send" /\ worker[t].left = {}
    /\ \E s \in got[t] : MarkSubscriptionStatus(s, "sent")
    /\ Return(t)
    /\ UNCHANGED <<event, born, job, devices, handlers, faults, observers>>
FinishUnmarked(t) ==
    /\ worker[t].stage = "send" /\ worker[t].left = {}
    /\ IF worker[t].found /\ ~worker[t].hit THEN Retry(t) ELSE Return(t)
    /\ UNCHANGED <<rows, devices, handlers, faults, observers>>

\* No device, or one that was reached: sent. None reached: failed, and the
\* error makes Asynq retry. A failure to mark is logged.
Finish(t) ==
    /\ worker[t].stage = "send"
    /\ worker[t].left = {}
    /\ LET allFailed == worker[t].found /\ ~worker[t].hit
       IN /\ \E s \in got[t] :
                \/ MarkSubscriptionStatus(s, IF allFailed THEN "failed" ELSE "sent")
                   /\ NoFault
                \/ UNCHANGED status /\ Fault({s})
          /\ IF allFailed THEN Retry(t) ELSE Return(t)
    /\ UNCHANGED <<event, born, job, devices, handlers, notified, twice,
                   unreachable, late, before>>

-----------------------------------------------------------------------------
(* Around the service.                                                     *)

\* ON DELETE CASCADE takes the rows along, not the tasks.
DeleteEvent ==
    /\ event
    /\ event' = FALSE
    /\ status' = [s \in Requests |-> "none"]
    /\ job' = [s \in Requests |-> {}]
    /\ UNCHANGED <<born, queue, devices, handlers, worker, faults, observers>>

\* POST and DELETE /fcm/token; another user may also take the token over.
RegisterToken(d) == d \notin devices /\ devices' = devices \cup {d}
DeleteToken(d) == d \in devices /\ devices' = devices \ {d}
DeviceChange(d) ==
    /\ RegisterToken(d) \/ DeleteToken(d)
    /\ UNCHANGED <<rows, queue, handlers, worker, faults, observers>>

InHand(s) ==
    \/ \E r \in Requests : s \in got[r] /\ pc[r] \notin {"idle", "done"}
    \/ \E t \in Requests : s \in got[t] /\ task[t] = "active"

Crash ==
    /\ Fault({s \in Requests : InHand(s)})
    /\ pc' = [r \in Requests |-> IF pc[r] = "idle" THEN "idle" ELSE "done"]
    /\ task' = [t \in Requests |->
                   IF task[t] = "active" THEN AfterRetry(t) ELSE task[t]]
    /\ retried' = [t \in Requests |->
                   IF task[t] = "active" THEN retried[t] + 1 ELSE retried[t]]
    /\ worker' = [t \in Requests |-> Idle]
    /\ UNCHANGED <<rows, devices, kind, got, aim, reply, notified, twice,
                   unreachable, late, before>>

Handle(r) ==
    \/ Exists(r) \/ Snapshot(r) \/ Insert(r) \/ Enqueue(r) \/ StoreJobID(r)
    \/ Fetch(r) \/ DeleteTask(r) \/ Cancel(r)

Work(t) ==
    \/ Fire(t) \/ ReadSub(t) \/ GetDeviceTokens(t) \/ Finish(t)
    \/ \E d \in Devices : SendToToken(t, d)

Next ==
    \/ \E r \in Requests : Send(r) \/ Handle(r) \/ Work(r)
    \/ DeleteEvent
    \/ \E d \in Devices : DeviceChange(d)
    \/ Crash

Spec == Init /\ [][Next]_vars

\* Handlers run to their end, and Asynq fires every task and retries it until
\* it succeeds or is archived.
Fairness == \A r \in Requests : WF_vars(Handle(r)) /\ WF_vars(Work(r))
FairSpec == Spec /\ Fairness

-----------------------------------------------------------------------------
(* Properties.                                                             *)

\* Rows only ever have a status that the database accepts.
TypeOK ==
    /\ event \in BOOLEAN
    /\ status \in [Requests -> AllowedStatuses \cup {"none"}]
    /\ born \in [Requests -> Nat]
    /\ job \in [Requests -> SUBSET Requests]
    /\ task \in [Requests -> {"none", "waiting", "active", "done", "archived",
                              "deleted"}]
    /\ retried \in [Requests -> 0 .. MaxRetry + 1]
    /\ devices \subseteq Devices
    /\ kind \in [Requests -> {"subscribe", "unsubscribe"}]
    /\ pc \in [Requests -> {"idle", "exists", "snapshot", "insert", "enqueue",
                            "jobid", "fetch", "delete", "cancel", "done"}]
    /\ got \in [Requests -> SUBSET Requests]
    /\ aim \in [Requests -> SUBSET Requests]
    /\ reply \in [Requests -> {"none", "created", "conflict", "gone", "error"}]
    /\ worker \in [Requests -> [stage : {"idle", "read", "tokens", "send"},
                                left : SUBSET Devices, found : BOOLEAN,
                                hit : BOOLEAN]]
    /\ faults \in 0 .. MaxFaults
    /\ notified \subseteq Requests \X Devices
    /\ twice \subseteq Requests
    /\ unreachable \subseteq Requests
    /\ late \subseteq Requests
    /\ before \in [Requests -> SUBSET Requests]
    /\ disturbed \subseteq Requests

\* A row is marked sent only after a device was reached, or when the user had
\* none, however many tasks and runs work on it (HandleSendNotification).
SentTruth ==
    \A s \in Requests :
        status[s] = "sent" =>
            s \in unreachable \/ \E d \in Devices : <<s, d>> \in notified

\* A run of a task that starts when the row is settled or gone sends nothing:
\* retries after a failure and tasks that outlived their row are harmless.
LateRunsAreSilent == \A t \in late : worker[t].stage \in {"idle", "read"}

\* No device is reminded twice of one subscription, unless a call failed, the
\* process crashed, or two tasks were enqueued for the row.
RemindedOnce == twice \subseteq disturbed

\* A pending row has a task that will still run, or a handler that is about
\* to enqueue it, unless a call failed or the user unsubscribed: no reminder
\* is forgotten between the two databases.
NoReminderForgotten ==
    \A s \in Pending \ disturbed :
        \E r \in Requests :
            /\ s \in got[r]
            /\ Live(r) \/ pc[r] = "enqueue" \/ kind[r] = "unsubscribe"

\* A client told that its subscription is gone has none left of those that
\* were pending when it asked (handleUnsubscribe).
UnsubscribeNeverLies ==
    \A r \in Requests :
        reply[r] = "gone" => \A s \in before[r] : status[s] # "pending"

\* docs/fcm-notification.md, Unsubscribe Flow: the service marks the
\* subscription as canceled.
UnsubscribeCancels ==
    \A r \in Requests :
        kind[r] = "unsubscribe" /\ pc[r] = "done" /\ faults = 0
            => \A s \in got[r] : status[s] # "pending"

\* Every pending row is settled in the end, unless a call failed or the user
\* unsubscribed.
Unsubscribed(s) == \E r \in Requests : kind[r] = "unsubscribe" /\ s \in got[r]
PendingSettles ==
    \A s \in Requests :
        status[s] = "pending" ~>
            status[s] # "pending" \/ s \in disturbed \/ Unsubscribed(s)

\* The service keeps the promises of ReminderLifecycle, whatever handlers, runs,
\* retries and crashes do to the two databases: a run is at work on its row from
\* the moment it found it pending.
Running == {s \in Requests : \E t \in Requests :
               s \in got[t] /\ worker[t].stage \in {"tokens", "send"}}
Delivered == unreachable \cup {s \in Requests : \E d \in Devices : <<s, d>> \in notified}
Dismissed == {s \in Requests : \E r \in Requests : reply[r] = "gone" /\ s \in before[r]}
Lifecycle == INSTANCE ReminderLifecycle
    WITH Subscriptions <- Requests, running <- Running, told <- Delivered, gone <- Dismissed
ImplementsLifecycle == Lifecycle!Spec
=============================================================================
