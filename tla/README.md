# Orbit-core in TLA+

Orbit-core is the back end of a calendar assistant, written in Go: HTTP services
over PostgreSQL, MongoDB and Redis, and a gRPC calendar that an external agent
calls. This directory models the parts where concurrent requests, retries,
crashes and clocks decide whether the program is right, checks them with TLC on
small instances, and proves the central properties with TLAPS for all instances.

- [Inventory](#inventory): the system's parts and what makes them correct
- [Modules](#modules): what each module models and how it corresponds to the code
- [Runs](#runs): what TLC checks, the bounds, the fairness
- [Where the code and its documents disagree](#where-the-code-and-its-documents-disagree)
- [Proofs](#proofs)
- [Not modelled](#not-modelled) and [Plan](#plan)

Paths below are relative to the repository. `PROJECT.json` lists components,
runs, mutants, hazards and theorems, and maps every definition to source lines.

## Inventory

One process (`cmd/orbit-core/main.go`) starts an HTTP server (gateway, chat,
auth, calendar, habit, notification, asset, location, integration), a gRPC
server for the calendar with the action interceptor, and an Asynq worker.
Handlers run one goroutine per request. They share little memory (OAuth states,
tokens and metrics); they share rows, documents and Redis keys, and nearly every
operation is a sequence of separate calls with no transaction around them.

| Component | State | Operations | Interacts with | What is hard |
|---|---|---|---|---|
| Pending actions (`internal/chat`, `pkg/grpc/interceptor.go`) | `pending_actions` documents: status, version, expiry, idempotency key | intercept, confirm, cancel, expire | calendar gRPC, agent, clean-up job | read, execute, then record: overlapping requests, late answers, crashes, expiry |
| Action policy and execution (`policy.go`, `grpc_ops.go`) | the proposed times, the `events` rows | validate, extract times, create, update, delete | pending actions, calendar | the clock moves between validation and use; zero means both "absent" and 1970; read-modify-write |
| Free slots (`calendar/grpc_ops.go`) | none | `GetAvailableSlots` | `events` | boundaries, nested and recurring events |
| Push reminders (`internal/notification`) | `event_subscriptions`, `device_tokens`, Asynq tasks in Redis | subscribe, unsubscribe, fire, register and delete tokens | Asynq, FCM, events (cascade) | two stores; retries; a task that fires while it is cancelled |
| Habit detection (`internal/habit`) | `event_frequency`, `habit_suggestions` | track, suggest, accept, reject | calendar (starts trackers) | goroutines that read and write back a counter; multi-step acceptance |
| Events, tasks, images (`internal/calendar`, `internal/asset`) | `events`, `tasks`; images in MongoDB, their URLs in PostgreSQL | create, read, update, delete, list, deactivate a series, import, upload | habits, reminders, integration | whole-row writes from stale copies; ownership checked before the write; two stores with compensation; the limit of five |
| Accounts, avatars (`internal/auth`, `internal/asset`) | `users`, `sessions`; tokens and a counter in Redis; avatars in MongoDB | register, log in and out, reset, verify, profile, upload | mail, Redis | single-use tokens; whole-row updates; INCR and EXPIRE; a document two uploads share |
| Conversations (`internal/chat`) | `conversations`, `messages`, the rate limiter's counter | create, delete, post, get | agent, pending actions | deletion while a message is with the agent; the proposal is found by a second query |
| Google Calendar (`internal/integration/google`) | OAuth states and tokens in memory | connect, disconnect, refresh, synchronise, status, watch | calendar adapters, Google | refresh against disconnect; repeated callbacks; repeated imports |
| Calendar files (`internal/integration`) | none of its own | import, export | calendar adapters | ids determined by UIDs; conflicts with other users' rows |
| Gateway, rate limiter (`internal/gateway`, `pkg/middleware`) | a counter per connection in Redis | limit, authenticate, route | all services | INCR and EXPIRE are two calls |
| Metrics (`pkg/metrics`) | counters under an `RWMutex` | increment, snapshot | chat | a read lock taken twice |
| Locations, text formats, configuration, logging, wrappers | little or none | | | |

What makes each correct, in one line (the properties below make it precise):

- **Pending actions**: nothing changes the calendar but the owner's timely
  confirmation; the first to settle an action settles it for good; the record
  tells the truth. (What expires is to be settled, and is not.)
- **Execution**: what the policy accepted is what the calendar shows, unless a time
  lies beyond the horizon of the filter.
- **Free slots**: free, long enough, disjoint, and nothing missed.
- **Reminders**: every pending row is settled; nobody is reminded twice, or of
  what they cancelled; what the rows and replies say is true.
- **Habits**: no suggestion before the threshold, one per cycle; an accepted
  suggestion is booked completely, and once.
- **Events, tasks, images**: a row changes only for its user; an update loses
  nothing but what it overlapped with; what is over does not come back; an import
  can be repeated; every URL has an image and every image a URL.
- **Accounts**: addresses and names are unique; changes, tokens and pictures go
  wrong only by overlap; a limit holds, and its window ends.
- **Conversations**: nothing after deletion; a message is answered with the newest of
  its own proposals.
- **Google**: a login connects its own user, once; who has disconnected stays so;
  a synchronisation copies everything once, counts it, and leaves out the others'.
- **Metrics**: a snapshot returns.

## Modules

| Module | Models | Proofs | TLC |
|---|---|---|---|
| `ActionLifecycle` | abstract: what the chat service promises about actions | | (refinement) |
| `PendingActions` | confirm, cancel, expire, crash | `PendingActionsProofs` | `MCPendingActions` |
| `ActionExecution` | validation and calendar effects of actions | `AgentCalendarProofs` | `MCAgentCalendar` |
| `AvailableSlots` | `GetAvailableSlots` | `AgentCalendarProofs` | `MCAgentCalendar` |
| `ReminderLifecycle` | abstract: what the notification service promises about reminders | | (refinement) |
| `Reminders` | subscriptions, tasks, worker | `RemindersProofs` | `MCReminders` |
| `Habits` | trackers, suggestions, answers | `HabitsProofs` | `MCHabits` |
| `ImageStore` | abstract: what the services promise about images | | (refinement) |
| `EventStore` | the tables `events` and `tasks` and their statements | | (used below) |
| `CalendarEvents` | HTTP handlers of events and tasks, imports, images; uses `EventStore` | `CalendarEventsProofs` | `MCCalendarEvents` |
| `UserStore` | the tables `users` and `sessions` and their statements | | (used below) |
| `RateLimiter` | a counter in Redis, INCR and EXPIRE | | (used below) |
| `Accounts` | the auth handlers and the avatar; uses `UserStore`, `RateLimiter` | `AccountsProofs` | `MCAccounts` |
| `GoogleCalendar` | login, tokens, synchronisation | `GoogleCalendarProofs` | `MCGoogleCalendar` |
| `Conversations` | rate limiter, gateway, conversations and messages; uses `RateLimiter` | `ConversationsProofs` | `MCConversations` |
| `Metrics` | counters and their lock | | `MCMetrics` |

The modules share a style. Each database, Redis, FCM, Google or gRPC call is a
step; what a handler keeps in local variables between two calls is a variable of
the model. A call may fail before it takes effect or answer too late after it did
(`Fault`, or the outcomes `"refused"` and `"lost"`); a crash loses all local
state. Both are bounded by `MaxFaults`. Variables and fields called observers
(`late`, `disturbed`, `notified`, `saw`, `wrote`, `admitted`, ...) record history
for the properties; no guard reads them. `saw` is the set of requests that were
over when a request began (or last read), so that `r \notin request[q].saw` says
that r and q overlapped, or r came later.

### PendingActions and ActionLifecycle

`interceptMutatingOperation` stores an agent's call (`Propose`). A request goes
through `Send`, `Admit` or `Refuse` (the early returns on the document as read),
`Check` (expiry, then policy), `Execute` and one `Record...` step, which is
`UpdatePendingActionStatus`: an update that filters by `action_id` and version.
Only a cancelling handler reports the update's failure to its client; the others
log it. The clean-up job reads the expired actions (`SweepRead`) and updates them
one by one. Its code is modelled although nothing starts it: `CleanupJobStarted`
says whether something did, and is `FALSE` of the program as it is. Time is two
verdicts, `lapsed` and `valid`, that each turn once.

`ActionLifecycle` keeps the recorded status, the open attempts and the effects.
`PendingActions` implements it with `attempts` mapped to the confirmations between
admission and calendar call. The abstract specification deliberately does not
promise at most one effect: the code does not deliver that.

### ActionExecution

Each action is confirmed once here; the subject is time. Instants are numbers,
and 0 is what the messages carry for a time left out. `Accepts` is the policy
validator. `ExtractedSlot` is `extractTimeFields` at execution, when the clock has
moved on: a time beyond the ten-year `Horizon` is dropped. What becomes of a dropped
time depends on the operation (`Ask`, and the observer `sent`): a creation stores 0,
which is 1970, and an update keeps the event's own time in that place. `ReadEvent`
and `WriteEvent` are the two halves of `UpdateEvent`. `Existing` events,
`UserDeletes` and other actions interleave. Titles, attendees and the like are the
Boolean `complete`.

The filter does break what the policy promised, so the properties except the events
it touched. `Clipped(a)` is an executed action of which it dropped a time;
`Torn(a)` one of which that changed the outcome: a creation, or an update whose start
was kept and whose end was dropped. `CalendarRespectsPolicy` excepts the events of
torn actions, `NotIntoThePast` the creations of which both times were dropped,
`SlotsAreConfirmed` the events of clipped updates. An update of which both times are
dropped changes no time, and respects the policy. `MCAgentCalendar` has times within
the horizon, across it and beyond it.

### AvailableSlots

One request over any set of events that the table could hold, including events
that end before they start. `Visit` is an iteration of the loop, so the proof's
invariant can say what the prefix of the sweep has established.

### Reminders and ReminderLifecycle

One user and one event; request r, row r and task r share an id. Subscribing is
`Exists`, `Snapshot`, `Insert`, `Enqueue`, `StoreJobID`: the SQL statement that
inserts sees one snapshot for its `SELECT` and the newest rows for its
`ON CONFLICT`. Unsubscribing is `Fetch`, `DeleteTask`, `Cancel`. A task fires at
any time after it was enqueued (`Fire`), and the worker goes through `ReadSub`,
`GetDeviceTokens`, `SendToToken` per device, `Finish`. Asynq is modelled as the
code relies on it: at least one run, `MaxRetry` retries, no deletion of an active
task, and a run that died with the process is retried.
Redis and Firebase are configured; without Firebase credentials the worker logs,
sends nothing and still marks the row sent (`worker.go:152`), so `SentTruth` holds
only with them. `disturbed` are the rows hit by a second task or by a fault that no
retry makes good: a call that fails in a run counts only in the last one (`RunFault`).

`ReminderLifecycle` knows one database: the subscriptions, which of them are being
worked on, of which a device was told, and which a user was told are gone.
`Reminders` implements it with a row at work from the moment a run found it pending
to the end of that run. The abstract specification does not promise that a run
stops when its subscription is settled: the worker looks at the status once.

### Habits

One pattern (title, weekday, time, duration). A save of an event, new (`Create`)
or updated (`Edit`), starts a tracker: `GetFrequency`, then `Upsert` or `Update`,
and at the threshold `Suggest`, `MarkEventsAsRecurring`, `MarkShown`. Updates
write the row as it was read. Accepting is `ReadSuggestion`, `CreateOccurrence`
in a loop, `UpdateSuggestionStatus`, `RereadFrequency`, `MarkAccepted`.

### ImageStore, EventStore and CalendarEvents

`EventStore` is the SQL: each statement an operator from tables to tables, with
the columns it writes and those it leaves. Two details decide the properties:
`UpdateEvent` writes every column but the images, and the repository's
`GetEventByID` drops the recurrence, so whoever reads and writes an event ends
its series. `CalendarEvents` has one step per statement: `VerifyEventOwner` and
`updateEvent` or `deleteEvent`, `deactivateRecurringEvent` (which verifies
nothing), an import's `CreateEventAdapter`, `resolveDuplicateEvent` and
`ImportRenamed` or `ImportOverOwn`, an upload's `uploadEventImage`,
`SaveEventImage` (MongoDB), `AddImageURL` (PostgreSQL) and `CleanUp`, and the same
for tasks. A column's value is the request that wrote it, so a property can say
whose value stands; `born` tells a row from a later one under the same id.

`ImageStore` states what a client sees of the two databases: an event that is there
lists images, its list only grows, up to the maximum, an image is stored before it is
listed, and one whose upload was answered with success is never removed. The mapping
takes the event ids with a row, their URLs, the documents in MongoDB and the
successful uploads. It promises neither that what is stored is listed nor the
converse: after a failed call the code leaves either behind, and `ImagesAgree` says
exactly when.
That no image is listed by two events needs two events to fail: the run has one, the
theorem any number.

### UserStore, RateLimiter and Accounts

`Accounts` has the eight operations of the auth service as sequences of reads and
writes. `DuplicateKey` is the database's constraint, `GetUserByEmail` and
`CheckUsername` the handlers' own checks before it. A reset request counts
(`ResetIncr`), sets the counter's time to live if it was the first
(`ResetExpire`), and stores a token; a confirmation looks the token up
(`GetToken`), reads the user (`ReadForToken`), writes the row (`WriteForToken`)
and deletes the token (`DeleteToken`). An upload of an avatar upserts one document
per user, reads its id, writes the URL, and on failure deletes the document by the
id that all uploads share (`CleanUpAvatar`).

### Conversations

A request passes the limiter (`RateIncr`, `RateExpire`) and the gateway, which trusts or
refuses its token, and then its handler: `handlePostMessage` verifies the
conversation once, stores the message, waits for the agent, looks for the
proposal (`parseProposedAction`: by correlation id, else the newest pending one)
and stores the reply. The agent proposes through the interceptor whenever it
likes while it has the message, and afterwards if the handler gave up on it, with the
message's correlation id or without, up to `MaxProposals` times: each mutating call is
an action of its own, and the reply offers one. `OwnProposalOffered` says that it is
the newest with the id that still waits, or a newer one that has been settled since; an
older proposal of the same message waits unmentioned. Status changes of actions are `SettleAction`; their
details are `PendingActions`.

### GoogleCalendar

`pending` and `tokens` are the two maps in memory. `GetAuthURL` adds a state,
`HandleCallback` takes it out, `Exchange` and `SaveToken` complete the login.
Every call of Google goes through `GetToken`, `Refresh` and perhaps `SaveToken`,
which writes whatever happened meanwhile. A synchronisation lists, then copies
one event per step, in the order of the list; a copy records who made it (`by`) and
the place of what it was copied from (`of`). A bidirectional one imports, then exports,
each half with a client of its own, and reports the error of either half
(`WithoutClient`). Nothing tells an event from its copy: what was imported is exported
in the same request, and every later synchronisation copies everything again. `SyncTrue`
therefore speaks of one synchronisation at a time, with any others before and beside
it: each event at most once in each direction, all there were if no call failed, nobody
else's, and the right number. `Age` lets a state become too old.

### Metrics

The `RWMutex` as Go documents it: a waiting writer shuts out new readers.

## Runs

| Run | Instance | Shows |
|---|---|---|
| `actions_races` | 1 action, 3 requests, 2 users, 2 faults, the clean-up job started | `CancelHonoured`, `NoLateEffect`, `OnlyOwnerConfirms`, `UndisturbedTruth`, refinement of `ActionLifecycle` |
| `agent_calendar` | 2 actions, 1 existing event, 5 instants, 4 clock values, horizon 1; and 3 events (1 recurring), 4 instants | `CalendarRespectsPolicy`, `NotIntoThePast`, `SlotsAreConfirmed`; `SlotsAreFree`, `NothingMissed` |
| `reminders_races` | 3 requests, 1 device, 1 retry, 1 fault | `LateRunsAreSilent`, `RemindedOnce`, `NoReminderForgotten`, `UnsubscribeNeverLies` |
| `reminders_live` | 2 requests, 1 device, 1 retry, 2 faults, fair | refinement of `ReminderLifecycle`, `PendingSettles` |
| `habits_races` | 4 saves, 2 answers, threshold 3, 2 occurrences, 1 fault | `SuggestionsAreEarned`, `AcceptedIsComplete`, `OncePerCycle`, `AnsweredOnce` |
| `events` | 3 requests, 2 users, 1 event id, 1 task, at most 1 image, 1 fault | `LostOnlyByOverlap`, `NothingComesBack`, `OwnersRowsOnly`, `ReimportAddsNothing`, `ImagesAgree`, `AcceptedImagesStay`, refinement of `ImageStore` |
| `accounts` | 3 requests, 2 addresses, names, passwords, limit 1, 1 fault | `IdentitiesUnique`, `ChangesLostOnlyByOverlap`, `TokenReusedOnlyByOverlap`, `ResetLimitHolds`, `AvatarKept` |
| `google` | 3 requests, 2 users, 1 pending state, 2 synchronisations, 1 fault | `StateConnectsOnce`, `ReconnectedOnlyByOverlap`, `SyncTrue`, `PendingLogins` |
| `conversations` | 2 requests, 2 users, 2 proposals per message, limit 1, 2 faults | `DeletedIsGone`, `OwnProposalOffered`, `LimiterSound` |
| `actions_cleanup` | 1 action, 2 requests, no faults, no clean-up job, fair | refutes `LapsedSettles` |
| `actions_twice` | 1 action, 2 requests | refutes `ExecutedAtMostOnce` |
| `metrics_snapshot` | 1 snapshot, 2 increments, fair | refutes `SnapshotReturns` |

Every property of a passing run has a mutant in `PROJECT.json`: a plausible
mistake in the code under which the run finds the property violated. Each module
that has a theorem proves its `TypeOK` (see [Proofs](#proofs)), and no run repeats
it; nor does one repeat `ImageCap`, the limit of images, and `SentTruth`, which are
proved too and are part of `ImageStore` and `ReminderLifecycle`.

*Bounds.* Actions do not interact in `PendingActions` (no step reads two of
them, and the job's loop is over a set of which each member is handled alone),
so one action suffices. Two requests give every race: confirm against confirm,
confirm against cancel, or either of them late; a third and the clean-up job are
further contenders. For more requests the safety properties are proved. In
`ActionExecution` two actions are the reader and the writer of a lost update;
the five instants give slots that are too short, right and too long, one that
turns past while the clock runs, and, as the clock moves the horizon, slots of which
it takes the end, both ends, or nothing. In `AvailableSlots` three events are enough for
a nested event followed by another, and four instants for every relation between
two intervals and the window. Reminders need two requests for every race and
three for subscribe, unsubscribe, subscribe again; the second device adds nothing
that one device and a retry do not. Two faults
are more than the one retry makes good, so the liveness run reaches archived tasks
whose rows stay pending. Habits need one save more than the threshold
for two trackers to reach it together and for the next cycle to begin.

`CalendarEvents`, `Accounts` and `GoogleCalendar` have three requests: two that
race and a third that undoes, repeats or observes (deletes and imports anew under
the same id, takes a name that was given up, logs in after a disconnection).
One id suffices where requests conflict only on the same row; a limit of one
(images, resets, messages, pending states) makes the second request meet it. The
fault stands for any one of: a statement refused, a reply lost, a crash; two faults
matter where the clean-up after a first one can fail too, which is nondeterministic
in `CleanUpAvatar` and `AddImageURL` without a second. In `Conversations` two
requests suffice for deletion against message and message against message, since
every property relates two requests; two proposals are what it takes for the reply to
choose. `MCAgentCalendar` runs `ActionExecution` and `AvailableSlots` beside each
other, one of them at rest: the sweep works on a copy of the rows its query returned,
so their interleavings show no more.

`CHECK_DEADLOCK` is off: requests, saves and tasks are finite, and when all are
done the model stops.

*Symmetry* is used in runs without liveness, over requests, devices, saves, and
actions or events where the instance tells none of them apart.

*Fairness.* In `PendingActions` a handler that was entered takes its steps
(goroutines are scheduled and every call has a deadline), and so would the clean-up
job, whose ticker never stops while the process runs, if something started it
(`CleanupJobStarted`). Nobody is obliged to send a request, propose, or let time pass.
No liveness of actions passes a run, for there is none: in `actions_cleanup` the action
lapses, nobody asks, every handler has finished, and it stays pending. The safety run
lets the job run all the same, because its races with the handlers should be right on
the day it is started.
In `Reminders` handlers take their steps, and so do Asynq tasks: Asynq fires
every task that is due and retries or archives a failed one. Faults are bounded,
so a task cannot fail for ever; retries are bounded by the code itself.
`PendingSettles` excepts disturbed rows and rows the user asked to cancel.
In `Metrics` the scheduler runs every goroutine that is not blocked: weak fairness
for a writer, whose turn no reader can take once it waits, and strong fairness for
a snapshot, which writers may block again and again. The refutation does not rest
on more: in its last state nothing is enabled.

## Where the code and its documents disagree

Three disagreements are runs that TLC refutes with a short counterexample.

| Run | Statement | What the code does |
|---|---|---|
| `actions_twice` | idempotency keys prevent duplicate execution (`docs/SERVICE_ARCHITECTURE.md:395`) | two overlapping confirmations both pass the check and both execute |
| `actions_cleanup` | the clean-up job removes expired actions (`docs/SERVICE_ARCHITECTURE.md:398`) | nothing constructs or starts the job (`internal/chat/cleanup.go:33`) |
| `metrics_snapshot` | `GetSnapshot` returns a snapshot (`pkg/metrics/metrics.go:202`) | it takes the read lock twice, and deadlocks with a counter that asks for the write lock in between |

Others are stated as properties of the modules, each next to the weaker one that
the code does have and a run checks. To see the counterexample, add the property
to the configuration named, with the change given.

| Property | Configuration | Statement | What the code does |
|---|---|---|---|
| `UnsubscribeCancels` | `MCRemindersRaces` | unsubscribing marks the row (`docs/fcm-notification.md:157`) | `canceled` violates the table's constraint, which says `cancelled` |
| `ThresholdTriggers` | `MCHabitsRaces`, 6 saves, `CONSTRAINT Undisturbed` | three occurrences trigger a suggestion (`docs/SERVICE_ARCHITECTURE.md:247`) | accepting an old suggestion in a new cycle silences the pattern |
| `SuggestedForOccurrences` | `MCHabitsRaces` | at least three occurrences (`:263`) | three saves of one event are enough |
| `UpdateKeepsRecurrence` | `MCCalendarEventsRaces` | an update applies the fields of the request (comment of `applyUpdateToEvent`, `internal/calendar/service.go`) | every update ends the recurrence of the event |
| `ImportIsIdempotent` | `MCCalendarEventsRaces` | ids of UIDs are deterministic "to maintain idempotency" (`internal/integration/formats/ics.go:41`) | an id that another user's event has is replaced by a fresh one, each time |
| `TokenUsedOnce` | `MCAccountsRaces` | a reset token is "single-use" (`internal/auth/service.go:554`) | two confirmations that overlap both use it |
| `DisconnectSticks` | `MCGoogleCalendarRaces` | "Disconnect removes the Google Calendar connection" (`internal/integration/google/service.go:218`) | a token that was being refreshed is saved after it |
| `OfferedIsOwn` | `MCConversationsRaces` | an action the interceptor created for the message is included (`internal/chat/handlers.go:202`) | without a correlated action the newest pending one of the conversation is, whoever caused it |

That row r cannot be cancelled (`UnsubscribeCancels`) does not make the passing
properties of `Reminders` empty: unsubscribing still deletes the task, answers
the client, and races with re-subscription and the worker.

The models show more behaviours of this sort. The passing properties say where
they are excepted.

- A cancellation recorded while a confirmation executes leaves an executed action
  cancelled (`docs/SERVICE_ARCHITECTURE.md:396` knows no such path).
  `ActionLifecycle` allows it, and `UndisturbedTruth` excepts it.
- The policy wants an end after the start (`internal/chat/policy.go:104`) and checks
  it before the filter drops times beyond ten years (`internal/chat/service.go:475`).
  An event that ends beyond them is created with its end in 1970, one that starts
  beyond them with both ends there; an update of which the end is dropped moves the
  start only. The properties of `ActionExecution` except exactly these.
- A bidirectional synchronisation sends what it has just imported back to Google
  (`internal/integration/service.go:628`), which then has those events twice, and a
  repeated one doubles everything in both calendars. `SyncTrue` does not exclude it.
- Of several actions that one message led to, the reply offers one
  (`internal/chat/service.go:364`); the others wait until somebody lists them or they
  expire.
- An agent's update that leaves its times out is refused: the interceptor stores
  them as 0 and the policy validates what is stored (`policy.go:161`).
- `checkConflicts` (`internal/chat/service.go:325`) looks at no event, so nothing
  in `ActionExecution` stands for it.
- Two overlapping subscriptions are both told they created the one row, and two
  tasks are enqueued (`internal/notification/service.go:218`). `RemindedOnce`
  excepts rows with two tasks.
- Two overlapping acceptances of a suggestion both create its occurrences
  (`internal/habit/service.go:229`). `AnsweredOnce` excepts overlaps.
- A rejected habit is suggested again in the next cycle
  (`docs/SERVICE_ARCHITECTURE.md:268`). `OncePerCycle` counts that suggestion.
- `deactivateRecurringEvent` looks at no owner; `OwnersRowsOnly` excepts it.
- The rate limiter's key is `RemoteAddr`, address and port
  (`pkg/middleware/ratelimit.go:39`), so it counts per connection, not per client
  as `README.md:26` suggests. `Conversations` models one connection.
- A logout deletes a session row, but requests are authenticated by their JWT
  alone (`docs/SERVICE_ARCHITECTURE.md:108`); it stays valid until it expires.
- Two logins of one user within a second get the same JWT, and a logout of the
  one may delete the session of the other (`SessionsStay` of `Accounts`).
- `handleDeleteConversation` tests for a conversation that is already deleted
  after a look-up that has refused it.

## Proofs

`tlapm` checks every step of the eight proof modules. The assumptions are the
named `ASSUME`s of the modules (bounds are numbers, owners are users, times are
integers, names are distinct); no instance is fixed.

**PendingActionsProofs.** `TypeCorrect` is `TypeOK`. The other theorems rest on
one inductive invariant, `IInv` (`Inductive`). None of the safety properties is
inductive by itself: that a cancellation is honoured depends on versions, for the
cancelling handler holds one it read earlier. `VersionInv` says that exactly the
settled actions have left version 0, `HandlerInv` that a handler past admission
holds version 0 of an action that exists and, if it confirms, that it is the
owner's with the right key, `SweepInv` the same of the versions the job holds,
`EffectInv` that only a handler past its calendar call has an effect, and
`LateInv` that a late request is stopped by one test or the other. From it follow
`CancelIsHonoured`, `LateRequestsAreHarmless`, `OwnerMustConfirm`, the action
property `SettledStaysSettled`, and `Implements`: initial states map to initial
states of `ActionLifecycle` and every step to a step or a stutter.
`RecordsTellTheTruth` is `UndisturbedTruth` for any number of requests. It speaks
of actions with nothing in flight, so `TruthInv` says what holds in between: one
request at a time, none while the job holds the action, which is therefore still
pending whenever a handler past admission looks away; what took effect is
recorded, or about to be by the handler that did it.

**AgentCalendarProofs**, on what the agent may do to the calendar and what it is told
of it. Of `ActionExecution`: `TypeCorrect`, then `RespectsPolicy`, for any horizon and
any times. The property is not inductive, since an update writes a draft made earlier
out of the event's times and its own. `AcceptedInOrder` says that accepted proposals
are in order, and that a draft is too, or the filter is to blame: it dropped the end of
this update (`Halved`), or an action on the event was torn apart before (`Excused`).
`OwnEvent` says that an action creates the event of its own name and no other.
`Verbatim` says what was accepted and with what the calendar is asked;
`NewEventsAreNotPast` and `NoMixedSlots` follow, because a row gets its slot from one
executed proposal at a time (`SlotStep`), unless that one is clipped.
`DeletedStaysDeleted` needs only `CreatedOnce`: nobody creates an event twice.

Of `AvailableSlots`: the invariant of the sweep (`SweepInductive`). `CursorInv`: the visited
events end at or before the cursor and no slot reaches into an event to come.
`CoverInv`: every free interval that is long enough lies within a slot or starts
at or after the cursor. `DisjointInv`: if all events are well formed the slots end
before the cursor. `OffersAreFree`, `OffersAreComplete` and `OffersAreDisjoint`
are its consequences, for any set of events and times.

**RemindersProofs.** Nothing ties a row of PostgreSQL to its task in Redis, so every
property needs `Core`, which says what the code keeps true of the two (`CoreHolds`).
`RowInv`: rows are numbered as they were created, each at most once, and a pending
row is the last, so there is one at most; `HandlerInv`: a handler holds one row at
most and answers at its end; `TaskInv` and `JobInv`: a task has a row that is fixed
before the task is made, and a stored job id names a task of that very row. The
steps are summed up in a few lemmas, `HandlerStep`, `RowStep` and `RunStep`, so that
the properties need not look at every action again. `GoneIsGone`: from its `SELECT`
to its `UPDATE` an unsubscription holds the row that was pending when it was sent, if
it still is (`GoneInv`). `SentIsTrue`: a run that found devices and counts a success
has told one (`SentInv`). `LateIsSilent` is a consequence of the status never going
back (`RowStays`). `OnceIsOnce`: `OnceInv` says of a row with one task and no fault
that a run which told a device has it off its list, and that no run starts after it.
`NoneForgotten` is inductive with `Core`: `LiveStep` follows a task, and `EnqueueStep`
the handler about to make one. With `GoneInv` and `SentInv` every step maps to a step
of `ReminderLifecycle` or a stutter (`Implements`). Requests, devices, retries and
faults are any numbers; that there are finitely many rows at any time, on which the
numbering rests, is part of the invariant and not assumed.

**HabitsProofs.** `Earned` is `SuggestionsAreEarned`. Trackers write back rows they
read long ago, so the counter alone says nothing; `CountInv` says that neither the
row nor any copy of it counts more saves than have been tracked (`Total`): lost
updates only undercount. With `FoundedInv` (a tracker about to suggest, a
suggestion, a request that answers one exist only past the threshold) this is
inductive. `AcceptedHasAll` needs `CompleteInv`: a handler that may still mark the
suggestion has created all occurrences. `BookedOnce` and `SuggestedOncePerCycle`
are about runs without fault or overlap. `AnsweredInv` says that a suggestion is
open as long as a request works on it; `CycleInv` that the saves not yet told of by
a suggestion are what the row counts, so that the product of suggestions and
threshold is at most a cycle behind the saves, for every threshold.

**ConversationsProofs.** Every part rests on `Base` (types and which stages belong
to which operation). `LimiterIsSound`: `GateInv` bounds the admitted requests by
the counter and by the limit. `OwnersAreAlone`: whoever is past the look-up owns
its conversation. `DeletedStaysGone` is not inductive, because a handler checks
once and works on; `DeletedInv` adds that a conversation deleted by an answered
request stays deleted and that a request that has seen this answer has got no
further than the look-up. `RepliesStand`: `RepliesInv` says which message of its
own a request about to reply has stored. `OwnIsOffered`: by
`ProposalInv` the proposals of a message are made before its reply is put together,
and from then on the reply has, for each of them that waits with the message's id, that
one or a newer one of the message; the search by correlation id takes the newest
(`MaxIn`). It says nothing of the fallback, which offers the proposal of another message.

**GoogleCalendarProofs.** `StatesConnectOnce`: by `StateInv` a state is in the map,
for the user it was made for, or one callback holds it, never both.
`ReconnectionOverlaps`: by `TokenInv` a user with a token after a disconnection,
or a request that came after it and has got one, has somebody who wrote since.
`SyncIsTrue`: `CountInv` bounds what a synchronisation counts by what it copied
(and by what it copied and lost the answer of). That it copies nothing twice is
`OnceInv`: what it has copied is off its list, and before it has a list for a direction
it has copied nothing there, whatever others do to the two calendars. That it misses
nothing is `MissingInv`: while no call has failed, what was there at its beginning is
copied or on its list. It holds beside other synchronisations because those can only add
copies of their own, which were not there at the beginning (`ThereStays`); `SyncFrame`
and `SyncCases` sum up what a step means for one synchronisation. `LoginsArePending`
follows the map through the
four actions that touch it: it stays finite, and grows past its bound only by a
login that found no other too old.

**AccountsProofs.** `Base` gives types, what a handler holds at each stage, and that
Alice's row stays. `IdentitiesAreUnique` needs the constraints of the table at every
write, those of stale copies included, and `RegisteredInv` for the accounts.
`ResetLimitIsKept`: `LimitInv` bounds the admitted requests by the counter, and
`WindowInv` names who is responsible for a counter without a time to live.
`TokensAreReusedOnlyByOverlap`: by `GoneInv` the token of an answered confirmation
is gone unless a call failed, which needs that no reset mints it again
(`MintedInv`); then a confirmation past its look-up cannot have seen the other end.
`AvatarIsKept`: `FoundInv` says that an upload about to write a URL writes that of
the document there is, unless one failed. `ChangesAreLostOnlyByOverlap`: by
`WroteInv` a change that was written is in the row or was overwritten as the
property allows, and by `CopyInv` in every copy whose reader saw the request end,
so that writing the copy back restores it.

**CalendarEventsProofs.** `Base` gives types, what a handler holds, and that a fresh
id has a row only when its request is over; `EventRowStep` lists the ways in which
a row can change. Everything else is about a copy and the row it was read from.
`BornInv` says that the two are the same row if they were born of the same request,
since nobody can hold a copy of a row yet to be inserted, and `StillStays` that a
row a handler has read is never replaced by one that looks like it. From these
follow `OwnersRows` and, with `OverInv`, `WhatIsOverStaysOver`. `ImageInv` follows an
image through the two databases and gives `AcceptedStay` and `DatabasesAgree`;
`ImagesAreCapped` needs only that counting and appending are one statement.
`UpdatesAreLostOnlyByOverlap`: `EventsKept` says that an answered update is in the
row or was overwritten as the property allows, and `EventsSeen` that it is so in
every copy read after the answer, so that writing the copy back restores it.
`ReimportsAddNothing`: `ImportInv` says where the row under a UID comes from, so an
event is given a fresh id only when another user holds its UID.
`ImplementsStore` is the refinement of `ImageStore`. A step changes one row at most
(`OneRow`), and only `AddImageURL` makes an upload accepted (`AcceptedSame`). A row
that appears is `Open` and lists nothing, one that goes is `Close`, and one that
changes keeps its images (`RowRefines`), because no update writes that column; an
appended URL is `List`, which needs from `ImageInv` that its document is stored and
that no event lists it yet (`AddRefines`). `SaveEventImage` is `Store`, `CleanUp` is
`Discard`: an accepted upload is over, so nobody is left to clean up after it.

Every safety property that a passing run checks is proved. Only model-checked: the
liveness of reminders (`PendingSettles`), since liveness
under fairness is outside what the installed provers do; and the runs that refute a
statement of the documents.

## Not modelled

- **Text and data**: ICS, CSV and mail as text, dates and time zones in them,
  password hashing, validation of profile fields, wording of summaries:
  sequential and without state. (A CSV date without a zone is read in the
  server's, and day and month are told apart by trial; unit tests reach both.)
- **Dates** in habits: `calculateEventStart`, `calculateTotalWeeks`. The fuzzy match
  of the documents (one hour, 15 minutes) does not exist in the code, which
  compares exactly.
- **Endpoints without effect**: `syncData`, `connectExternal` and `handleWebhook`
  answer and do nothing; `StopWatch` has no route; nothing calls
  `integration/repository.go`.
- **Locations**: rows are appended and queried; `IntToInt32` turns an overflow into
  0 (`converters.go:82`).
- **Configuration, logging, wrappers**, generated protocol buffers: no protocol of
  their own. Their failures are the calls that fail.
- **Libraries**: MongoDB, PostgreSQL, Redis, Asynq, FCM, Google and gRPC are
  modelled as the code uses them: a statement or an update with a filter is atomic,
  a call may fail or answer late.

## Plan

What is left, in the order of its use: an abstract specification of a rate limiter
that the limits of `Accounts` and `Conversations` implement; the dates of habits
against a reference definition.
