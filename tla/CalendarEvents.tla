---------------------------- MODULE CalendarEvents ----------------------------
(***************************************************************************)
(* The HTTP handlers of events and tasks (internal/calendar/service.go),   *)
(* the import of a calendar file (internal/integration/service.go and      *)
(* CreateEventAdapter in internal/calendar/grpc_ops.go) and the images of  *)
(* an event (internal/asset), which keep their bytes in MongoDB and their  *)
(* list in PostgreSQL.  No handler uses a transaction: every call to a     *)
(* database is a step of its own, and any number of requests interleave.   *)
(*                                                                         *)
(* The value of a column is the name of the request that supplied it, and  *)
(* a fresh UUID is the name of the request that drew it.                   *)
(***************************************************************************)
EXTENDS EventStore

CONSTANTS
  Requests,    \* requests served, each an event of the file in an import
  Users,
  Owner,       \* the user whose calendar holds something at the start
  Uids,        \* ids that an event of a calendar file may carry
  Initial,     \* the rows of events at the start
  Tasks,       \* the rows of tasks at the start
  Nobody,      \* the author of what is there at the start
  MaxFaults    \* failed database calls and crashes

ASSUME SetsAssumption ==
  /\ Owner \in Users /\ Initial \subseteq Uids
  /\ (Uids \cup Tasks \cup {Nobody}) \cap Requests = {}
  /\ MaxFaults \in Nat

VARIABLES
  events,      \* the table events of PostgreSQL
  tasks,       \* the table tasks of PostgreSQL
  blobs,       \* the images in MongoDB, each named by the request that stored it
  request,     \* per request, where its handler is and what it has read
  faults       \* faults so far

vars == <<events, tasks, blobs, request, faults>>

Ids     == Uids \cup Requests
TaskIds == Tasks \cup Requests

EventOps == {"createEvent", "updateEvent", "deleteEvent", "deactivate", "import", "upload"}
TaskOps  == {"createTask", "updateTask", "deleteTask"}

\* The combinations of fields a request may mention.
EventMentions == {{"title"}, {"place"}, {"title", "recurring"}}
TaskMentions  == {{"title"}, {"completed"}}

Author == Requests \cup {Nobody}
EventRow == [user : Users, title : Author, place : Author, recurring : BOOLEAN,
             images : SUBSET Requests, born : Author]
TaskRow  == [user : Users, title : Author, completed : BOOLEAN, born : Author]

ASSUME RowAssumption == NoRow \notin EventRow \cup TaskRow

Idle == [op |-> "none", user |-> Owner, id |-> Nobody, named |-> {}, stage |-> "idle",
         copy |-> NoRow, answer |-> "none", wrote |-> FALSE, late |-> FALSE, saw |-> {}]

Init ==
  /\ events = [id \in Ids |-> IF id \in Initial THEN NewEvent(Owner, Nobody, Nobody, TRUE, Nobody)
                              ELSE NoRow]
  /\ tasks = [id \in TaskIds |-> IF id \in Tasks THEN NewTask(Owner, Nobody, Nobody) ELSE NoRow]
  /\ blobs = {}
  /\ request = [r \in Requests |-> Idle]
  /\ faults = 0

-----------------------------------------------------------------------------
(* Requests, their ends, and calls that fail *)

Ended   == {r \in Requests : request[r].stage = "ended"}
Running == {r \in Requests : request[r].stage \notin {"idle", "ended"}}
At(r, op, stage) == request[r].op = op /\ request[r].stage = stage

Goto(r, stage)  == request' = [request EXCEPT ![r].stage = stage]
End(r, answer)  == request' = [request EXCEPT ![r].stage = "ended", ![r].answer = answer]

\* A statement is done; or it fails and has changed nothing; or its reply is
\* lost, and the handler takes what was done for an error.
Outcomes == {"done"} \cup IF faults < MaxFaults THEN {"refused", "lost"} ELSE {}
Spend(outcome) == faults' = IF outcome = "done" THEN faults ELSE faults + 1
Result(outcome, before, after) == IF outcome = "refused" THEN before ELSE after

\* A handler's last statement: it answers, or reports an error.
EndWriting(r, outcome, answer) ==
  /\ request' = [request EXCEPT ![r].stage = "ended",
                                ![r].wrote = outcome # "refused",
                                ![r].answer = IF outcome = "done" THEN answer ELSE "error"]
  /\ Spend(outcome)

Arrive(r, op, user, id, named) ==
  /\ request[r].stage = "idle"
  /\ request' = [request EXCEPT ![r] =
       [Idle EXCEPT !.op = op, !.user = user, !.id = id, !.named = named,
                    !.stage = "begun", !.saw = Ended]]
  /\ UNCHANGED <<events, tasks, blobs, faults>>

\* The ids an event of a file may have: an event of an ICS has the one its UID
\* determines, or a fresh one if it has none; a row of a CSV has a fresh one.
ParseICS(r) == Uids \cup {r}
ParseCSV(r) == {r}

\* A request to create draws a fresh id.
ArriveCreate(r, user) ==
  \/ \E named \in {{"title", "place"}, {"title", "place", "recurring"}} :
       Arrive(r, "createEvent", user, r, named)
  \/ Arrive(r, "createTask", user, r, {"title"})
ArriveImport(r, user) == \E id \in ParseICS(r) \cup ParseCSV(r) :
  Arrive(r, "import", user, id, {"title", "place"})
ArriveForEvent(r, user, id) ==
  \/ \E named \in EventMentions : Arrive(r, "updateEvent", user, id, named)
  \/ \E op \in {"deleteEvent", "deactivate", "upload"} : Arrive(r, op, user, id, {})
ArriveForTask(r, user, id) ==
  \/ \E named \in TaskMentions : Arrive(r, "updateTask", user, id, named)
  \/ Arrive(r, "deleteTask", user, id, {})

\* The handler reads the row and refuses when there is none, when it belongs
\* to another user, or when the read fails; else it keeps what it has read.
Read(r, row) ==
  \E failed \in IF faults < MaxFaults THEN BOOLEAN ELSE {FALSE} :
    /\ faults' = IF failed THEN faults + 1 ELSE faults
    /\ IF failed \/ row = NoRow \/ (row # NoRow /\ row.user # request[r].user)
       THEN End(r, "not found")
       ELSE request' = [request EXCEPT ![r].stage = "read", ![r].copy = row, ![r].saw = Ended]
    /\ UNCHANGED <<events, tasks, blobs>>

-----------------------------------------------------------------------------
(* Events *)

createEvent(r) ==
  /\ At(r, "createEvent", "begun")
  /\ \E outcome \in Outcomes :
       /\ events' = Result(outcome, events, CreateEvent(events, r,
                      NewEvent(request[r].user, r, r, "recurring" \in request[r].named, r)))
       /\ EndWriting(r, outcome, "ok")
  /\ UNCHANGED <<tasks, blobs>>

\* What the handlers that only read answer.
listEvents(user)          == ListEvents(events, {user})
listRecurringEvents(user) == GetActiveRecurringEvents(events, user)
getEvent(user, id) ==
  LET event == GetEventByID(events, id) IN
  IF event # NoRow /\ event.user = user THEN event ELSE NoRow

\* updateEvent, deleteEvent: verify ownership, then act on what was read.
VerifyEventOwner(r) ==
  /\ At(r, "updateEvent", "begun") \/ At(r, "deleteEvent", "begun")
  /\ Read(r, GetEventByID(events, request[r].id))

\* Mutant: a field the request leaves out is emptied.
ApplyAllFields(event, r, named) ==
  [event EXCEPT !.title = IF "title" \in named THEN r ELSE Nobody,
                !.place = IF "place" \in named THEN r ELSE Nobody,
                !.recurring = "recurring" \in named]

\* The fields the request mentions; the recurrence can only be switched on.
applyUpdateToEvent(event, r, named) ==
  [event EXCEPT !.title = IF "title" \in named THEN r ELSE @,
                !.place = IF "place" \in named THEN r ELSE @,
                !.recurring = @ \/ "recurring" \in named]

updateEvent(r) ==
  /\ At(r, "updateEvent", "read")
  /\ \E outcome \in Outcomes :
       /\ events' = Result(outcome, events, UpdateEvent(events, request[r].id,
                      applyUpdateToEvent(request[r].copy, r, request[r].named)))
       /\ EndWriting(r, outcome, "ok")
  /\ UNCHANGED <<tasks, blobs>>

deleteEvent(r) ==
  /\ At(r, "deleteEvent", "read")
  /\ \E outcome \in Outcomes :
       /\ events' = Result(outcome, events, DeleteEvent(events, request[r].id))
       /\ EndWriting(r, outcome, "ok")
  /\ UNCHANGED <<tasks, blobs>>

\* The one handler of events that reads nothing before it writes.
deactivateRecurringEvent(r) ==
  /\ At(r, "deactivate", "begun")
  /\ \E outcome \in Outcomes :
       /\ events' = Result(outcome, events, DeactivateRecurringEvent(events, request[r].id))
       /\ EndWriting(r, outcome, "ok")
  /\ UNCHANGED <<tasks, blobs>>

-----------------------------------------------------------------------------
(* The import of one event of a calendar file *)

\* vEventToEvent reads no RRULE: what is imported does not recur.
Imported(r) == NewEvent(request[r].user, r, r, FALSE, r)

\* The insert of CreateEventAdapter: a conflict of ids is resolved, any other
\* error is listed in the answer to the import.
CreateEventAdapter(r) ==
  /\ At(r, "import", "begun")
  /\ IF IsUniqueViolation(events, request[r].id)
     THEN Goto(r, "conflict") /\ UNCHANGED <<events, faults>>
     ELSE \E outcome \in Outcomes :
            /\ events' = Result(outcome, events, CreateEvent(events, request[r].id, Imported(r)))
            /\ EndWriting(r, outcome, "ok")
  /\ UNCHANGED <<tasks, blobs>>

\* Mutants: whoever owns the row, it is updated; or left, under a fresh id.
ResolveByUpdate(r) ==
  /\ At(r, "import", "conflict")
  /\ request' = [request EXCEPT ![r].copy = GetEventByID(events, request[r].id), ![r].stage = "own"]
  /\ UNCHANGED <<events, tasks, blobs, faults>>
ResolveByRenaming(r) ==
  /\ At(r, "import", "conflict")
  /\ Goto(r, "renamed")
  /\ UNCHANGED <<events, tasks, blobs, faults>>

\* The row that is in the way is read: a row of another user is left alone and
\* the event gets a fresh id, a row of the importing user is updated.
resolveDuplicateEvent(r) ==
  /\ At(r, "import", "conflict")
  /\ LET existing == GetEventByID(events, request[r].id) IN
     IF existing = NoRow
     THEN End(r, "error")
     ELSE IF existing.user # request[r].user
     THEN Goto(r, "renamed")
     ELSE request' = [request EXCEPT ![r].copy = existing, ![r].stage = "own", ![r].saw = Ended]
  /\ UNCHANGED <<events, tasks, blobs, faults>>

ImportRenamed(r) ==
  /\ At(r, "import", "renamed")
  /\ \E outcome \in Outcomes :
       /\ events' = Result(outcome, events, CreateEvent(events, r, Imported(r)))
       /\ EndWriting(r, outcome, "ok")
  /\ UNCHANGED <<tasks, blobs>>

ImportOverOwn(r) ==
  /\ At(r, "import", "own")
  /\ \E outcome \in Outcomes :
       /\ events' = Result(outcome, events, UpdateEvent(events, request[r].id, Imported(r)))
       /\ EndWriting(r, outcome, "ok")
  /\ UNCHANGED <<tasks, blobs>>

\* What exportCalendar writes into a file: the events of everybody are read, and
\* the user's are picked out.
exportCalendar(user) == {id \in ListEvents(events, {}) : events[id].user = user}

-----------------------------------------------------------------------------
(* The images of an event *)

listEventImages(user, id) ==
  IF getEvent(user, id) = NoRow THEN {} ELSE GetEventImageURLs(events, id)
serveEventImage(image) == image \in blobs

uploadEventImage(r) ==
  /\ At(r, "upload", "begun")
  /\ Read(r, events[request[r].id])

\* An error of MongoDB ends the request, and leaves the image behind if only
\* the reply was lost.
SaveEventImage(r) ==
  /\ At(r, "upload", "read")
  /\ \E outcome \in Outcomes :
       /\ blobs' = Result(outcome, blobs, blobs \cup {r})
       /\ IF outcome = "done" THEN Goto(r, "saved") ELSE End(r, "error")
       /\ Spend(outcome)
  /\ UNCHANGED <<events, tasks>>

\* The URL is recorded; when no row was updated, or the statement failed, the
\* image is to be removed.  A failure may be that of the request's deadline.
AddImageURL(r) ==
  /\ At(r, "upload", "saved")
  /\ \E outcome \in Outcomes, late \in BOOLEAN :
       /\ outcome = "done" => ~late
       /\ events' = Result(outcome, events, AddEventImageURLIfCapacity(events, request[r].id, r))
       /\ request' = [request EXCEPT
            ![r].stage = IF outcome = "done" /\ HasCapacity(events, request[r].id)
                         THEN "ended" ELSE "cleanup",
            ![r].answer = IF outcome # "done" THEN "error"
                          ELSE IF HasCapacity(events, request[r].id) THEN "ok" ELSE "full",
            ![r].wrote = outcome # "refused" /\ HasCapacity(events, request[r].id),
            ![r].late = late]
       /\ Spend(outcome)
  /\ UNCHANGED <<tasks, blobs>>

\* Mutant: the image is left behind.
CleanUpForgotten(r) ==
  /\ At(r, "upload", "cleanup")
  /\ Goto(r, "ended")
  /\ UNCHANGED <<events, tasks, blobs, faults>>

\* DeleteEventImage is called under the same deadline as what failed before
\* it; its own failure is logged and changes nothing in the answer.
CleanUp(r) ==
  /\ At(r, "upload", "cleanup")
  /\ \/ /\ ~request[r].late
        /\ \E outcome \in Outcomes : /\ blobs' = Result(outcome, blobs, blobs \ {r})
                                     /\ Spend(outcome)
     \/ request[r].late /\ UNCHANGED <<blobs, faults>>
  /\ Goto(r, "ended")
  /\ UNCHANGED <<events, tasks>>

-----------------------------------------------------------------------------
(* Tasks *)

createTask(r) ==
  /\ At(r, "createTask", "begun")
  /\ \E outcome \in Outcomes :
       /\ tasks' = Result(outcome, tasks, CreateTask(tasks, r, NewTask(request[r].user, r, r)))
       /\ EndWriting(r, outcome, "ok")
  /\ UNCHANGED <<events, blobs>>

listTasks(user, completed) == ListTasks(tasks, user, completed)
getTask(user, id) ==
  LET task == GetTaskByID(tasks, id) IN
  IF task # NoRow /\ task.user = user THEN task ELSE NoRow

VerifyTaskOwner(r) ==
  /\ At(r, "updateTask", "begun") \/ At(r, "deleteTask", "begun")
  /\ Read(r, GetTaskByID(tasks, request[r].id))

\* A request that says nothing of completed says that it is not.
applyUpdateToTask(task, r, named) ==
  [task EXCEPT !.title = IF "title" \in named THEN r ELSE @,
               !.completed = "completed" \in named]

updateTask(r) ==
  /\ At(r, "updateTask", "read")
  /\ \E outcome \in Outcomes :
       /\ tasks' = Result(outcome, tasks, UpdateTask(tasks, request[r].id,
                     applyUpdateToTask(request[r].copy, r, request[r].named)))
       /\ EndWriting(r, outcome, "ok")
  /\ UNCHANGED <<events, blobs>>

deleteTask(r) ==
  /\ At(r, "deleteTask", "read")
  /\ \E outcome \in Outcomes :
       /\ tasks' = Result(outcome, tasks, DeleteTask(tasks, request[r].id))
       /\ EndWriting(r, outcome, "ok")
  /\ UNCHANGED <<events, blobs>>

-----------------------------------------------------------------------------

\* The process stops: the requests it was serving get no answer.
Crash ==
  /\ Running # {} /\ faults < MaxFaults
  /\ request' = [r \in Requests |-> IF r \in Running
                   THEN [request[r] EXCEPT !.stage = "ended", !.answer = "none"] ELSE request[r]]
  /\ faults' = faults + 1
  /\ UNCHANGED <<events, tasks, blobs>>

Arrivals(r) ==
  \E user \in Users :
    \/ ArriveCreate(r, user) \/ ArriveImport(r, user)
    \/ \E id \in Uids : ArriveForEvent(r, user, id)
    \/ \E id \in Tasks : ArriveForTask(r, user, id)

Handle(r) ==
  \/ createEvent(r) \/ VerifyEventOwner(r) \/ updateEvent(r) \/ deleteEvent(r)
  \/ deactivateRecurringEvent(r)
  \/ CreateEventAdapter(r) \/ resolveDuplicateEvent(r) \/ ImportRenamed(r) \/ ImportOverOwn(r)
  \/ uploadEventImage(r) \/ SaveEventImage(r) \/ AddImageURL(r) \/ CleanUp(r)
  \/ createTask(r) \/ VerifyTaskOwner(r) \/ updateTask(r) \/ deleteTask(r)

Next == Crash \/ \E r \in Requests : Arrivals(r) \/ Handle(r)

Spec == Init /\ [][Next]_vars

-----------------------------------------------------------------------------
(* Properties *)

Stages  == {"idle", "begun", "read", "conflict", "renamed", "own", "saved", "cleanup", "ended"}
Answers == {"none", "ok", "not found", "full", "error"}
Request == [op : EventOps \cup TaskOps \cup {"none"}, user : Users,
            id : Ids \cup TaskIds \cup {Nobody},
            named : SUBSET {"title", "place", "recurring", "completed"}, stage : Stages,
            copy : EventRow \cup TaskRow \cup {NoRow}, answer : Answers,
            wrote : BOOLEAN, late : BOOLEAN, saw : SUBSET Requests]

TypeOK ==
  /\ events \in [Ids -> EventRow \cup {NoRow}]
  /\ tasks \in [TaskIds -> TaskRow \cup {NoRow}]
  /\ blobs \subseteq Requests
  /\ request \in [Requests -> Request]
  /\ faults \in 0 .. MaxFaults

Answered(r, op) == request[r].op = op /\ request[r].stage = "ended" /\ request[r].answer = "ok"

\* The row r has read is still there: not deleted, nor deleted and imported anew.
StillThere(r, table) ==
  table[request[r].id] # NoRow /\ table[request[r].id].born = request[r].copy.born

\* However many uploads overlap, an event lists no more images than the maximum.
ImageCap ==
  \A id \in Ids : Cardinality(GetEventImageURLs(events, id)) <= MaxImages

\* An upload that was accepted stays accepted: as long as the event exists its
\* list names the image, whatever updates, which write whole rows from stale
\* copies, overlapped with the upload; and the image can be served.
AcceptedImagesStay ==
  \A r \in Requests : Answered(r, "upload") /\ StillThere(r, events) =>
    r \in listEventImages(request[r].user, request[r].id) /\ serveEventImage(r)

\* The two databases agree on the images.  A URL whose image was removed comes
\* only of a statement whose reply was lost; an image that no event lists, when
\* its upload is over, comes only of a fault or of the deletion of its event.
ImagesAgree ==
  \A r \in Requests : request[r].op = "upload" =>
    LET listed == \E id \in Ids : r \in GetEventImageURLs(events, id) IN
    /\ listed => r \in blobs \/ (request[r].wrote /\ request[r].answer = "error")
    /\ request[r].stage = "ended" /\ r \in blobs /\ ~listed =>
         faults > 0 \/ (request[r].answer = "ok" /\ ~StillThere(r, events))

\* PostgreSQL and MongoDB together keep the promises of ImageStore, although every
\* update of an event writes a whole row and no upload uses a transaction.
Open     == {id \in Ids : events[id] # NoRow}
Albums   == [id \in Ids |-> GetEventImageURLs(events, id)]
Accepted == {r \in Requests : Answered(r, "upload")}
Store    == INSTANCE ImageStore
  WITH Events <- Ids, Images <- Requests, open <- Open, album <- Albums,
       stored <- blobs, accepted <- Accepted
ImplementsImageStore == Store!Spec

\* A row changes or disappears only by a request of its own user.  The handlers
\* verify the owner before, not while, they write: between the two the row can
\* be deleted and its id taken by an import of another user, and that is the
\* one way in which a verified request reaches another user's event.
\* (deactivateRecurringEvent verifies nothing.)
OwnersRowsOnly ==
  [][/\ \A id \in Ids : events[id] # NoRow /\ events'[id] # events[id] =>
          \E r \in Requests : /\ request'[r] # request[r]
                              /\ \/ request[r].user = events[id].user
                                 \/ request[r].op = "deactivate"
                                 \/ request[r].copy # NoRow /\ request[r].copy.born # events[id].born
     /\ \A id \in TaskIds : tasks[id] # NoRow /\ tasks'[id] # tasks[id] =>
          \E r \in Requests : request'[r] # request[r] /\ request[r].user = tasks[id].user]_vars

\* Once its deletion is answered an event or task is gone, although a request
\* that read it before may still write it: only an import brings its id back,
\* as another row.
DeletedForGood ==
  \A r \in Requests : /\ Answered(r, "deleteEvent") => ~StillThere(r, events)
                      /\ Answered(r, "deleteTask") =>
                           request[r].id \notin listTasks(request[r].user, BOOLEAN)

\* A series that was ended stays ended: an update that read it while it recurred
\* and writes afterwards does not bring it back; only an update that switches
\* the recurrence on does.
EndedSeriesStaysEnded ==
  \A r \in Requests, user \in Users :
    Answered(r, "deactivate") /\ request[r].id \in listRecurringEvents(user) =>
      \E w \in Requests : /\ request[w].op = "updateEvent" /\ request[w].id = request[r].id
                          /\ request[w].wrote /\ "recurring" \in request[w].named

\* Nothing that a user was told is over is brought back by a stale copy of it.
NothingComesBack == DeletedForGood /\ EndedSeriesStaysEnded

\* Whether somebody's row of the events of a calendar came in under the id uid.
HeldByAnother(uid, user) ==
  \/ uid \in Initial /\ Owner # user
  \/ \E r \in Requests : request[r].op = "import" /\ request[r].id = uid /\ request[r].user # user

\* The events a user would export that stem from a UID.
Copies(uid, user) ==
  {id \in exportCalendar(user) :
     \/ id = uid
     \/ id \in Requests /\ request[id].op = "import" /\ request[id].id = uid}

\* A calendar that is imported again, even twice at the same time, adds nothing,
\* provided no other user's calendar holds an event of the same UID.
ReimportAddsNothing ==
  \A uid \in Uids, user \in Users :
    Cardinality(Copies(uid, user)) > 1 => HeldByAnother(uid, user)

\* The requests that wrote a row and name a field, or wrote it from a copy
\* they had read before r was over.
Overwriters(r, field) ==
  {w \in Requests \ {r} : /\ request[w].id = request[r].id
                          /\ request[w].wrote
                          /\ field \in request[w].named \/ r \notin request[w].saw}

\* An update that was answered is lost only to a request that changes the same
\* field or that overlapped with it; edits of different fields one after the
\* other all stay.
LostOnlyByOverlap ==
  \A r \in Requests :
    /\ \A field \in request[r].named \cap {"title", "place"} :
         Answered(r, "updateEvent") /\ StillThere(r, events)
           => \/ getEvent(request[r].user, request[r].id)[field] = r
              \/ Overwriters(r, field) # {}
    /\ Answered(r, "updateTask") /\ "title" \in request[r].named /\ StillThere(r, tasks)
         => \/ getTask(request[r].user, request[r].id).title = r
            \/ Overwriters(r, "title") # {}

\* "applyUpdateToEvent applies non-empty fields from req to the provided event":
\* an update that says nothing of the recurrence leaves it as it is.
UpdateKeepsRecurrence ==
  [][\A r \in Requests :
       updateEvent(r) /\ "recurring" \notin request[r].named /\ StillThere(r, events) =>
         events'[request[r].id].recurring = events[request[r].id].recurring]_vars

\* The id made from a UID is deterministic "to maintain idempotency": a calendar
\* imported again adds nothing.
ImportIsIdempotent ==
  \A uid \in Uids, user \in Users : Cardinality(Copies(uid, user)) <= 1

=============================================================================
