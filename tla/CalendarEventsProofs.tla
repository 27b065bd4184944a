------------------------- MODULE CalendarEventsProofs -------------------------
(***************************************************************************)
(* Proofs about CalendarEvents, for any requests, users, events, tasks,    *)
(* number of images and faults.                                            *)
(***************************************************************************)
EXTENDS CalendarEvents, FiniteSetTheorems, TLAPS

-----------------------------------------------------------------------------
(* What a step makes of the requests.                                      *)

Others(r) == \A q \in Requests \ {r} : request'[q] = request[q]

\* A handler's step: what the client sent stays.
Moves(r) ==
  /\ request' \in [Requests -> Request] /\ Others(r)
  /\ request'[r].op = request[r].op /\ request'[r].user = request[r].user
  /\ request'[r].id = request[r].id /\ request'[r].named = request[r].named
  /\ request'[r].stage \notin {"idle", "begun"}

\* What the handler has read stays too.
Keeps(r) == request'[r].copy = request[r].copy /\ request'[r].saw = request[r].saw

LEMMA Going ==
    ASSUME TypeOK, NEW r \in Requests, NEW stage \in Stages \ {"idle", "begun"}, Goto(r, stage)
    PROVE  /\ Moves(r) /\ Keeps(r)
           /\ request'[r].stage = stage /\ request'[r].answer = request[r].answer
           /\ request'[r].wrote = request[r].wrote /\ request'[r].late = request[r].late
<1>1. request \in [Requests -> Request] /\ request[r] \in Request
  BY DEF TypeOK
<1> QED BY <1>1 DEF Goto, Moves, Others, Keeps, Request

LEMMA Ending ==
    ASSUME TypeOK, NEW r \in Requests, NEW answer \in Answers, End(r, answer)
    PROVE  /\ Moves(r) /\ Keeps(r)
           /\ request'[r].stage = "ended" /\ request'[r].answer = answer
           /\ request'[r].wrote = request[r].wrote /\ request'[r].late = request[r].late
<1>1. request \in [Requests -> Request] /\ request[r] \in Request
  BY DEF TypeOK
<1> QED BY <1>1 DEF End, Moves, Others, Keeps, Request, Stages

\* The last statement of a handler: the client is told "ok" only if it was done.
LEMMA EndingWriting ==
    ASSUME TypeOK, NEW r \in Requests, NEW outcome \in Outcomes, EndWriting(r, outcome, "ok")
    PROVE  /\ Moves(r) /\ Keeps(r) /\ request'[r].stage = "ended"
           /\ request'[r].wrote = (outcome # "refused")
           /\ request'[r].answer = IF outcome = "done" THEN "ok" ELSE "error"
           /\ request'[r].late = request[r].late
<1> DEFINE answer == IF outcome = "done" THEN "ok" ELSE "error"
<1> DEFINE wrote == (outcome # "refused")
<1>1. request \in [Requests -> Request] /\ request[r] \in Request
  BY DEF TypeOK
<1>2. request' = [request EXCEPT ![r].stage = "ended", ![r].wrote = wrote, ![r].answer = answer]
  BY DEF EndWriting
<1>3. answer \in Answers /\ wrote \in BOOLEAN /\ "ended" \in Stages
  BY DEF Answers, Stages
<1> HIDE DEF answer, wrote
<1>4. /\ Moves(r) /\ Keeps(r) /\ request'[r].stage = "ended"
      /\ request'[r].wrote = wrote /\ request'[r].answer = answer
      /\ request'[r].late = request[r].late
  BY <1>1, <1>2, <1>3 DEF Moves, Others, Keeps, Request
<1> QED BY <1>4 DEF answer, wrote

LEMMA Reading ==
    ASSUME TypeOK, NEW r \in Requests, NEW row \in EventRow \cup TaskRow \cup {NoRow}, Read(r, row)
    PROVE  /\ Moves(r)
           /\ request'[r].wrote = request[r].wrote /\ request'[r].late = request[r].late
           /\ UNCHANGED <<events, tasks, blobs>>
           /\ \/ Keeps(r) /\ request'[r].stage = "ended" /\ request'[r].answer = "not found"
              \/ /\ request'[r].stage = "read" /\ request'[r].answer = request[r].answer
                 /\ row # NoRow /\ row.user = request[r].user
                 /\ request'[r].copy = row /\ request'[r].saw = Ended
<1>1. request \in [Requests -> Request] /\ request[r] \in Request /\ Ended \in SUBSET Requests
  BY DEF TypeOK, Ended
<1>2. \/ End(r, "not found")
      \/ /\ row # NoRow /\ row.user = request[r].user
         /\ request' = [request EXCEPT ![r].stage = "read", ![r].copy = row, ![r].saw = Ended]
  BY DEF Read
<1>3. UNCHANGED <<events, tasks, blobs>>
  BY DEF Read
<1>4. ASSUME request' = [request EXCEPT ![r].stage = "read", ![r].copy = row, ![r].saw = Ended]
      PROVE  /\ Moves(r)
             /\ request'[r].wrote = request[r].wrote /\ request'[r].late = request[r].late
             /\ request'[r].stage = "read" /\ request'[r].answer = request[r].answer
             /\ request'[r].copy = row /\ request'[r].saw = Ended
  <2> HIDE DEF Ended
  <2> QED BY <1>1, <1>4 DEF Moves, Others, Request, Stages
<1> QED BY <1>2, <1>3, <1>4, Ending DEF Answers

LEMMA RowsRead ==
    ASSUME TypeOK
    PROVE  /\ \A id \in Ids : /\ events[id] \in EventRow \cup {NoRow}
                              /\ GetEventByID(events, id) \in EventRow \cup {NoRow}
                              /\ GetEventByID(events, id) = NoRow <=> events[id] = NoRow
                              /\ events[id] # NoRow =>
                                   /\ GetEventByID(events, id).user = events[id].user
                                   /\ GetEventByID(events, id).title = events[id].title
                                   /\ GetEventByID(events, id).place = events[id].place
                                   /\ GetEventByID(events, id).born = events[id].born
                                   /\ ~GetEventByID(events, id).recurring
           /\ \A id \in TaskIds : GetTaskByID(tasks, id) \in TaskRow \cup {NoRow}
<1>1. \A id \in Ids : events[id] \in EventRow \cup {NoRow}
  BY DEF TypeOK
<1>2. ASSUME NEW id \in Ids, events[id] # NoRow
      PROVE  /\ GetEventByID(events, id) \in EventRow
             /\ GetEventByID(events, id).user = events[id].user
             /\ GetEventByID(events, id).title = events[id].title
             /\ GetEventByID(events, id).place = events[id].place
             /\ GetEventByID(events, id).born = events[id].born
             /\ ~GetEventByID(events, id).recurring
  <2>1. events[id] \in EventRow
    BY <1>1, <1>2
  <2>2. GetEventByID(events, id) = [events[id] EXCEPT !.recurring = FALSE]
    BY <1>2 DEF GetEventByID, SelectEvent
  <2> QED BY <2>1, <2>2 DEF EventRow
<1>3. ASSUME NEW id \in Ids, events[id] = NoRow PROVE GetEventByID(events, id) = NoRow
  BY <1>3 DEF GetEventByID, SelectEvent
<1>4. \A id \in TaskIds : GetTaskByID(tasks, id) \in TaskRow \cup {NoRow}
  BY DEF TypeOK, GetTaskByID
<1> QED BY <1>1, <1>2, <1>3, <1>4, RowAssumption

-----------------------------------------------------------------------------
(* The stages of the handlers.                                             *)

EventWriters == {"updateEvent", "deleteEvent", "upload"}
TaskWriters  == {"updateTask", "deleteTask"}

StageInv == \A r \in Requests :
  /\ request[r].op = "none" <=> request[r].stage = "idle"
  /\ request[r].op \in {"createEvent", "createTask"} =>
       request[r].stage \in {"begun", "ended"} /\ request[r].id = r
  /\ request[r].op \in {"updateEvent", "deleteEvent"} =>
       request[r].stage \in {"begun", "read", "ended"} /\ request[r].id \in Uids
  /\ request[r].op = "deactivate" =>
       request[r].stage \in {"begun", "ended"} /\ request[r].id \in Uids
  /\ request[r].op = "import" =>
       /\ request[r].stage \in {"begun", "conflict", "renamed", "own", "ended"}
       /\ request[r].id \in Uids \cup {r} /\ request[r].named = {"title", "place"}
  /\ request[r].op = "upload" =>
       request[r].stage \in {"begun", "read", "saved", "cleanup", "ended"} /\ request[r].id \in Uids
  /\ request[r].op \in TaskWriters =>
       request[r].stage \in {"begun", "read", "ended"} /\ request[r].id \in Tasks
  /\ request[r].stage \notin {"cleanup", "ended"} => request[r].answer = "none" /\ ~request[r].wrote
  /\ request[r].stage = "cleanup" => request[r].answer \in {"error", "full"}

\* What a handler that verified its owner holds.
CopyTypes == \A r \in Requests :
  /\ request[r].stage \in {"read", "saved", "cleanup", "own"} => request[r].copy # NoRow
  /\ request[r].op \in EventWriters \cup TaskWriters
       /\ (request[r].wrote \/ request[r].answer = "ok") => request[r].copy # NoRow
  /\ request[r].copy # NoRow =>
       /\ request[r].op \in EventWriters \cup TaskWriters \cup {"import"}
       /\ request[r].copy.user = request[r].user
       /\ request[r].copy \in IF request[r].op \in TaskWriters THEN TaskRow ELSE EventRow
       /\ request[r].op = "updateEvent" => ~request[r].copy.recurring

\* A fresh id has a row only when its request is over.
OwnRowInv == \A r \in Requests : events[r] # NoRow \/ tasks[r] # NoRow => request[r].stage = "ended"

Base == TypeOK /\ StageInv /\ CopyTypes /\ OwnRowInv

LEMMA IdTypes ==
    ASSUME Base, NEW r \in Requests, request[r].op # "none"
    PROVE  /\ request[r].op \in EventOps => request[r].id \in Ids
           /\ request[r].op \in TaskOps => request[r].id \in TaskIds
           /\ request[r].op \in EventOps \cup TaskOps
<1>1. request[r] \in Request
  BY DEF Base, TypeOK
<1> QED BY <1>1 DEF Base, StageInv, EventOps, TaskOps, TaskWriters, Ids, TaskIds, Request

-----------------------------------------------------------------------------
(* Arrivals, crashes, and the handlers by what they do to their request.   *)

\* A request that has just come.
Fresh(r, req) ==
  /\ req.stage = "begun" /\ req.answer = "none" /\ ~req.wrote /\ ~req.late
  /\ req.copy = NoRow /\ req.saw = Ended
  /\ \/ req.op \in {"createEvent", "createTask"} /\ req.id = r
     \/ req.op = "import" /\ req.id \in Uids \cup {r} /\ req.named = {"title", "place"}
     \/ req.op \in EventWriters \cup {"deactivate"} /\ req.id \in Uids
     \/ req.op \in TaskWriters /\ req.id \in Tasks

LEMMA ArriveEffect ==
    ASSUME TypeOK, NEW r \in Requests, Arrivals(r)
    PROVE  /\ request' \in [Requests -> Request] /\ Others(r) /\ request[r].stage = "idle"
           /\ Fresh(r, request'[r])
           /\ UNCHANGED <<events, tasks, blobs, faults>>
<1>0. request \in [Requests -> Request] /\ Ended \in SUBSET Requests
  BY DEF TypeOK, Ended
<1> DEFINE Fits(op, id, named) ==
      \/ op \in {"createEvent", "createTask"} /\ id = r
      \/ op = "import" /\ id \in Uids \cup {r} /\ named = {"title", "place"}
      \/ op \in EventWriters \cup {"deactivate"} /\ id \in Uids
      \/ op \in TaskWriters /\ id \in Tasks
<1>1. \E op \in EventOps \cup TaskOps, user \in Users, id \in Ids \cup TaskIds,
         named \in SUBSET {"title", "place", "recurring", "completed"} :
        Arrive(r, op, user, id, named) /\ Fits(op, id, named)
  <2>1. PICK user \in Users :
          \/ ArriveCreate(r, user) \/ ArriveImport(r, user)
          \/ \E id \in Uids : ArriveForEvent(r, user, id)
          \/ \E id \in Tasks : ArriveForTask(r, user, id)
    BY DEF Arrivals
  <2>2. r \in Ids /\ r \in TaskIds /\ Uids \subseteq Ids /\ Tasks \subseteq TaskIds
    BY DEF Ids, TaskIds
  <2>3. CASE ArriveCreate(r, user)
    <3>1. \E op \in {"createEvent", "createTask"},
             named \in SUBSET {"title", "place", "recurring", "completed"} :
            Arrive(r, op, user, r, named)
      BY <2>3 DEF ArriveCreate
    <3>2. \A op \in {"createEvent", "createTask"} : \A named :
            op \in EventOps \cup TaskOps /\ Fits(op, r, named)
      BY DEF EventOps, TaskOps
    <3> HIDE DEF Fits
    <3> QED BY <2>1, <2>2, <3>1, <3>2
  <2>4. CASE ArriveImport(r, user)
    <3>1. \E id \in Uids \cup {r} : Arrive(r, "import", user, id, {"title", "place"})
      BY <2>4 DEF ArriveImport, ParseICS, ParseCSV
    <3>2. \A id \in Uids \cup {r} : Fits("import", id, {"title", "place"})
      OBVIOUS
    <3>3. /\ "import" \in EventOps \cup TaskOps
          /\ {"title", "place"} \in SUBSET {"title", "place", "recurring", "completed"}
      BY DEF EventOps
    <3> HIDE DEF Fits
    <3> QED BY <2>1, <2>2, <3>1, <3>2, <3>3
  <2>5. ASSUME NEW id \in Uids, ArriveForEvent(r, user, id)
        PROVE  \E op \in EventWriters \cup {"deactivate"},
                  named \in SUBSET {"title", "place", "recurring", "completed"} :
                 Arrive(r, op, user, id, named)
    BY <2>5 DEF ArriveForEvent, EventMentions, EventWriters
  <2>6. ASSUME NEW id \in Tasks, ArriveForTask(r, user, id)
        PROVE  \E op \in TaskWriters,
                  named \in SUBSET {"title", "place", "recurring", "completed"} :
                 Arrive(r, op, user, id, named)
    BY <2>6 DEF ArriveForTask, TaskMentions, TaskWriters
  <2>7. \A op \in EventWriters \cup {"deactivate"}, id \in Uids : \A named :
          op \in EventOps \cup TaskOps /\ Fits(op, id, named)
    BY DEF EventWriters, EventOps
  <2>8. \A op \in TaskWriters, id \in Tasks : \A named :
          op \in EventOps \cup TaskOps /\ Fits(op, id, named)
    BY DEF TaskWriters, TaskOps
  <2>9. CASE \E id \in Uids : ArriveForEvent(r, user, id)
    <3> HIDE DEF Fits
    <3> QED BY <2>2, <2>5, <2>7, <2>9
  <2>10. CASE \E id \in Tasks : ArriveForTask(r, user, id)
    <3> HIDE DEF Fits
    <3> QED BY <2>2, <2>6, <2>8, <2>10
  <2> QED BY <2>1, <2>3, <2>4, <2>9, <2>10
<1>2. PICK op \in EventOps \cup TaskOps, user \in Users, id \in Ids \cup TaskIds,
           named \in SUBSET {"title", "place", "recurring", "completed"} :
        Arrive(r, op, user, id, named) /\ Fits(op, id, named)
  <2> HIDE DEF Fits
  <2> QED BY <1>1
<1> DEFINE new == [Idle EXCEPT !.op = op, !.user = user, !.id = id, !.named = named,
                               !.stage = "begun", !.saw = Ended]
<1>3. request' = [request EXCEPT ![r] = new]
  BY <1>2 DEF Arrive
<1>4. new \in Request /\ Fresh(r, new)
  <2> HIDE DEF Ended
  <2>1. Idle \in Request /\ Idle.answer = "none" /\ ~Idle.wrote /\ ~Idle.late /\ Idle.copy = NoRow
    BY SetsAssumption DEF Idle, Request, Stages, Answers
  <2> HIDE DEF Idle
  <2>2. new \in Request
    BY <1>0, <2>1 DEF Request, Stages
  <2>3. /\ new.op = op /\ new.id = id /\ new.named = named /\ new.stage = "begun" /\ new.saw = Ended
        /\ new.answer = "none" /\ ~new.wrote /\ ~new.late /\ new.copy = NoRow
    BY <2>1 DEF Request
  <2> HIDE DEF new
  <2> QED BY <1>2, <2>2, <2>3 DEF Fresh
<1> HIDE DEF new
<1>5. request'[r] = new /\ Others(r) /\ request' \in [Requests -> Request]
  BY <1>0, <1>3, <1>4 DEF Others
<1> QED BY <1>2, <1>4, <1>5 DEF Arrive

\* A crash ends what was running.
Crashed(q) ==
  /\ request[q].stage \notin {"idle", "ended"}
  /\ request'[q].stage = "ended" /\ request'[q].answer = "none"
  /\ request'[q].op = request[q].op /\ request'[q].user = request[q].user
  /\ request'[q].id = request[q].id /\ request'[q].named = request[q].named
  /\ request'[q].wrote = request[q].wrote /\ request'[q].late = request[q].late
  /\ Keeps(q)

LEMMA CrashEffect ==
    ASSUME TypeOK, Crash
    PROVE  /\ request' \in [Requests -> Request]
           /\ \A q \in Requests : request'[q] = request[q] \/ Crashed(q)
<1>0. request \in [Requests -> Request]
  BY DEF TypeOK
<1>1. \A q \in Requests : request'[q] = IF q \in Running
        THEN [request[q] EXCEPT !.stage = "ended", !.answer = "none"] ELSE request[q]
  BY DEF Crash
<1>2. ASSUME NEW q \in Requests
      PROVE  /\ request'[q] \in Request
             /\ request'[q] = request[q] \/ Crashed(q)
  <2>0. request[q] \in Request
    BY <1>0
  <2>1. CASE q \in Running
    <3>1. request'[q] = [request[q] EXCEPT !.stage = "ended", !.answer = "none"]
      BY <1>1, <2>1
    <3> QED BY <2>0, <2>1, <3>1 DEF Request, Stages, Answers, Crashed, Keeps, Running
  <2> QED BY <1>1, <2>0, <2>1
<1>3. request' = [q \in Requests |-> request'[q]]
  BY DEF Crash
<1> QED BY <1>2, <1>3

\* A handler that verifies the owner.
Verifies(r) ==
  /\ request[r].stage = "begun" /\ Moves(r)
  /\ request'[r].wrote = request[r].wrote /\ request'[r].late = request[r].late
  /\ UNCHANGED <<events, tasks, blobs>>
  /\ \/ Keeps(r) /\ request'[r].stage = "ended" /\ request'[r].answer = "not found"
     \/ /\ request'[r].stage = "read" /\ request'[r].answer = request[r].answer
        /\ request'[r].copy # NoRow /\ request'[r].copy.user = request[r].user
        /\ request'[r].saw = Ended
        /\ request[r].op \in {"updateEvent", "deleteEvent"} =>
             request'[r].copy = GetEventByID(events, request[r].id)
        /\ request[r].op = "upload" => request'[r].copy = events[request[r].id]
        /\ request[r].op \in TaskWriters => request'[r].copy = tasks[request[r].id]

\* A handler that ends with a statement on a table.
Writes(r, table, tablex, after) ==
  /\ Moves(r) /\ Keeps(r)
  /\ request'[r].stage = "ended" /\ request'[r].answer \in {"ok", "error"}
  /\ request'[r].answer = "ok" => request'[r].wrote
  /\ request'[r].late = request[r].late
  /\ tablex = IF request'[r].wrote THEN after ELSE table
  /\ ~request'[r].wrote => faults' > faults
  /\ request'[r].answer = "error" => faults' > faults

LEMMA VerifyEffect ==
    ASSUME Base, NEW r \in Requests, VerifyEventOwner(r) \/ uploadEventImage(r) \/ VerifyTaskOwner(r)
    PROVE  Verifies(r) /\ request[r].op \in EventWriters \cup TaskWriters
<1>0. TypeOK
  BY DEF Base
<1>1. CASE VerifyEventOwner(r)
  <2>1. request[r].op \in {"updateEvent", "deleteEvent"} /\ request[r].stage = "begun"
    BY <1>1 DEF VerifyEventOwner, At
  <2>2. request[r].id \in Ids
    BY <2>1, IdTypes DEF EventOps
  <2>3. Read(r, GetEventByID(events, request[r].id))
        /\ GetEventByID(events, request[r].id) \in EventRow \cup TaskRow \cup {NoRow}
    BY <1>0, <1>1, <2>2, RowsRead DEF VerifyEventOwner
  <2> QED BY <1>0, <2>1, <2>3, Reading DEF Verifies, EventWriters, TaskWriters
<1>2. CASE uploadEventImage(r)
  <2>1. request[r].op = "upload" /\ request[r].stage = "begun"
    BY <1>2 DEF uploadEventImage, At
  <2>2. request[r].id \in Ids
    BY <2>1, IdTypes DEF EventOps
  <2>3. Read(r, events[request[r].id])
        /\ events[request[r].id] \in EventRow \cup TaskRow \cup {NoRow}
    BY <1>0, <1>2, <2>2, RowsRead DEF uploadEventImage
  <2> QED BY <1>0, <2>1, <2>3, Reading DEF Verifies, EventWriters, TaskWriters
<1>3. CASE VerifyTaskOwner(r)
  <2>1. request[r].op \in TaskWriters /\ request[r].stage = "begun"
    BY <1>3 DEF VerifyTaskOwner, At, TaskWriters
  <2>2. request[r].id \in TaskIds
    BY <2>1, IdTypes DEF TaskOps, TaskWriters
  <2>3. Read(r, tasks[request[r].id])
        /\ tasks[request[r].id] \in EventRow \cup TaskRow \cup {NoRow}
    BY <1>0, <1>3, <2>2, RowsRead DEF VerifyTaskOwner, GetTaskByID
  <2> QED BY <1>0, <2>1, <2>3, Reading DEF Verifies, EventWriters, TaskWriters
<1> QED BY <1>1, <1>2, <1>3

LEMMA FaultCount ==
    ASSUME TypeOK, NEW outcome \in Outcomes, Spend(outcome)
    PROVE  /\ faults \in Nat /\ faults' \in Nat /\ faults' >= faults
           /\ outcome # "done" => faults' > faults
<1>1. faults \in Nat
  BY SetsAssumption DEF TypeOK
<1> QED BY <1>1 DEF Spend

LEMMA WritingEffect ==
    ASSUME TypeOK, NEW r \in Requests, NEW outcome \in Outcomes, EndWriting(r, outcome, "ok"),
           NEW before, NEW after, NEW result, result = Result(outcome, before, after)
    PROVE  Writes(r, before, result, after)
<1>1. /\ Moves(r) /\ Keeps(r) /\ request'[r].stage = "ended"
      /\ request'[r].wrote = (outcome # "refused")
      /\ request'[r].answer = IF outcome = "done" THEN "ok" ELSE "error"
      /\ request'[r].late = request[r].late
  BY EndingWriting
<1>2. outcome # "done" => faults' > faults
  BY FaultCount DEF EndWriting
<1> QED BY <1>1, <1>2 DEF Writes, Result

LEMMA EventWriteEffect ==
    ASSUME TypeOK, NEW r \in Requests
    PROVE  /\ createEvent(r) =>
                /\ At(r, "createEvent", "begun") /\ UNCHANGED <<tasks, blobs>>
                /\ Writes(r, events, events', CreateEvent(events, r,
                     NewEvent(request[r].user, r, r, "recurring" \in request[r].named, r)))
           /\ updateEvent(r) =>
                /\ At(r, "updateEvent", "read") /\ UNCHANGED <<tasks, blobs>>
                /\ Writes(r, events, events', UpdateEvent(events, request[r].id,
                     applyUpdateToEvent(request[r].copy, r, request[r].named)))
           /\ deleteEvent(r) =>
                /\ At(r, "deleteEvent", "read") /\ UNCHANGED <<tasks, blobs>>
                /\ Writes(r, events, events', DeleteEvent(events, request[r].id))
           /\ deactivateRecurringEvent(r) =>
                /\ At(r, "deactivate", "begun") /\ UNCHANGED <<tasks, blobs>>
                /\ Writes(r, events, events', DeactivateRecurringEvent(events, request[r].id))
           /\ ImportRenamed(r) =>
                /\ At(r, "import", "renamed") /\ UNCHANGED <<tasks, blobs>>
                /\ Writes(r, events, events', CreateEvent(events, r, Imported(r)))
           /\ ImportOverOwn(r) =>
                /\ At(r, "import", "own") /\ UNCHANGED <<tasks, blobs>>
                /\ Writes(r, events, events', UpdateEvent(events, request[r].id, Imported(r)))
<1>1. ASSUME createEvent(r)
      PROVE  Writes(r, events, events', CreateEvent(events, r,
               NewEvent(request[r].user, r, r, "recurring" \in request[r].named, r)))
  BY <1>1, WritingEffect DEF createEvent
<1>2. ASSUME updateEvent(r)
      PROVE  Writes(r, events, events', UpdateEvent(events, request[r].id,
               applyUpdateToEvent(request[r].copy, r, request[r].named)))
  BY <1>2, WritingEffect DEF updateEvent
<1>3. ASSUME deleteEvent(r) PROVE Writes(r, events, events', DeleteEvent(events, request[r].id))
  BY <1>3, WritingEffect DEF deleteEvent
<1>4. ASSUME deactivateRecurringEvent(r)
      PROVE  Writes(r, events, events', DeactivateRecurringEvent(events, request[r].id))
  BY <1>4, WritingEffect DEF deactivateRecurringEvent
<1>5. ASSUME ImportRenamed(r) PROVE Writes(r, events, events', CreateEvent(events, r, Imported(r)))
  BY <1>5, WritingEffect DEF ImportRenamed
<1>6. ASSUME ImportOverOwn(r)
      PROVE  Writes(r, events, events', UpdateEvent(events, request[r].id, Imported(r)))
  BY <1>6, WritingEffect DEF ImportOverOwn
<1> QED BY <1>1, <1>2, <1>3, <1>4, <1>5, <1>6 DEF createEvent, updateEvent, deleteEvent,
        deactivateRecurringEvent, ImportRenamed, ImportOverOwn

LEMMA TaskWriteEffect ==
    ASSUME TypeOK, NEW r \in Requests
    PROVE  /\ createTask(r) =>
                /\ At(r, "createTask", "begun") /\ UNCHANGED <<events, blobs>>
                /\ Writes(r, tasks, tasks', CreateTask(tasks, r, NewTask(request[r].user, r, r)))
           /\ updateTask(r) =>
                /\ At(r, "updateTask", "read") /\ UNCHANGED <<events, blobs>>
                /\ Writes(r, tasks, tasks', UpdateTask(tasks, request[r].id,
                     applyUpdateToTask(request[r].copy, r, request[r].named)))
           /\ deleteTask(r) =>
                /\ At(r, "deleteTask", "read") /\ UNCHANGED <<events, blobs>>
                /\ Writes(r, tasks, tasks', DeleteTask(tasks, request[r].id))
<1>1. ASSUME createTask(r)
      PROVE  Writes(r, tasks, tasks', CreateTask(tasks, r, NewTask(request[r].user, r, r)))
  BY <1>1, WritingEffect DEF createTask
<1>2. ASSUME updateTask(r)
      PROVE  Writes(r, tasks, tasks', UpdateTask(tasks, request[r].id,
               applyUpdateToTask(request[r].copy, r, request[r].named)))
  BY <1>2, WritingEffect DEF updateTask
<1>3. ASSUME deleteTask(r) PROVE Writes(r, tasks, tasks', DeleteTask(tasks, request[r].id))
  BY <1>3, WritingEffect DEF deleteTask
<1> QED BY <1>1, <1>2, <1>3 DEF createTask, updateTask, deleteTask

\* The rest of the import.
LEMMA AdapterEffect ==
    ASSUME TypeOK, NEW r \in Requests, CreateEventAdapter(r)
    PROVE  /\ At(r, "import", "begun") /\ UNCHANGED <<tasks, blobs>>
           /\ \/ /\ events[request[r].id] # NoRow /\ UNCHANGED <<events, faults>>
                 /\ Moves(r) /\ Keeps(r) /\ request'[r].stage = "conflict"
                 /\ request'[r].answer = request[r].answer /\ request'[r].wrote = request[r].wrote
                 /\ request'[r].late = request[r].late
              \/ /\ events[request[r].id] = NoRow
                 /\ Writes(r, events, events', CreateEvent(events, request[r].id, Imported(r)))
<1>1. CASE IsUniqueViolation(events, request[r].id)
  <2>1. Goto(r, "conflict") /\ UNCHANGED <<events, faults>>
    BY <1>1 DEF CreateEventAdapter
  <2> QED BY <1>1, <2>1, Going DEF CreateEventAdapter, IsUniqueViolation, Stages
<1>2. CASE ~IsUniqueViolation(events, request[r].id)
  <2>1. PICK outcome \in Outcomes :
          /\ events' = Result(outcome, events, CreateEvent(events, request[r].id, Imported(r)))
          /\ EndWriting(r, outcome, "ok")
    BY <1>2 DEF CreateEventAdapter
  <2>2. Writes(r, events, events', CreateEvent(events, request[r].id, Imported(r)))
    BY <2>1, WritingEffect
  <2> QED BY <1>2, <2>2 DEF CreateEventAdapter, IsUniqueViolation
<1> QED BY <1>1, <1>2

LEMMA ResolveEffect ==
    ASSUME Base, NEW r \in Requests, resolveDuplicateEvent(r)
    PROVE  /\ At(r, "import", "conflict") /\ UNCHANGED <<events, tasks, blobs, faults>>
           /\ Moves(r) /\ request'[r].wrote = request[r].wrote /\ request'[r].late = request[r].late
           /\ \/ Keeps(r) /\ request'[r].stage = "ended" /\ request'[r].answer = "error"
              \/ /\ Keeps(r) /\ request'[r].stage = "renamed"
                 /\ request'[r].answer = request[r].answer
                 /\ events[request[r].id] # NoRow
                 /\ events[request[r].id].user # request[r].user
              \/ /\ request'[r].stage = "own" /\ request'[r].answer = request[r].answer
                 /\ request'[r].copy = GetEventByID(events, request[r].id)
                 /\ request'[r].copy \in EventRow /\ request'[r].copy # NoRow
                 /\ request'[r].copy.user = request[r].user
                 /\ request'[r].saw = Ended
<1> DEFINE existing == GetEventByID(events, request[r].id)
<1>0. TypeOK /\ At(r, "import", "conflict")
  BY DEF Base, resolveDuplicateEvent
<1>1. request \in [Requests -> Request] /\ request[r] \in Request /\ Ended \in SUBSET Requests
  BY <1>0 DEF TypeOK, Ended
<1>2. request[r].id \in Ids
  BY <1>0, IdTypes DEF At, EventOps
<1>3. /\ existing \in EventRow \cup {NoRow}
      /\ existing = NoRow <=> events[request[r].id] = NoRow
      /\ existing # NoRow => existing.user = events[request[r].id].user
  BY <1>0, <1>2, RowsRead
<1>4. \/ End(r, "error")
      \/ existing # NoRow /\ existing.user # request[r].user /\ Goto(r, "renamed")
      \/ /\ existing # NoRow /\ existing.user = request[r].user
         /\ request' = [request EXCEPT ![r].copy = existing, ![r].stage = "own", ![r].saw = Ended]
  BY DEF resolveDuplicateEvent
<1>5. UNCHANGED <<events, tasks, blobs, faults>>
  BY DEF resolveDuplicateEvent
<1> HIDE DEF existing
<1>6. CASE End(r, "error")
  BY <1>0, <1>5, <1>6, Ending DEF Answers
<1>7. CASE existing # NoRow /\ existing.user # request[r].user /\ Goto(r, "renamed")
  BY <1>0, <1>3, <1>5, <1>7, Going DEF Stages
<1>8. CASE /\ existing # NoRow /\ existing.user = request[r].user
           /\ request' = [request EXCEPT ![r].copy = existing, ![r].stage = "own", ![r].saw = Ended]
  <2> HIDE DEF Ended
  <2>1. /\ Moves(r) /\ request'[r].wrote = request[r].wrote /\ request'[r].late = request[r].late
        /\ request'[r].stage = "own" /\ request'[r].answer = request[r].answer
        /\ request'[r].copy = existing /\ request'[r].saw = Ended
    BY <1>1, <1>3, <1>8 DEF Moves, Others, Request, Stages
  <2> QED BY <1>0, <1>3, <1>5, <1>8, <2>1 DEF existing
<1> QED BY <1>4, <1>6, <1>7, <1>8

\* The rest of the upload.
LEMMA SaveEffect ==
    ASSUME TypeOK, NEW r \in Requests, SaveEventImage(r)
    PROVE  /\ At(r, "upload", "read") /\ UNCHANGED <<events, tasks>>
           /\ Moves(r) /\ Keeps(r)
           /\ request'[r].wrote = request[r].wrote /\ request'[r].late = request[r].late
           /\ \/ /\ blobs' = blobs \cup {r} /\ request'[r].stage = "saved"
                 /\ request'[r].answer = request[r].answer
              \/ /\ blobs' \in {blobs, blobs \cup {r}} /\ request'[r].stage = "ended"
                 /\ request'[r].answer = "error" /\ faults' > faults
<1>1. PICK outcome \in Outcomes :
        /\ blobs' = Result(outcome, blobs, blobs \cup {r})
        /\ IF outcome = "done" THEN Goto(r, "saved") ELSE End(r, "error")
        /\ Spend(outcome)
  BY DEF SaveEventImage
<1>2. outcome # "done" => faults' > faults
  BY <1>1, FaultCount
<1>3. CASE outcome = "done"
  BY <1>1, <1>3, Going DEF SaveEventImage, Result, Stages
<1>4. CASE outcome # "done"
  BY <1>1, <1>2, <1>4, Ending DEF SaveEventImage, Result, Answers
<1> QED BY <1>3, <1>4

LEMMA AddEffect ==
    ASSUME TypeOK, NEW r \in Requests, AddImageURL(r)
    PROVE  /\ At(r, "upload", "saved") /\ UNCHANGED <<tasks, blobs>>
           /\ Moves(r) /\ Keeps(r)
           /\ request'[r].wrote => HasCapacity(events, request[r].id)
           /\ events' = IF request'[r].wrote
                        THEN AddEventImageURLIfCapacity(events, request[r].id, r) ELSE events
           /\ \/ request'[r].stage = "ended" /\ request'[r].answer = "ok" /\ request'[r].wrote
              \/ /\ request'[r].stage = "cleanup" /\ request'[r].answer = "full"
                 /\ ~request'[r].wrote /\ ~request'[r].late
              \/ /\ request'[r].stage = "cleanup" /\ request'[r].answer = "error"
                 /\ faults' > faults
<1> DEFINE room == HasCapacity(events, request[r].id)
<1>1. PICK outcome \in Outcomes, late \in BOOLEAN :
        /\ outcome = "done" => ~late
        /\ events' = Result(outcome, events, AddEventImageURLIfCapacity(events, request[r].id, r))
        /\ request' = [request EXCEPT
            ![r].stage = IF outcome = "done" /\ room THEN "ended" ELSE "cleanup",
            ![r].answer = IF outcome # "done" THEN "error" ELSE IF room THEN "ok" ELSE "full",
            ![r].wrote = outcome # "refused" /\ room,
            ![r].late = late]
        /\ Spend(outcome)
  BY DEF AddImageURL
<1>2. outcome # "done" => faults' > faults
  BY <1>1, FaultCount
<1> DEFINE stage == IF outcome = "done" /\ room THEN "ended" ELSE "cleanup"
<1> DEFINE answer == IF outcome # "done" THEN "error" ELSE IF room THEN "ok" ELSE "full"
<1> DEFINE wrote == outcome # "refused" /\ room
<1>3. request' = [request EXCEPT ![r].stage = stage, ![r].answer = answer, ![r].wrote = wrote,
                                 ![r].late = late]
  BY <1>1
<1>4. stage \in Stages \ {"idle", "begun"} /\ answer \in Answers /\ wrote \in BOOLEAN
  BY DEF Stages, Answers, HasCapacity
<1>5. ASSUME NEW s \in Stages \ {"idle", "begun"}, NEW a \in Answers, NEW w \in BOOLEAN, NEW l \in BOOLEAN,
             request' = [request EXCEPT ![r].stage = s, ![r].answer = a, ![r].wrote = w,
                                        ![r].late = l]
      PROVE  /\ Moves(r) /\ Keeps(r) /\ request'[r].stage = s /\ request'[r].answer = a
             /\ request'[r].wrote = w /\ request'[r].late = l
  <2>1. request \in [Requests -> Request] /\ request[r] \in Request
    BY DEF TypeOK
  <2> QED BY <1>5, <2>1 DEF Moves, Others, Keeps, Request
<1>6. /\ Moves(r) /\ Keeps(r) /\ request'[r].stage = stage /\ request'[r].answer = answer
      /\ request'[r].wrote = wrote /\ request'[r].late = late
  <2> HIDE DEF stage, answer, wrote
  <2> QED BY <1>3, <1>4, <1>5
<1>7. events' = IF request'[r].wrote
                THEN AddEventImageURLIfCapacity(events, request[r].id, r) ELSE events
  BY <1>1, <1>6 DEF Result, AddEventImageURLIfCapacity
<1>8. At(r, "upload", "saved") /\ UNCHANGED <<tasks, blobs>>
  BY DEF AddImageURL
<1>9. \/ stage = "ended" /\ answer = "ok" /\ wrote
      \/ stage = "cleanup" /\ answer = "full" /\ ~wrote /\ ~late
      \/ stage = "cleanup" /\ answer = "error" /\ faults' > faults
  <2> HIDE DEF room
  <2> QED BY <1>1, <1>2
<1>10. wrote => room
  OBVIOUS
<1> HIDE DEF stage, answer, wrote
<1> QED BY <1>6, <1>7, <1>8, <1>9, <1>10

LEMMA CleanEffect ==
    ASSUME TypeOK, NEW r \in Requests, CleanUp(r)
    PROVE  /\ At(r, "upload", "cleanup") /\ UNCHANGED <<events, tasks>>
           /\ Moves(r) /\ Keeps(r) /\ request'[r].stage = "ended"
           /\ request'[r].answer = request[r].answer
           /\ request'[r].wrote = request[r].wrote /\ request'[r].late = request[r].late
           /\ blobs' \in {blobs, blobs \ {r}}
           /\ blobs' = blobs \ {r} \/ request[r].late \/ faults' > faults
<1>1. Goto(r, "ended") /\ At(r, "upload", "cleanup") /\ UNCHANGED <<events, tasks>>
  BY DEF CleanUp
<1>2. \/ request[r].late /\ blobs' = blobs
      \/ \E outcome \in Outcomes : blobs' = Result(outcome, blobs, blobs \ {r}) /\ Spend(outcome)
  BY DEF CleanUp
<1>3. /\ blobs' \in {blobs, blobs \ {r}}
      /\ blobs' = blobs \ {r} \/ request[r].late \/ faults' > faults
  BY <1>2, FaultCount DEF Result
<1> QED BY <1>1, <1>3, Going DEF Stages

-----------------------------------------------------------------------------
(* What a step makes of the rows.                                          *)

LEMMA RowTypes ==
    ASSUME Base, NEW r \in Requests
    PROVE  /\ \A recurring \in BOOLEAN :
                LET row == NewEvent(request[r].user, r, r, recurring, r) IN
                /\ row \in EventRow /\ row.born = r /\ row.user = request[r].user
                /\ row.images = {} /\ row.recurring = recurring /\ row.title = r /\ row.place = r
           /\ request[r].op = "updateEvent" /\ request[r].stage = "read" =>
                LET row == applyUpdateToEvent(request[r].copy, r, request[r].named) IN
                /\ row \in EventRow
                /\ row.title = IF "title" \in request[r].named THEN r ELSE request[r].copy.title
                /\ row.place = IF "place" \in request[r].named THEN r ELSE request[r].copy.place
                /\ row.recurring => "recurring" \in request[r].named
           /\ NewTask(request[r].user, r, r) \in TaskRow
           /\ request[r].op = "updateTask" /\ request[r].stage = "read" =>
                LET row == applyUpdateToTask(request[r].copy, r, request[r].named) IN
                /\ row \in TaskRow
                /\ row.title = IF "title" \in request[r].named THEN r ELSE request[r].copy.title
<1>1. request[r] \in Request /\ r \in Author
  BY DEF Base, TypeOK, Author
<1>2. request[r].user \in Users
  BY <1>1 DEF Request
<1>3. ASSUME NEW recurring \in BOOLEAN
      PROVE  LET row == NewEvent(request[r].user, r, r, recurring, r) IN
             /\ row \in EventRow /\ row.born = r /\ row.user = request[r].user
             /\ row.images = {} /\ row.recurring = recurring /\ row.title = r /\ row.place = r
  BY <1>1, <1>2 DEF NewEvent, EventRow
<1>4. ASSUME request[r].op = "updateEvent", request[r].stage = "read"
      PROVE  LET row == applyUpdateToEvent(request[r].copy, r, request[r].named) IN
             /\ row \in EventRow
             /\ row.title = IF "title" \in request[r].named THEN r ELSE request[r].copy.title
             /\ row.place = IF "place" \in request[r].named THEN r ELSE request[r].copy.place
             /\ row.recurring => "recurring" \in request[r].named
  <2>1. request[r].copy \in EventRow /\ ~request[r].copy.recurring
    BY <1>4 DEF Base, CopyTypes, TaskWriters
  <2> QED BY <1>1, <2>1 DEF applyUpdateToEvent, EventRow
<1>5. NewTask(request[r].user, r, r) \in TaskRow
  BY <1>1, <1>2 DEF NewTask, TaskRow
<1>6. ASSUME request[r].op = "updateTask", request[r].stage = "read"
      PROVE  LET row == applyUpdateToTask(request[r].copy, r, request[r].named) IN
             /\ row \in TaskRow
             /\ row.title = IF "title" \in request[r].named THEN r ELSE request[r].copy.title
  <2>1. request[r].copy \in TaskRow
    BY <1>6 DEF Base, CopyTypes, TaskWriters
  <2>2. ASSUME NEW title \in Author, NEW completed \in BOOLEAN
        PROVE  LET row == [request[r].copy EXCEPT !.title = title, !.completed = completed] IN
               row \in TaskRow /\ row.title = title
    BY <2>1, <2>2 DEF TaskRow
  <2> DEFINE title == IF "title" \in request[r].named THEN r ELSE request[r].copy.title
  <2> DEFINE completed == "completed" \in request[r].named
  <2>3. applyUpdateToTask(request[r].copy, r, request[r].named) =
          [request[r].copy EXCEPT !.title = title, !.completed = completed]
    BY DEF applyUpdateToTask
  <2>4. title \in Author /\ completed \in BOOLEAN
    BY <1>1, <2>1 DEF TaskRow
  <2> HIDE DEF title, completed
  <2>5. LET row == applyUpdateToTask(request[r].copy, r, request[r].named) IN
        row \in TaskRow /\ row.title = title
    BY <2>2, <2>3, <2>4
  <2> QED BY <2>5 DEF title
<1> QED BY <1>3, <1>4, <1>5, <1>6

Same(u) == /\ events[u] \in EventRow /\ events'[u] \in EventRow
           /\ events'[u].user = events[u].user /\ events'[u].born = events[u].born

Inserted(r, u) ==
  /\ events[u] = NoRow /\ events'[u] \in EventRow
  /\ events'[u].born = r /\ events'[u].user = request[r].user /\ events'[u].images = {}
  /\ events'[u].recurring => request[r].op = "createEvent"
  /\ request[r].op \in {"createEvent", "import"} /\ u \in {r, request[r].id}
  /\ u # request[r].id => request[r].stage = "renamed"
  /\ request[r].stage \notin {"idle", "ended"} /\ request'[r].stage = "ended"
Updated(r, u) ==
  /\ Same(u) /\ u = request[r].id /\ Moves(r) /\ Keeps(r)
  /\ At(r, "updateEvent", "read") \/ At(r, "import", "own")
  /\ request'[r].wrote /\ request'[r].stage = "ended"
  /\ events'[u].images = events[u].images
  /\ events'[u].title = IF "title" \in request[r].named THEN r ELSE request[r].copy.title
  /\ events'[u].place = IF "place" \in request[r].named THEN r ELSE request[r].copy.place
  /\ events'[u].recurring => request[r].op = "updateEvent" /\ "recurring" \in request[r].named
Deleted(r, u) ==
  /\ events'[u] = NoRow /\ u = request[r].id
  /\ At(r, "deleteEvent", "read") /\ request'[r].stage = "ended"
Stopped(r, u) ==
  /\ Same(u) /\ u = request[r].id
  /\ At(r, "deactivate", "begun") /\ request'[r].stage = "ended"
  /\ events'[u].images = events[u].images /\ ~events'[u].recurring
  /\ events'[u].title = events[u].title /\ events'[u].place = events[u].place
Pictured(r, u) ==
  /\ Same(u) /\ u = request[r].id /\ HasCapacity(events, u)
  /\ At(r, "upload", "saved") /\ request'[r].stage # "saved" /\ Moves(r) /\ request'[r].wrote
  /\ events'[u].images = events[u].images \cup {r}
  /\ events'[u].title = events[u].title /\ events'[u].place = events[u].place
  /\ events'[u].recurring = events[u].recurring

\* Who changes what is stored.
LEMMA Untouched ==
    ASSUME TypeOK, [Next]_vars
    PROVE  /\ events' # events => \E r \in Requests :
                createEvent(r) \/ updateEvent(r) \/ deleteEvent(r) \/ deactivateRecurringEvent(r)
                \/ CreateEventAdapter(r) \/ ImportRenamed(r) \/ ImportOverOwn(r) \/ AddImageURL(r)
           /\ tasks' # tasks => \E r \in Requests : createTask(r) \/ updateTask(r) \/ deleteTask(r)
           /\ blobs' # blobs => \E r \in Requests : SaveEventImage(r) \/ CleanUp(r)
           /\ faults' # faults => faults < MaxFaults /\ faults' = faults + 1
<1>1. ASSUME NEW r \in Requests, Handle(r)
      PROVE  /\ events' # events =>
                  createEvent(r) \/ updateEvent(r) \/ deleteEvent(r) \/ deactivateRecurringEvent(r)
                  \/ CreateEventAdapter(r) \/ ImportRenamed(r) \/ ImportOverOwn(r) \/ AddImageURL(r)
             /\ tasks' # tasks => createTask(r) \/ updateTask(r) \/ deleteTask(r)
             /\ blobs' # blobs => SaveEventImage(r) \/ CleanUp(r)
  BY <1>1 DEF Handle, VerifyEventOwner, VerifyTaskOwner, uploadEventImage, Read, createEvent,
     updateEvent, deleteEvent, deactivateRecurringEvent, CreateEventAdapter, resolveDuplicateEvent,
     ImportRenamed, ImportOverOwn, SaveEventImage, AddImageURL, CleanUp, createTask, updateTask,
     deleteTask
<1>2. ASSUME NEW r \in Requests, Handle(r), faults' # faults
      PROVE  faults < MaxFaults /\ faults' = faults + 1
  <2>1. \/ \E outcome \in Outcomes : Spend(outcome)
        \/ \E failed \in IF faults < MaxFaults THEN BOOLEAN ELSE {FALSE} :
             faults' = IF failed THEN faults + 1 ELSE faults
    BY <1>2 DEF Handle, VerifyEventOwner, VerifyTaskOwner, uploadEventImage, Read, createEvent,
       updateEvent, deleteEvent, deactivateRecurringEvent, CreateEventAdapter,
       resolveDuplicateEvent, ImportRenamed, ImportOverOwn, SaveEventImage, AddImageURL, CleanUp,
       createTask, updateTask, deleteTask, EndWriting
  <2> QED BY <1>2, <2>1 DEF Spend, Outcomes
<1>3. CASE Crash \/ UNCHANGED vars
  BY <1>3 DEF Crash, vars
<1>4. ASSUME NEW r \in Requests, Arrivals(r) PROVE UNCHANGED <<events, tasks, blobs, faults>>
  BY <1>4, ArriveEffect
<1>5. CASE \E r \in Requests : Handle(r)
  BY <1>1, <1>2, <1>5
<1>6. CASE \E r \in Requests : Arrivals(r)
  BY <1>4, <1>6
<1> QED BY <1>3, <1>5, <1>6 DEF Next

LEMMA EventRowStep ==
    ASSUME Base, [Next]_vars, NEW u \in Ids, events'[u] # events[u]
    PROVE  \E r \in Requests : \/ Inserted(r, u) \/ Updated(r, u) \/ Deleted(r, u)
                               \/ Stopped(r, u) \/ Pictured(r, u)
<1>0. TypeOK /\ events \in [Ids -> EventRow \cup {NoRow}]
  BY DEF Base, TypeOK
<1>1. PICK r \in Requests :
        createEvent(r) \/ updateEvent(r) \/ deleteEvent(r) \/ deactivateRecurringEvent(r)
        \/ CreateEventAdapter(r) \/ ImportRenamed(r) \/ ImportOverOwn(r) \/ AddImageURL(r)
  BY <1>0, Untouched
<1>2. request[r].op \in EventOps => request[r].id \in Ids
  <2>1. "none" \notin EventOps
    BY DEF EventOps
  <2> QED BY <2>1, IdTypes
<1>3. r \in Ids
  BY DEF Ids
<1>4. events[u] \in EventRow \cup {NoRow}
  BY <1>0
<1>5. CASE createEvent(r)
  <2> DEFINE recurring == "recurring" \in request[r].named
  <2> DEFINE row == NewEvent(request[r].user, r, r, recurring, r)
  <2>1. At(r, "createEvent", "begun") /\ Writes(r, events, events', CreateEvent(events, r, row))
    BY <1>0, <1>5, EventWriteEffect
  <2>2. row \in EventRow /\ row.born = r /\ row.user = request[r].user /\ row.images = {}
    <3>1. recurring \in BOOLEAN
      OBVIOUS
    <3> HIDE DEF recurring
    <3> QED BY <3>1, RowTypes
  <2> HIDE DEF row
  <2>3. events' = CreateEvent(events, r, row) /\ request'[r].stage = "ended"
    BY <2>1 DEF Writes
  <2>4. u = r /\ events'[u] = row
    BY <1>0, <1>3, <2>3 DEF CreateEvent
  <2>5. events[r] = NoRow /\ request[r].id = r
    BY <2>1 DEF Base, OwnRowInv, StageInv, At
  <2> QED BY <2>1, <2>2, <2>3, <2>4, <2>5 DEF Inserted, At
<1>6. CASE CreateEventAdapter(r)
  <2>1. At(r, "import", "begun") /\ events[request[r].id] = NoRow
        /\ Writes(r, events, events', CreateEvent(events, request[r].id, Imported(r)))
    BY <1>0, <1>6, AdapterEffect
  <2>2. /\ Imported(r) \in EventRow /\ Imported(r).born = r /\ Imported(r).user = request[r].user
        /\ Imported(r).images = {} /\ ~Imported(r).recurring
    BY RowTypes DEF Imported
  <2>3. events' = CreateEvent(events, request[r].id, Imported(r)) /\ request'[r].stage = "ended"
    BY <2>1 DEF Writes
  <2>4. u = request[r].id /\ events'[u] = Imported(r)
    BY <1>0, <1>2, <2>1, <2>3 DEF CreateEvent, At, EventOps
  <2> QED BY <2>1, <2>2, <2>3, <2>4 DEF Inserted, At
<1>7. CASE ImportRenamed(r)
  <2>1. At(r, "import", "renamed")
        /\ Writes(r, events, events', CreateEvent(events, r, Imported(r)))
    BY <1>0, <1>7, EventWriteEffect
  <2>2. /\ Imported(r) \in EventRow /\ Imported(r).born = r /\ Imported(r).user = request[r].user
        /\ Imported(r).images = {} /\ ~Imported(r).recurring
    BY RowTypes DEF Imported
  <2>3. events' = CreateEvent(events, r, Imported(r)) /\ request'[r].stage = "ended"
    BY <2>1 DEF Writes
  <2>4. u = r /\ events'[u] = Imported(r)
    BY <1>0, <1>3, <2>3 DEF CreateEvent
  <2>5. events[r] = NoRow
    BY <2>1 DEF Base, OwnRowInv, At
  <2> QED BY <2>1, <2>2, <2>3, <2>4, <2>5 DEF Inserted, At
<1>8. ASSUME NEW row \in EventRow, Writes(r, events, events', UpdateEvent(events, request[r].id, row)),
             request[r].id \in Ids
      PROVE  /\ Same(u) /\ u = request[r].id /\ Moves(r) /\ Keeps(r)
             /\ request'[r].wrote /\ request'[r].stage = "ended"
             /\ events'[u].images = events[u].images /\ events'[u].title = row.title
             /\ events'[u].place = row.place /\ events'[u].recurring = row.recurring
  <2>1. /\ Moves(r) /\ Keeps(r) /\ request'[r].wrote /\ request'[r].stage = "ended"
        /\ events' = UpdateEvent(events, request[r].id, row)
    BY <1>8 DEF Writes
  <2>2. u = request[r].id /\ events[u] # NoRow
    BY <1>0, <1>8, <2>1 DEF UpdateEvent
  <2>3. events'[u] = [events[u] EXCEPT !.title = row.title, !.place = row.place,
                                       !.recurring = row.recurring]
    BY <1>0, <1>8, <2>1, <2>2 DEF UpdateEvent
  <2>4. events[u] \in EventRow
    BY <1>4, <2>2
  <2> QED BY <1>8, <2>1, <2>2, <2>3, <2>4 DEF Same, EventRow
<1>9. CASE updateEvent(r)
  <2> DEFINE row == applyUpdateToEvent(request[r].copy, r, request[r].named)
  <2>1. At(r, "updateEvent", "read")
        /\ Writes(r, events, events', UpdateEvent(events, request[r].id, row))
    BY <1>0, <1>9, EventWriteEffect
  <2>2. /\ row \in EventRow
        /\ row.title = IF "title" \in request[r].named THEN r ELSE request[r].copy.title
        /\ row.place = IF "place" \in request[r].named THEN r ELSE request[r].copy.place
        /\ row.recurring => "recurring" \in request[r].named
    BY <2>1, RowTypes DEF At
  <2> HIDE DEF row
  <2> QED BY <1>2, <1>8, <2>1, <2>2 DEF Updated, At, EventOps
<1>10. CASE ImportOverOwn(r)
  <2>1. At(r, "import", "own")
        /\ Writes(r, events, events', UpdateEvent(events, request[r].id, Imported(r)))
    BY <1>0, <1>10, EventWriteEffect
  <2>2. /\ Imported(r) \in EventRow /\ Imported(r).title = r /\ Imported(r).place = r
        /\ ~Imported(r).recurring
    BY RowTypes DEF Imported
  <2>3. request[r].named = {"title", "place"} /\ request[r].id \in Ids
    BY <1>2, <2>1 DEF Base, StageInv, At, EventOps
  <2> QED BY <1>8, <2>1, <2>2, <2>3 DEF Updated, At
<1>11. CASE deleteEvent(r)
  <2>1. At(r, "deleteEvent", "read")
        /\ Writes(r, events, events', DeleteEvent(events, request[r].id))
    BY <1>0, <1>11, EventWriteEffect
  <2>2. events' = DeleteEvent(events, request[r].id) /\ request'[r].stage = "ended"
    BY <2>1 DEF Writes
  <2>3. u = request[r].id /\ events'[u] = NoRow
    BY <1>0, <1>2, <2>1, <2>2 DEF DeleteEvent, At, EventOps
  <2> QED BY <2>1, <2>2, <2>3 DEF Deleted
<1>12. CASE deactivateRecurringEvent(r)
  <2>1. At(r, "deactivate", "begun")
        /\ Writes(r, events, events', DeactivateRecurringEvent(events, request[r].id))
    BY <1>0, <1>12, EventWriteEffect
  <2>2. events' = DeactivateRecurringEvent(events, request[r].id) /\ request'[r].stage = "ended"
        /\ request[r].id \in Ids
    BY <1>2, <2>1 DEF Writes, At, EventOps
  <2>3. u = request[r].id /\ events[u] # NoRow
    BY <1>0, <2>2 DEF DeactivateRecurringEvent
  <2>4. events'[u] = [events[u] EXCEPT !.recurring = FALSE]
    BY <1>0, <2>2, <2>3 DEF DeactivateRecurringEvent
  <2>5. events[u] \in EventRow
    BY <1>4, <2>3
  <2> QED BY <2>1, <2>2, <2>3, <2>4, <2>5 DEF Stopped, Same, EventRow
<1>13. CASE AddImageURL(r)
  <2>1. /\ At(r, "upload", "saved") /\ Moves(r) /\ request'[r].wrote /\ request'[r].stage # "saved"
        /\ HasCapacity(events, request[r].id) /\ request[r].id \in Ids
        /\ events' = AddEventImageURLIfCapacity(events, request[r].id, r)
    BY <1>0, <1>2, <1>13, AddEffect DEF At, EventOps
  <2>2. u = request[r].id /\ events[u] # NoRow
    BY <1>0, <2>1 DEF AddEventImageURLIfCapacity, HasCapacity
  <2>3. events'[u] = [events[u] EXCEPT !.images = @ \cup {r}]
    BY <1>0, <2>1, <2>2 DEF AddEventImageURLIfCapacity
  <2>4. events[u] \in EventRow
    BY <1>4, <2>2
  <2> QED BY <2>1, <2>2, <2>3, <2>4 DEF Pictured, Same, EventRow
<1> QED BY <1>1, <1>5, <1>6, <1>7, <1>9, <1>10, <1>11, <1>12, <1>13

SameTask(u) == /\ tasks[u] \in TaskRow /\ tasks'[u] \in TaskRow
               /\ tasks'[u].user = tasks[u].user /\ tasks'[u].born = tasks[u].born
InsertedTask(r, u) ==
  /\ tasks[u] = NoRow /\ tasks'[u] \in TaskRow /\ u = r
  /\ request[r].stage \notin {"idle", "ended"} /\ request'[r].stage = "ended"
UpdatedTask(r, u) ==
  /\ SameTask(u) /\ u = request[r].id /\ At(r, "updateTask", "read")
  /\ Moves(r) /\ Keeps(r) /\ request'[r].wrote /\ request'[r].stage = "ended"
  /\ tasks'[u].title = IF "title" \in request[r].named THEN r ELSE request[r].copy.title
DeletedTask(r, u) ==
  /\ tasks'[u] = NoRow /\ u = request[r].id
  /\ At(r, "deleteTask", "read") /\ request'[r].stage = "ended"

LEMMA TaskRowStep ==
    ASSUME Base, [Next]_vars, NEW u \in TaskIds, tasks'[u] # tasks[u]
    PROVE  \E r \in Requests : InsertedTask(r, u) \/ UpdatedTask(r, u) \/ DeletedTask(r, u)
<1>0. TypeOK /\ tasks \in [TaskIds -> TaskRow \cup {NoRow}]
  BY DEF Base, TypeOK
<1>1. PICK r \in Requests : createTask(r) \/ updateTask(r) \/ deleteTask(r)
  BY <1>0, Untouched
<1>2. request[r].op \in TaskOps => request[r].id \in TaskIds
  <2>1. "none" \notin TaskOps
    BY DEF TaskOps
  <2> QED BY <2>1, IdTypes
<1>3. r \in TaskIds /\ tasks[u] \in TaskRow \cup {NoRow}
  BY <1>0 DEF TaskIds
<1>4. CASE createTask(r)
  <2> DEFINE row == NewTask(request[r].user, r, r)
  <2>1. At(r, "createTask", "begun") /\ Writes(r, tasks, tasks', CreateTask(tasks, r, row))
    BY <1>0, <1>4, TaskWriteEffect
  <2>2. row \in TaskRow
    BY RowTypes
  <2> HIDE DEF row
  <2>3. tasks' = CreateTask(tasks, r, row) /\ request'[r].stage = "ended"
    BY <2>1 DEF Writes
  <2>4. u = r /\ tasks'[u] = row
    BY <1>0, <1>3, <2>3 DEF CreateTask
  <2>5. tasks[r] = NoRow
    BY <2>1 DEF Base, OwnRowInv, At
  <2> QED BY <2>1, <2>2, <2>3, <2>4, <2>5 DEF InsertedTask, At
<1>5. CASE updateTask(r)
  <2> DEFINE row == applyUpdateToTask(request[r].copy, r, request[r].named)
  <2>1. At(r, "updateTask", "read")
        /\ Writes(r, tasks, tasks', UpdateTask(tasks, request[r].id, row))
    BY <1>0, <1>5, TaskWriteEffect
  <2>2. /\ row \in TaskRow
        /\ row.title = IF "title" \in request[r].named THEN r ELSE request[r].copy.title
    BY <2>1, RowTypes DEF At
  <2> HIDE DEF row
  <2>3. /\ Moves(r) /\ Keeps(r) /\ request'[r].wrote /\ request'[r].stage = "ended"
        /\ tasks' = UpdateTask(tasks, request[r].id, row) /\ request[r].id \in TaskIds
    BY <1>2, <2>1 DEF Writes, At, TaskOps
  <2>4. u = request[r].id /\ tasks[u] # NoRow
    BY <1>0, <2>3 DEF UpdateTask
  <2>5. tasks'[u] = [tasks[u] EXCEPT !.title = row.title, !.completed = row.completed]
    BY <1>0, <2>3, <2>4 DEF UpdateTask
  <2>6. tasks[u] \in TaskRow
    BY <1>3, <2>4
  <2>7. SameTask(u) /\ tasks'[u].title = row.title
    BY <2>2, <2>5, <2>6 DEF SameTask, TaskRow
  <2> QED BY <2>1, <2>2, <2>3, <2>4, <2>7 DEF UpdatedTask
<1>6. CASE deleteTask(r)
  <2>1. At(r, "deleteTask", "read")
        /\ Writes(r, tasks, tasks', DeleteTask(tasks, request[r].id))
    BY <1>0, <1>6, TaskWriteEffect
  <2>2. tasks' = DeleteTask(tasks, request[r].id) /\ request'[r].stage = "ended"
    BY <2>1 DEF Writes
  <2>3. u = request[r].id /\ tasks'[u] = NoRow
    BY <1>0, <1>2, <2>1, <2>2 DEF DeleteTask, At, TaskOps
  <2> QED BY <2>1, <2>2, <2>3 DEF DeletedTask
<1> QED BY <1>1, <1>4, <1>5, <1>6

-----------------------------------------------------------------------------
(* Every step, request by request.                                         *)

\* Which handler serves a request is told by what was asked and how far it is.
LEMMA HandlerOf ==
    ASSUME NEW r \in Requests, Handle(r)
    PROVE  /\ request[r].stage \notin {"idle", "ended"}
           /\ At(r, "updateEvent", "read") => updateEvent(r)
           /\ At(r, "deleteEvent", "read") => deleteEvent(r)
           /\ At(r, "deactivate", "begun") => deactivateRecurringEvent(r)
           /\ At(r, "import", "begun") => CreateEventAdapter(r)
           /\ At(r, "import", "conflict") => resolveDuplicateEvent(r)
           /\ At(r, "import", "renamed") => ImportRenamed(r)
           /\ At(r, "import", "own") => ImportOverOwn(r)
           /\ At(r, "upload", "begun") => uploadEventImage(r)
           /\ At(r, "upload", "read") => SaveEventImage(r)
           /\ At(r, "upload", "saved") => AddImageURL(r)
           /\ At(r, "upload", "cleanup") => CleanUp(r)
           /\ At(r, "updateTask", "read") => updateTask(r)
           /\ At(r, "deleteTask", "read") => deleteTask(r)
BY DEF Handle, VerifyEventOwner, VerifyTaskOwner, uploadEventImage, createEvent,
   updateEvent, deleteEvent, deactivateRecurringEvent, CreateEventAdapter, resolveDuplicateEvent,
   ImportRenamed, ImportOverOwn, SaveEventImage, AddImageURL, CleanUp, createTask, updateTask,
   deleteTask, At

\* The ends of a handler: it has verified, written, or given up.
Finishes(r) ==
  /\ Keeps(r) /\ request'[r].stage = "ended" /\ request'[r].answer \in {"ok", "error"}
  /\ request[r].stage \in {"begun", "read", "conflict", "renamed", "own", "saved"}
  /\ request[r].stage = "begun" => request[r].op \notin EventWriters \cup TaskWriters
  /\ request'[r].answer = "error" => request[r].stage = "conflict" \/ faults' > faults
  /\ request'[r].answer = "ok" => request'[r].wrote
Advances(r, op, from, to) == At(r, op, from) /\ request'[r].stage = to
Waits(r) == Keeps(r) /\ request'[r].answer = request[r].answer /\ request'[r].wrote = request[r].wrote

Handled(r) ==
  /\ Moves(r) /\ request[r].stage \notin {"idle", "ended"}
  /\ \/ Verifies(r) /\ request[r].op \in EventWriters \cup TaskWriters
     \/ Finishes(r)
     \/ Waits(r) /\ Advances(r, "import", "begun", "conflict")
     \/ Waits(r) /\ Advances(r, "import", "conflict", "renamed")
     \/ /\ Advances(r, "import", "conflict", "own")
        /\ request'[r].answer = request[r].answer /\ request'[r].wrote = request[r].wrote
        /\ request'[r].copy = GetEventByID(events, request[r].id)
        /\ request'[r].copy \in EventRow /\ request'[r].copy # NoRow
        /\ request'[r].copy.user = request[r].user /\ request'[r].saw = Ended
     \/ Waits(r) /\ Advances(r, "upload", "read", "saved")
     \/ /\ Advances(r, "upload", "saved", "cleanup") /\ Keeps(r)
        /\ request'[r].answer \in {"error", "full"}
     \/ Waits(r) /\ Advances(r, "upload", "cleanup", "ended")

LEMMA HandleEffect == ASSUME Base, NEW r \in Requests, Handle(r) PROVE Handled(r)
<1>0. TypeOK /\ request[r].stage \notin {"idle", "ended"}
  BY HandlerOf DEF Base
<1>1. CASE VerifyEventOwner(r) \/ uploadEventImage(r) \/ VerifyTaskOwner(r)
  <2>1. Verifies(r) /\ request[r].op \in EventWriters \cup TaskWriters
    BY <1>1, VerifyEffect
  <2> QED BY <1>0, <2>1 DEF Handled, Verifies
<1>2. ASSUME NEW before, NEW result, NEW after, Writes(r, before, result, after),
             request[r].stage \in {"begun", "read", "renamed", "own"},
             request[r].stage = "begun" => request[r].op \notin EventWriters \cup TaskWriters
      PROVE  Handled(r)
  BY <1>0, <1>2 DEF Handled, Finishes, Writes
<1>3. CASE createEvent(r) \/ updateEvent(r) \/ deleteEvent(r) \/ deactivateRecurringEvent(r)
           \/ ImportRenamed(r) \/ ImportOverOwn(r)
  <2>1. \E after : Writes(r, events, events', after)
    BY <1>0, <1>3, EventWriteEffect
  <2>2. \/ At(r, "createEvent", "begun") \/ At(r, "updateEvent", "read")
        \/ At(r, "deleteEvent", "read") \/ At(r, "deactivate", "begun")
        \/ At(r, "import", "renamed") \/ At(r, "import", "own")
    BY <1>0, <1>3, EventWriteEffect
  <2> QED BY <1>2, <2>1, <2>2 DEF At, EventWriters, TaskWriters
<1>4. CASE createTask(r) \/ updateTask(r) \/ deleteTask(r)
  <2>1. \E after : Writes(r, tasks, tasks', after)
    BY <1>0, <1>4, TaskWriteEffect
  <2>2. At(r, "createTask", "begun") \/ At(r, "updateTask", "read") \/ At(r, "deleteTask", "read")
    BY <1>0, <1>4, TaskWriteEffect
  <2> QED BY <1>2, <2>1, <2>2 DEF At, EventWriters, TaskWriters
<1>5. CASE CreateEventAdapter(r)
  <2>1. At(r, "import", "begun")
    BY <1>0, <1>5, AdapterEffect
  <2>2. \/ Moves(r) /\ Waits(r) /\ Advances(r, "import", "begun", "conflict")
        \/ Writes(r, events, events', CreateEvent(events, request[r].id, Imported(r)))
    BY <1>0, <1>5, AdapterEffect DEF Waits, Advances
  <2> QED BY <1>0, <1>2, <2>1, <2>2 DEF Handled, At, EventWriters, TaskWriters
<1>6. CASE resolveDuplicateEvent(r)
  <2>1. At(r, "import", "conflict") /\ Moves(r) /\ request'[r].wrote = request[r].wrote
    BY <1>6, ResolveEffect
  <2>2. \/ Keeps(r) /\ request'[r].stage = "ended" /\ request'[r].answer = "error"
        \/ Keeps(r) /\ request'[r].stage = "renamed" /\ request'[r].answer = request[r].answer
        \/ /\ request'[r].stage = "own" /\ request'[r].answer = request[r].answer
           /\ request'[r].copy = GetEventByID(events, request[r].id)
           /\ request'[r].copy \in EventRow /\ request'[r].copy # NoRow
           /\ request'[r].copy.user = request[r].user /\ request'[r].saw = Ended
    BY <1>6, ResolveEffect
  <2> QED BY <1>0, <2>1, <2>2 DEF Handled, Finishes, Waits, Advances, At
<1>7. CASE SaveEventImage(r)
  <2>1. /\ At(r, "upload", "read") /\ Moves(r) /\ Keeps(r) /\ request'[r].wrote = request[r].wrote
        /\ \/ request'[r].stage = "saved" /\ request'[r].answer = request[r].answer
           \/ request'[r].stage = "ended" /\ request'[r].answer = "error" /\ faults' > faults
    BY <1>0, <1>7, SaveEffect
  <2> QED BY <1>0, <2>1 DEF Handled, Finishes, Waits, Advances, At
<1>8. CASE AddImageURL(r)
  <2>1. /\ At(r, "upload", "saved") /\ Moves(r) /\ Keeps(r)
        /\ \/ request'[r].stage = "ended" /\ request'[r].answer = "ok" /\ request'[r].wrote
           \/ request'[r].stage = "cleanup" /\ request'[r].answer \in {"error", "full"}
    BY <1>0, <1>8, AddEffect
  <2> QED BY <1>0, <2>1 DEF Handled, Finishes, Waits, Advances, At
<1>9. CASE CleanUp(r)
  <2>1. /\ At(r, "upload", "cleanup") /\ Moves(r) /\ Keeps(r) /\ request'[r].stage = "ended"
        /\ request'[r].answer = request[r].answer /\ request'[r].wrote = request[r].wrote
    BY <1>0, <1>9, CleanEffect
  <2> QED BY <1>0, <2>1 DEF Handled, Waits, Advances
<1> QED BY <1>1, <1>3, <1>4, <1>5, <1>6, <1>7, <1>8, <1>9 DEF Handle

\* What a request may become in a step.
Came(q) == request[q].stage = "idle" /\ Fresh(q, request'[q])

LEMMA Frame ==
    ASSUME Base, [Next]_vars, NEW q \in Requests
    PROVE  /\ request' \in [Requests -> Request]
           /\ request'[q] = request[q] \/ (Crash /\ Crashed(q)) \/ Came(q) \/ (Handle(q) /\ Handled(q))
           /\ \A p \in Requests \ {q} : Handle(q) \/ Came(q) => request'[p] = request[p]
<1>0. TypeOK /\ request \in [Requests -> Request]
  BY DEF Base, TypeOK
<1>1. ASSUME NEW r \in Requests, Handle(r)
      PROVE  request' \in [Requests -> Request] /\ Handled(r) /\ Others(r)
  BY <1>1, HandleEffect DEF Handled, Moves
<1>2. ASSUME NEW r \in Requests, Arrivals(r)
      PROVE  request' \in [Requests -> Request] /\ Came(r) /\ Others(r)
  BY <1>0, <1>2, ArriveEffect DEF Came
<1>3. CASE Crash
  <2>1. \A p \in Requests : request'[p] = request[p] \/ Crashed(p)
    BY <1>0, <1>3, CrashEffect
  <2>2. ~Came(q)
    BY <2>1 DEF Came, Fresh, Crashed
  <2>3. Handle(q) => \A p \in Requests \ {q} : request'[p] = request[p]
    BY <1>1 DEF Others
  <2> QED BY <1>0, <1>3, <2>1, <2>2, <2>3, CrashEffect
<1>4. CASE UNCHANGED vars
  <2>1. ~Came(q)
    BY <1>4 DEF Came, Fresh, vars
  <2> QED BY <1>0, <1>4, <2>1 DEF vars
<1>5. ASSUME NEW r \in Requests, Arrivals(r) \/ Handle(r)
      PROVE  /\ request' \in [Requests -> Request]
             /\ request'[q] = request[q] \/ (Crash /\ Crashed(q)) \/ Came(q) \/ (Handle(q) /\ Handled(q))
             /\ \A p \in Requests \ {q} : Handle(q) \/ Came(q) => request'[p] = request[p]
  <2>1. /\ request' \in [Requests -> Request] /\ Others(r)
        /\ Came(r) \/ (Handle(r) /\ Handled(r))
    BY <1>1, <1>2, <1>5
  <2>2. q # r => ~Came(q)
    BY <2>1 DEF Others, Came, Fresh
  <2>3. Handle(q) => Others(q)
    BY <1>1
  <2> QED BY <2>1, <2>2, <2>3 DEF Others
<1> QED BY <1>3, <1>4, <1>5 DEF Next

\* What the client sent never changes once it is there.
LEMMA SentStays ==
    ASSUME Base, [Next]_vars, NEW q \in Requests, request[q].stage # "idle"
    PROVE  /\ request'[q].op = request[q].op /\ request'[q].user = request[q].user
           /\ request'[q].id = request[q].id /\ request'[q].named = request[q].named
           /\ request'[q].stage # "idle"
BY Frame DEF Crashed, Came, Handled, Moves

LEMMA EndedStays ==
    ASSUME Base, [Next]_vars, NEW q \in Requests, request[q].stage = "ended"
    PROVE  request'[q] = request[q]
BY Frame DEF Crashed, Came, Handled

-----------------------------------------------------------------------------
(* Types.                                                                  *)

LEMMA RowsType ==
    ASSUME Base, [Next]_vars
    PROVE  events' \in [Ids -> EventRow \cup {NoRow}] /\ tasks' \in [TaskIds -> TaskRow \cup {NoRow}]
<1>0. TypeOK /\ events \in [Ids -> EventRow \cup {NoRow}] /\ tasks \in [TaskIds -> TaskRow \cup {NoRow}]
  BY DEF Base, TypeOK
<1>1. \A u \in Ids : events'[u] \in EventRow \cup {NoRow}
  BY <1>0, EventRowStep DEF Inserted, Updated, Deleted, Stopped, Pictured, Same
<1>2. \A u \in TaskIds : tasks'[u] \in TaskRow \cup {NoRow}
  BY <1>0, TaskRowStep DEF InsertedTask, UpdatedTask, DeletedTask, SameTask
<1>3. DOMAIN events' = Ids /\ events' = [u \in DOMAIN events' |-> events'[u]]
  <2>1. CASE events' = events
    BY <1>0, <2>1
  <2>2. CASE events' # events
    <3>1. PICK r \in Requests :
            createEvent(r) \/ updateEvent(r) \/ deleteEvent(r) \/ deactivateRecurringEvent(r)
            \/ CreateEventAdapter(r) \/ ImportRenamed(r) \/ ImportOverOwn(r) \/ AddImageURL(r)
      BY <1>0, <2>2, Untouched
    <3>2. CASE AddImageURL(r)
      BY <1>0, <3>2, AddEffect DEF AddEventImageURLIfCapacity
    <3>3. CASE CreateEventAdapter(r)
      BY <1>0, <3>3, AdapterEffect DEF Writes, CreateEvent
    <3>4. CASE createEvent(r) \/ updateEvent(r) \/ deleteEvent(r) \/ deactivateRecurringEvent(r)
               \/ ImportRenamed(r) \/ ImportOverOwn(r)
      <4>1. \/ \E row : Writes(r, events, events', CreateEvent(events, r, row))
            \/ \E row : Writes(r, events, events', UpdateEvent(events, request[r].id, row))
            \/ Writes(r, events, events', DeleteEvent(events, request[r].id))
            \/ Writes(r, events, events', DeactivateRecurringEvent(events, request[r].id))
        BY <1>0, <3>4, EventWriteEffect
      <4> QED BY <1>0, <4>1 DEF Writes, CreateEvent, UpdateEvent, DeleteEvent,
              DeactivateRecurringEvent
    <3> QED BY <3>1, <3>2, <3>3, <3>4
  <2> QED BY <2>1, <2>2
<1>4. DOMAIN tasks' = TaskIds /\ tasks' = [u \in DOMAIN tasks' |-> tasks'[u]]
  <2>1. CASE tasks' = tasks
    BY <1>0, <2>1
  <2>2. CASE tasks' # tasks
    <3>1. PICK r \in Requests : createTask(r) \/ updateTask(r) \/ deleteTask(r)
      BY <1>0, <2>2, Untouched
    <3>2. \/ \E row : Writes(r, tasks, tasks', CreateTask(tasks, r, row))
          \/ \E row : Writes(r, tasks, tasks', UpdateTask(tasks, request[r].id, row))
          \/ Writes(r, tasks, tasks', DeleteTask(tasks, request[r].id))
      BY <1>0, <3>1, TaskWriteEffect
    <3> QED BY <1>0, <3>2 DEF Writes, CreateTask, UpdateTask, DeleteTask
  <2> QED BY <2>1, <2>2
<1> QED BY <1>1, <1>2, <1>3, <1>4

LEMMA TypeStep == ASSUME Base, [Next]_vars PROVE TypeOK'
<1>0. TypeOK
  BY DEF Base
<1>1. request' \in [Requests -> Request]
  <2>1. CASE Requests = {}
    <3>1. request' = request
      BY <2>1 DEF Next, vars, Crash, Running
    <3> QED BY <1>0, <3>1 DEF TypeOK
  <2> QED BY <2>1, Frame
<1>2. blobs' \subseteq Requests
  <2>1. CASE blobs' = blobs
    BY <1>0, <2>1 DEF TypeOK
  <2>2. CASE blobs' # blobs
    <3>1. PICK r \in Requests : SaveEventImage(r) \/ CleanUp(r)
      BY <1>0, <2>2, Untouched
    <3>2. blobs' \in {blobs, blobs \cup {r}, blobs \ {r}}
      BY <1>0, <3>1, SaveEffect, CleanEffect
    <3> QED BY <1>0, <3>2 DEF TypeOK
  <2> QED BY <2>1, <2>2
<1>3. faults' \in 0 .. MaxFaults
  <2>1. faults' # faults => faults < MaxFaults /\ faults' = faults + 1
    BY <1>0, Untouched
  <2>2. faults \in 0 .. MaxFaults /\ MaxFaults \in Nat
    BY <1>0, SetsAssumption DEF TypeOK
  <2> QED BY <2>1, <2>2
<1> QED BY <1>1, <1>2, <1>3, RowsType DEF TypeOK

LEMMA StageStep == ASSUME Base, [Next]_vars PROVE StageInv'
<1> DEFINE Staged(q, req) ==
  /\ req.op = "none" <=> req.stage = "idle"
  /\ req.op \in {"createEvent", "createTask"} => req.stage \in {"begun", "ended"} /\ req.id = q
  /\ req.op \in {"updateEvent", "deleteEvent"} => req.stage \in {"begun", "read", "ended"} /\ req.id \in Uids
  /\ req.op = "deactivate" => req.stage \in {"begun", "ended"} /\ req.id \in Uids
  /\ req.op = "import" =>
       /\ req.stage \in {"begun", "conflict", "renamed", "own", "ended"}
       /\ req.id \in Uids \cup {q} /\ req.named = {"title", "place"}
  /\ req.op = "upload" => req.stage \in {"begun", "read", "saved", "cleanup", "ended"} /\ req.id \in Uids
  /\ req.op \in TaskWriters => req.stage \in {"begun", "read", "ended"} /\ req.id \in Tasks
  /\ req.stage \notin {"cleanup", "ended"} => req.answer = "none" /\ ~req.wrote
  /\ req.stage = "cleanup" => req.answer \in {"error", "full"}
<1>0. \A q \in Requests : Staged(q, request[q])
  BY DEF Base, StageInv
<1>1. ASSUME NEW q \in Requests PROVE Staged(q, request'[q])
  <2>1. CASE request'[q] = request[q]
    BY <1>0, <2>1
  <2>2. CASE Crashed(q)
    BY <1>0, <2>2 DEF Crashed
  <2>3. CASE Came(q)
    BY <2>3 DEF Came, Fresh, EventWriters, TaskWriters
  <2>4. CASE Handle(q) /\ Handled(q)
    <3>0. Moves(q) /\ Staged(q, request[q]) /\ request[q].stage \notin {"idle", "ended"}
      BY <1>0, <2>4 DEF Handled
    <3>1. CASE Verifies(q) /\ request[q].op \in EventWriters \cup TaskWriters
      BY <3>0, <3>1 DEF Verifies, Moves, EventWriters, TaskWriters
    <3>2. CASE Finishes(q)
      BY <3>0, <3>2 DEF Finishes, Moves
    <3>3. CASE ~Finishes(q) /\ ~(Verifies(q) /\ request[q].op \in EventWriters \cup TaskWriters)
      BY <2>4, <3>0, <3>3 DEF Handled, Waits, Advances, Moves, At, TaskWriters
    <3> HIDE DEF Staged
    <3> QED BY <3>1, <3>2, <3>3
  <2> HIDE DEF Staged
  <2> QED BY <2>1, <2>2, <2>3, <2>4, Frame
<1> QED BY <1>1 DEF StageInv

LEMMA CopyStep == ASSUME Base, [Next]_vars PROVE CopyTypes'
<1> DEFINE Copied(req) ==
  /\ req.stage \in {"read", "saved", "cleanup", "own"} => req.copy # NoRow
  /\ req.op \in EventWriters \cup TaskWriters /\ (req.wrote \/ req.answer = "ok") => req.copy # NoRow
  /\ req.copy # NoRow =>
       /\ req.op \in EventWriters \cup TaskWriters \cup {"import"}
       /\ req.copy.user = req.user
       /\ req.copy \in IF req.op \in TaskWriters THEN TaskRow ELSE EventRow
       /\ req.op = "updateEvent" => ~req.copy.recurring
<1>0. TypeOK /\ \A q \in Requests : Copied(request[q])
  BY DEF Base, CopyTypes
<1>1. ASSUME NEW q \in Requests PROVE Copied(request'[q])
  <2>1. CASE request'[q] = request[q]
    BY <1>0, <2>1
  <2>2. CASE Crashed(q)
    BY <1>0, <2>2 DEF Crashed, Keeps
  <2>3. CASE Came(q)
    BY <2>3 DEF Came, Fresh
  <2>4. CASE Handle(q) /\ Handled(q)
    <3>0. Moves(q) /\ Copied(request[q]) /\ request[q].stage \notin {"idle", "ended"}
      BY <1>0, <2>4 DEF Handled
    <3>1. CASE Verifies(q) /\ request[q].op \in EventWriters \cup TaskWriters
      <4>1. request[q].answer = "none" /\ ~request[q].wrote
        BY <3>0 , <3>1 DEF Verifies, Base, StageInv
      <4>2. request[q].op \in EventOps => request[q].id \in Ids
        BY IdTypes DEF EventOps
      <4>3. request[q].op \in TaskOps => request[q].id \in TaskIds
        BY IdTypes DEF TaskOps
      <4>4. CASE Keeps(q)
        BY <3>0, <3>1, <4>1, <4>4 DEF Verifies, Keeps, Moves
      <4>5. CASE ~Keeps(q)
        <5>1. /\ request'[q].stage = "read" /\ request'[q].answer = request[q].answer
              /\ request'[q].copy # NoRow /\ request'[q].copy.user = request[q].user
              /\ request[q].op \in {"updateEvent", "deleteEvent"} =>
                   request'[q].copy = GetEventByID(events, request[q].id)
              /\ request[q].op = "upload" => request'[q].copy = events[request[q].id]
              /\ request[q].op \in TaskWriters => request'[q].copy = tasks[request[q].id]
          BY <3>1, <4>5 DEF Verifies
        <5>2. request[q].op \in {"updateEvent", "deleteEvent"} =>
                request'[q].copy \in EventRow /\ ~request'[q].copy.recurring
          BY <1>0, <4>2, <5>1, RowsRead DEF EventOps
        <5>3. request[q].op = "upload" => request'[q].copy \in EventRow
          BY <1>0, <4>2, <5>1, RowsRead DEF EventOps
        <5>4. request[q].op \in TaskWriters => request'[q].copy \in TaskRow
          BY <1>0, <4>3, <5>1, RowsRead DEF TaskOps, TaskWriters, GetTaskByID
        <5> QED BY <3>0, <3>1, <5>1, <5>2, <5>3, <5>4 DEF Moves, EventWriters, TaskWriters
      <4> QED BY <4>4, <4>5
    <3>2. CASE Finishes(q)
      <4>1. request[q].stage \in {"read", "saved"}
            \/ request[q].op \notin EventWriters \cup TaskWriters
        BY <3>2 DEF Finishes, Base, StageInv, EventWriters, TaskWriters
      <4> QED BY <3>0, <3>2, <4>1 DEF Finishes, Keeps, Moves
    <3>3. CASE Advances(q, "import", "conflict", "own")
      <4>1. request[q].op = "import" /\ ~request[q].wrote /\ request[q].answer = "none"
        BY <3>3 DEF Advances, At, Base, StageInv
      <4>2. /\ request'[q].copy \in EventRow /\ request'[q].copy # NoRow
            /\ request'[q].copy.user = request[q].user
        BY <2>4, <3>3 DEF Handled, Verifies, Finishes, Advances, At
      <4> QED BY <3>0, <4>1, <4>2 DEF Moves, EventWriters, TaskWriters
    <3>4. CASE Keeps(q) /\ ~Finishes(q)
               /\ ~(Verifies(q) /\ request[q].op \in EventWriters \cup TaskWriters)
      <4>1. request[q].stage \in {"read", "saved", "cleanup"} \/ request[q].op = "import"
        BY <2>4, <3>4 DEF Handled, Advances, At
      <4>2. request'[q].stage \in {"saved", "cleanup"} => request[q].op = "upload"
        BY <2>4, <3>4 DEF Handled, Advances, At
      <4>3. request[q].op = "import" => request'[q].stage \notin {"read", "saved", "cleanup", "own"}
            \/ Advances(q, "import", "conflict", "own")
        BY <2>4, <3>4 DEF Handled, Advances, At
      <4> QED BY <3>0, <3>3, <3>4, <4>1, <4>2, <4>3 DEF Keeps, Moves, EventWriters, TaskWriters
    <3>5. (Verifies(q) /\ request[q].op \in EventWriters \cup TaskWriters) \/ Finishes(q)
          \/ Advances(q, "import", "conflict", "own") \/ Keeps(q)
      BY <2>4 DEF Handled, Waits
    <3> HIDE DEF Copied
    <3> QED BY <3>1, <3>2, <3>3, <3>4, <3>5
  <2> HIDE DEF Copied
  <2> QED BY <2>1, <2>2, <2>3, <2>4, Frame
<1> QED BY <1>1 DEF CopyTypes

LEMMA OwnRowStep == ASSUME Base, [Next]_vars PROVE OwnRowInv'
<1> SUFFICES ASSUME NEW r \in Requests, events'[r] # NoRow \/ tasks'[r] # NoRow
             PROVE  request'[r].stage = "ended"
  BY DEF OwnRowInv
<1>1. r \in Ids /\ r \in TaskIds
  BY DEF Ids, TaskIds
<1>2. CASE events[r] # NoRow \/ tasks[r] # NoRow
  BY <1>2, EndedStays DEF Base, OwnRowInv
<1>3. CASE events[r] = NoRow /\ events'[r] # NoRow
  <2>1. PICK q \in Requests : Inserted(q, r)
    BY <1>1, <1>3, EventRowStep, RowAssumption DEF Updated, Deleted, Stopped, Pictured, Same
  <2>2. request[q].op \in {"createEvent", "import"} => request[q].id \in Uids \cup {q}
    BY DEF Base, StageInv
  <2>3. r = q
    BY <2>1, <2>2, SetsAssumption DEF Inserted
  <2> QED BY <2>1, <2>3 DEF Inserted
<1>4. CASE tasks[r] = NoRow /\ tasks'[r] # NoRow
  <2>1. PICK q \in Requests : InsertedTask(q, r)
    BY <1>1, <1>4, TaskRowStep, RowAssumption DEF UpdatedTask, DeletedTask, SameTask
  <2> QED BY <2>1 DEF InsertedTask
<1> QED BY <1>2, <1>3, <1>4

LEMMA BaseStep == Base /\ [Next]_vars => Base'
BY TypeStep, StageStep, CopyStep, OwnRowStep DEF Base

LEMMA BaseInit == Init => Base
<1> SUFFICES ASSUME Init PROVE Base
  OBVIOUS
<1>1. Owner \in Users /\ Nobody \in Author
  BY SetsAssumption DEF Author
<1>2. NewEvent(Owner, Nobody, Nobody, TRUE, Nobody) \in EventRow
  BY <1>1 DEF NewEvent, EventRow
<1>3. NewTask(Owner, Nobody, Nobody) \in TaskRow
  BY <1>1 DEF NewTask, TaskRow
<1>4. \A r \in Requests : request[r] = Idle
  BY DEF Init
<1>5. Idle \in Request
  BY <1>1 DEF Idle, Request, Stages, Answers
<1>6. TypeOK
  <2>1. events \in [Ids -> EventRow \cup {NoRow}]
    <3> DEFINE row == NewEvent(Owner, Nobody, Nobody, TRUE, Nobody)
    <3> HIDE DEF row
    <3> QED BY <1>2 DEF Init, row
  <2>2. tasks \in [TaskIds -> TaskRow \cup {NoRow}]
    <3> DEFINE row == NewTask(Owner, Nobody, Nobody)
    <3> HIDE DEF row
    <3> QED BY <1>3 DEF Init, row
  <2>3. request \in [Requests -> Request] /\ blobs \subseteq Requests /\ faults \in 0 .. MaxFaults
    BY <1>5, SetsAssumption DEF Init
  <2> QED BY <2>1, <2>2, <2>3 DEF TypeOK
<1>7. StageInv
  BY <1>4 DEF StageInv, Idle, TaskWriters
<1>8. CopyTypes
  BY <1>4 DEF CopyTypes, Idle
<1>9. OwnRowInv
  BY SetsAssumption DEF OwnRowInv, Init, Ids, TaskIds
<1> QED BY <1>6, <1>7, <1>8, <1>9 DEF Base

\* Every step keeps the tables, the images and the requests of their types,
\* whatever row a handler writes and whichever copy it made it from.
THEOREM TypeCorrect == Spec => []TypeOK
<1>1. Base => TypeOK
  BY DEF Base
<1> QED BY <1>1, BaseInit, BaseStep, PTL DEF Spec

-----------------------------------------------------------------------------
(* A row that was read and the row that is there.                          *)

\* What a handler has just read, in a step that writes nothing.
JustRead(q) ==
  /\ request[q].stage \in {"begun", "conflict"} /\ request'[q].stage \in {"read", "own"}
  /\ UNCHANGED <<events, tasks>> /\ request'[q].saw = Ended
  /\ request[q].op \in EventWriters \cup {"import"} =>
       /\ request[q].id \in Ids /\ events[request[q].id] # NoRow
       /\ request'[q].copy.user = events[request[q].id].user
       /\ request'[q].copy.born = events[request[q].id].born
       /\ request'[q].copy.title = events[request[q].id].title
       /\ request'[q].copy.place = events[request[q].id].place
  /\ request[q].op \in TaskWriters =>
       request[q].id \in Tasks /\ request'[q].copy = tasks[request[q].id]

LEMMA CopyOrigin ==
    ASSUME Base, [Next]_vars, NEW q \in Requests, request'[q].copy # NoRow
    PROVE  /\ request[q].stage # "idle"
           /\ request[q].op \in EventWriters \cup TaskWriters \cup {"import"}
           /\ Keeps(q) \/ JustRead(q)
<1>0. TypeOK
  BY DEF Base
<1>1. request'[q] = request[q] \/ Crashed(q) \/ (Handle(q) /\ Handled(q))
  BY Frame DEF Came, Fresh
<1>2. \/ Keeps(q)
      \/ Verifies(q) /\ request[q].op \in EventWriters \cup TaskWriters
      \/ Handle(q) /\ Advances(q, "import", "conflict", "own")
  <2>1. CASE request'[q] = request[q] \/ Crashed(q)
    BY <2>1 DEF Crashed, Keeps
  <2>2. CASE Handle(q) /\ Handled(q)
    BY <2>2 DEF Handled, Finishes, Waits
  <2> QED BY <1>1, <2>1, <2>2
<1>3. CASE Keeps(q)
  <2>1. request[q].copy # NoRow
    BY <1>3 DEF Keeps
  <2> QED BY <1>3, <2>1 DEF Base, CopyTypes, StageInv, EventWriters, TaskWriters
<1>4. CASE Verifies(q) /\ request[q].op \in EventWriters \cup TaskWriters /\ ~Keeps(q)
  <2>1. /\ request[q].stage = "begun" /\ request'[q].stage = "read" /\ request'[q].saw = Ended
        /\ UNCHANGED <<events, tasks, blobs>>
        /\ request[q].op \in {"updateEvent", "deleteEvent"} =>
             request'[q].copy = GetEventByID(events, request[q].id)
        /\ request[q].op = "upload" => request'[q].copy = events[request[q].id]
        /\ request[q].op \in TaskWriters => request'[q].copy = tasks[request[q].id]
    BY <1>4 DEF Verifies
  <2>2. /\ request[q].op \in EventWriters => request[q].id \in Ids
        /\ request[q].op \in TaskWriters => request[q].id \in Tasks
    BY IdTypes DEF EventOps, EventWriters, TaskWriters, Base, StageInv
  <2> QED BY <1>0, <1>4, <2>1, <2>2, RowsRead DEF JustRead, EventWriters, TaskWriters
<1>5. CASE Handle(q) /\ Advances(q, "import", "conflict", "own")
  <2>1. resolveDuplicateEvent(q)
    BY <1>5, HandlerOf DEF Advances
  <2>2. /\ At(q, "import", "conflict") /\ UNCHANGED <<events, tasks>>
        /\ request'[q].copy = GetEventByID(events, request[q].id) /\ request'[q].saw = Ended
    BY <1>5, <2>1, ResolveEffect DEF Advances
  <2>3. request[q].id \in Ids
    BY <2>2, IdTypes DEF At, EventOps
  <2> QED BY <1>0, <1>5, <2>2, <2>3, RowsRead DEF JustRead, At, Advances, TaskWriters, EventWriters
<1> QED BY <1>2, <1>3, <1>4, <1>5

EventCopy(q) == request[q].copy # NoRow /\ request[q].op \notin TaskWriters

\* A row is known by who inserted it, and that request is over: nobody can yet
\* have read a row that is only going to be inserted.
BornInv ==
  /\ \A u \in Ids : events[u] # NoRow /\ events[u].born \in Requests =>
       request[events[u].born].stage = "ended"
  /\ \A q \in Requests : EventCopy(q) /\ request[q].copy.born \in Requests =>
       request[request[q].copy.born].stage = "ended"
  /\ \A q \in Requests : EventCopy(q) /\ StillThere(q, events) =>
       events[request[q].id].user = request[q].user

\* A task's id is never taken by another task.
TaskInv == \A q \in Requests :
  /\ request[q].op \in TaskWriters /\ request[q].copy # NoRow
       /\ tasks[request[q].id] # NoRow =>
            /\ tasks[request[q].id].born = request[q].copy.born
            /\ tasks[request[q].id].user = request[q].user
  /\ Answered(q, "deleteTask") => tasks[request[q].id] = NoRow

\* A row that was read and is there after a step was there before it.
LEMMA StillStays ==
    ASSUME Base, BornInv, [Next]_vars, NEW q \in Requests, EventCopy(q), Keeps(q),
           StillThere(q, events)'
    PROVE  /\ StillThere(q, events) /\ request'[q].id = request[q].id
           /\ request[q].id \in Ids
           /\ events'[request[q].id].user = events[request[q].id].user
<1> DEFINE u == request[q].id
<1>1. request[q].stage # "idle" /\ u \in Ids
  BY IdTypes DEF EventCopy, Base, CopyTypes, StageInv, EventWriters, EventOps
<1>2. request'[q].id = u /\ request'[q].copy = request[q].copy
  BY <1>1, SentStays DEF Keeps
<1>3. events'[u] # NoRow /\ events'[u].born = request[q].copy.born
  BY <1>2 DEF StillThere
<1>4. CASE events'[u] = events[u]
  BY <1>1, <1>2, <1>3, <1>4 DEF StillThere
<1>5. CASE events'[u] # events[u]
  <2>1. PICK r \in Requests : \/ Inserted(r, u) \/ Updated(r, u) \/ Deleted(r, u)
                              \/ Stopped(r, u) \/ Pictured(r, u)
    BY <1>1, <1>5, EventRowStep
  <2>2. ~Inserted(r, u)
    <3>1. SUFFICES ASSUME Inserted(r, u) PROVE FALSE
      OBVIOUS
    <3>2. request[q].copy.born = r /\ request[r].stage # "ended"
      BY <1>3, <3>1 DEF Inserted
    <3> QED BY <3>2 DEF BornInv
  <2>3. Same(u)
    BY <1>3, <2>1, <2>2 DEF Updated, Deleted, Stopped, Pictured
  <2> QED BY <1>1, <1>2, <1>3, <2>3, RowAssumption DEF Same, StillThere
<1> QED BY <1>4, <1>5

LEMMA BornStep == ASSUME Base, BornInv, [Next]_vars PROVE BornInv'
<1>0. Base'
  BY BaseStep
<1>1. ASSUME NEW u \in Ids, events'[u] # NoRow, events'[u].born \in Requests
      PROVE  request'[events'[u].born].stage = "ended"
  <2>1. CASE events[u] # NoRow /\ events'[u].born = events[u].born
    BY <1>1, <2>1, EndedStays DEF BornInv
  <2>2. CASE ~(events[u] # NoRow /\ events'[u].born = events[u].born)
    <3>1. PICK r \in Requests : Inserted(r, u)
      BY <1>1, <2>2, EventRowStep, RowAssumption DEF Updated, Deleted, Stopped, Pictured, Same
    <3> QED BY <3>1 DEF Inserted
  <2> QED BY <2>1, <2>2
<1>2. ASSUME NEW q \in Requests, EventCopy(q)'
      PROVE  /\ request'[q].copy # NoRow /\ request[q].op \in EventWriters \cup {"import"}
             /\ request'[q].op = request[q].op /\ request'[q].id = request[q].id
             /\ request'[q].user = request[q].user
             /\ (Keeps(q) /\ EventCopy(q)) \/ JustRead(q)
  <2>1. request'[q].copy # NoRow /\ request'[q].op \notin TaskWriters
    BY <1>2 DEF EventCopy
  <2>2. request[q].stage # "idle" /\ (Keeps(q) \/ JustRead(q))
        /\ request[q].op \in EventWriters \cup TaskWriters \cup {"import"}
    BY <2>1, CopyOrigin
  <2> QED BY <2>1, <2>2, SentStays DEF EventCopy, Keeps
<1>3. ASSUME NEW q \in Requests, EventCopy(q)', request'[q].copy.born \in Requests
      PROVE  request'[request'[q].copy.born].stage = "ended"
  <2>1. CASE Keeps(q) /\ EventCopy(q)
    BY <1>3, <2>1, EndedStays DEF BornInv, Keeps
  <2>2. CASE JustRead(q)
    BY <1>2, <1>3, <2>2, EndedStays DEF BornInv, JustRead
  <2> QED BY <1>2, <1>3, <2>1, <2>2
<1>4. ASSUME NEW q \in Requests, EventCopy(q)', StillThere(q, events)'
      PROVE  events'[request'[q].id].user = request'[q].user
  <2>1. CASE Keeps(q) /\ EventCopy(q)
    BY <1>2, <1>4, <2>1, StillStays DEF BornInv
  <2>2. CASE JustRead(q)
    <3>1. events' = events /\ request'[q].copy.user = events[request[q].id].user
      BY <1>2, <1>4, <2>2 DEF JustRead
    <3>2. request'[q].copy.user = request'[q].user
      BY <1>0, <1>2, <1>4 DEF Base, CopyTypes
    <3> QED BY <1>2, <1>4, <3>1, <3>2
  <2> QED BY <1>2, <1>4, <2>1, <2>2
<1> QED BY <1>1, <1>3, <1>4 DEF BornInv

LEMMA BornInit == Init => BornInv
<1> SUFFICES ASSUME Init PROVE BornInv
  OBVIOUS
<1>1. \A q \in Requests : request[q].copy = NoRow
  BY DEF Init, Idle
<1>2. \A u \in Ids : events[u] # NoRow => events[u].born = Nobody
  BY DEF Init, NewEvent
<1> QED BY <1>1, <1>2, SetsAssumption DEF BornInv, EventCopy

LEMMA TaskStep == ASSUME Base, TaskInv, [Next]_vars PROVE TaskInv'
<1>0. TypeOK /\ Base'
  BY BaseStep DEF Base
<1>1. ASSUME NEW u \in Tasks, tasks'[u] # tasks[u]
      PROVE  tasks'[u] = NoRow \/ SameTask(u)
  <2>1. u \in TaskIds
    BY DEF TaskIds
  <2>2. PICK r \in Requests : InsertedTask(r, u) \/ UpdatedTask(r, u) \/ DeletedTask(r, u)
    BY <1>1, <2>1, TaskRowStep
  <2>3. ~InsertedTask(r, u)
    BY SetsAssumption DEF InsertedTask
  <2> QED BY <2>2, <2>3 DEF UpdatedTask, DeletedTask
<1>2. ASSUME NEW q \in Requests, request'[q].op \in TaskWriters, request'[q].copy # NoRow,
             tasks'[request'[q].id] # NoRow
      PROVE  /\ tasks'[request'[q].id].born = request'[q].copy.born
             /\ tasks'[request'[q].id].user = request'[q].user
  <2>1. /\ request'[q].op = request[q].op /\ request'[q].id = request[q].id
        /\ request'[q].user = request[q].user /\ (Keeps(q) \/ JustRead(q))
    BY <1>2, CopyOrigin, SentStays
  <2>2. request[q].id \in Tasks
    BY <1>2, <2>1 DEF Base, StageInv
  <2>3. CASE JustRead(q)
    <3>1. request'[q].copy = tasks'[request'[q].id]
      BY <1>2, <2>1, <2>3 DEF JustRead
    <3>2. request'[q].copy.user = request'[q].user
      BY <1>0, <1>2 DEF Base, CopyTypes
    <3> QED BY <3>1, <3>2
  <2>4. CASE Keeps(q)
    <3>1. request'[q].copy = request[q].copy
      BY <2>4 DEF Keeps
    <3>2. CASE tasks'[request[q].id] = tasks[request[q].id]
      BY <1>2, <2>1, <3>1, <3>2 DEF TaskInv
    <3>3. CASE tasks'[request[q].id] # tasks[request[q].id]
      <4>1. SameTask(request[q].id)
        BY <1>1, <1>2, <2>1, <2>2, <3>3
      <4>2. tasks[request[q].id] # NoRow
        BY <4>1, RowAssumption DEF SameTask
      <4> QED BY <1>2, <2>1, <3>1, <4>1, <4>2 DEF TaskInv, SameTask
    <3> QED BY <3>2, <3>3
  <2> QED BY <2>1, <2>3, <2>4
<1>3. ASSUME NEW q \in Requests, Answered(q, "deleteTask")'
      PROVE  tasks'[request'[q].id] = NoRow
  <2>1. request'[q].op = "deleteTask" /\ request'[q].stage = "ended" /\ request'[q].answer = "ok"
    BY <1>3 DEF Answered
  <2>2. CASE request[q].stage = "ended"
    <3>1. request'[q] = request[q] /\ Answered(q, "deleteTask") /\ request[q].id \in Tasks
      BY <2>1, <2>2, EndedStays DEF Answered, Base, StageInv, TaskWriters
    <3>2. tasks[request[q].id] = NoRow
      BY <3>1 DEF TaskInv
    <3> QED BY <1>1, <3>1, <3>2, RowAssumption DEF SameTask
  <2>3. CASE request[q].stage # "ended"
    <3>1. Handle(q) /\ Handled(q) /\ Moves(q)
      BY <2>1, <2>3, Frame DEF Crashed, Came, Fresh, Handled
    <3>2. request[q].op = "deleteTask" /\ request'[q].id = request[q].id
      BY <2>1, <3>1 DEF Moves
    <3>3. Finishes(q)
      BY <2>1, <3>1, <3>2 DEF Handled, Verifies, Waits, Advances, At
    <3>4. At(q, "deleteTask", "read") /\ request'[q].wrote
      BY <2>1, <3>2, <3>3 DEF Finishes, Base, StageInv, At, TaskWriters
    <3>5. deleteTask(q) /\ tasks' = DeleteTask(tasks, request[q].id)
      BY <1>0, <3>1, <3>4, HandlerOf, TaskWriteEffect DEF Writes
    <3>6. request[q].id \in TaskIds
      BY <3>2, IdTypes DEF TaskOps
    <3> QED BY <1>0, <3>2, <3>5, <3>6 DEF DeleteTask, TypeOK
  <2> QED BY <2>2, <2>3
<1> QED BY <1>2, <1>3 DEF TaskInv

LEMMA TaskInit == Init => TaskInv
BY DEF Init, Idle, TaskInv, Answered, TaskWriters

Known == Base /\ BornInv /\ TaskInv

LEMMA KnownInit == Init => Known
BY BaseInit, BornInit, TaskInit DEF Known

LEMMA KnownStep == Known /\ [Next]_vars => Known'
BY BaseStep, BornStep, TaskStep DEF Known

LEMMA OwnersStep ==
    ASSUME Known, [Next]_vars
    PROVE  /\ \A id \in Ids : events[id] # NoRow /\ events'[id] # events[id] =>
                \E r \in Requests :
                  /\ request'[r] # request[r]
                  /\ \/ request[r].user = events[id].user
                     \/ request[r].op = "deactivate"
                     \/ request[r].copy # NoRow /\ request[r].copy.born # events[id].born
           /\ \A id \in TaskIds : tasks[id] # NoRow /\ tasks'[id] # tasks[id] =>
                \E r \in Requests : request'[r] # request[r] /\ request[r].user = tasks[id].user
<1>0. Base /\ BornInv /\ TaskInv
  BY DEF Known
<1>1. ASSUME NEW id \in Ids, events[id] # NoRow, events'[id] # events[id]
      PROVE  \E r \in Requests :
               /\ request'[r] # request[r]
               /\ \/ request[r].user = events[id].user
                  \/ request[r].op = "deactivate"
                  \/ request[r].copy # NoRow /\ request[r].copy.born # events[id].born
  <2>1. PICK r \in Requests : Updated(r, id) \/ Deleted(r, id) \/ Stopped(r, id) \/ Pictured(r, id)
    BY <1>0, <1>1, EventRowStep DEF Inserted
  <2>2. request'[r] # request[r] /\ id = request[r].id
    BY <2>1 DEF Updated, Deleted, Stopped, Pictured, At
  <2>3. CASE Stopped(r, id)
    BY <2>2, <2>3 DEF Stopped, At
  <2>4. CASE Updated(r, id) \/ Deleted(r, id) \/ Pictured(r, id)
    <3>1. EventCopy(r)
      BY <1>0, <2>4 DEF Updated, Deleted, Pictured, At, Base, CopyTypes, EventCopy, TaskWriters
    <3>2. request[r].copy.born = events[id].born => events[id].user = request[r].user
      BY <1>0, <1>1, <2>2, <3>1 DEF BornInv, StillThere
    <3> QED BY <2>2, <3>1, <3>2 DEF EventCopy
  <2> QED BY <2>1, <2>3, <2>4
<1>2. ASSUME NEW id \in TaskIds, tasks[id] # NoRow, tasks'[id] # tasks[id]
      PROVE  \E r \in Requests : request'[r] # request[r] /\ request[r].user = tasks[id].user
  <2>1. PICK r \in Requests : UpdatedTask(r, id) \/ DeletedTask(r, id)
    BY <1>0, <1>2, TaskRowStep DEF InsertedTask
  <2>2. /\ request'[r] # request[r] /\ id = request[r].id
        /\ request[r].op \in TaskWriters /\ request[r].copy # NoRow
    BY <1>0, <2>1 DEF UpdatedTask, DeletedTask, At, Base, CopyTypes, TaskWriters
  <2> QED BY <1>0, <1>2, <2>2 DEF TaskInv
<1> QED BY <1>1, <1>2

\* A row changes or disappears only by a request of its own user, by one that
\* ends a series, or by one that verified the owner of a row that has since
\* been replaced: that the handlers verify and write in two steps opens no
\* other way to somebody else's row.
THEOREM OwnersRows == Spec => OwnersRowsOnly
<1>1. Known /\ [Next]_vars =>
        [/\ \A id \in Ids : events[id] # NoRow /\ events'[id] # events[id] =>
              \E r \in Requests : /\ request'[r] # request[r]
                                  /\ \/ request[r].user = events[id].user
                                     \/ request[r].op = "deactivate"
                                     \/ request[r].copy # NoRow /\ request[r].copy.born # events[id].born
         /\ \A id \in TaskIds : tasks[id] # NoRow /\ tasks'[id] # tasks[id] =>
              \E r \in Requests : request'[r] # request[r] /\ request[r].user = tasks[id].user]_vars
  BY OwnersStep
<1> QED BY <1>1, KnownInit, KnownStep, PTL DEF Spec, OwnersRowsOnly

-----------------------------------------------------------------------------
(* What is over stays over.                                                *)

\* A request that is answered in a step: its handler did its last statement.
LEMMA AnsweredNow ==
    ASSUME Base, [Next]_vars, NEW q \in Requests, request[q].stage # "ended",
           request'[q].stage = "ended", request'[q].answer = "ok"
    PROVE  /\ Handle(q) /\ Moves(q) /\ Finishes(q) /\ request'[q].wrote
           /\ request[q].op \in {"updateEvent", "deleteEvent", "updateTask", "deleteTask"} =>
                request[q].stage = "read"
           /\ request[q].op = "deactivate" => request[q].stage = "begun"
           /\ request[q].op = "upload" => request[q].stage \in {"read", "saved"}
<1>1. Handle(q) /\ Handled(q) /\ Moves(q) /\ StageInv
  BY Frame DEF Crashed, Came, Fresh, Handled, Base
<1>2. ~Verifies(q)
  BY DEF Verifies
<1>3. ~Advances(q, "upload", "cleanup", "ended") \/ ~Waits(q)
  BY <1>1 DEF Advances, Waits, At, StageInv
<1>4. Finishes(q)
  BY <1>1, <1>2, <1>3 DEF Handled, Advances
<1> QED BY <1>1, <1>4 DEF Finishes, StageInv, EventWriters, TaskWriters

OverInv ==
  /\ \A r \in Requests : Answered(r, "deleteEvent") => ~StillThere(r, events)
  /\ \A r \in Requests :
       Answered(r, "deactivate") /\ events[request[r].id] # NoRow /\ events[request[r].id].recurring =>
         \E w \in Requests : /\ request[w].op = "updateEvent" /\ request[w].id = request[r].id
                             /\ request[w].wrote /\ "recurring" \in request[w].named

\* What a request has written it has written.
LEMMA WroteStays ==
    ASSUME Base, [Next]_vars, NEW w \in Requests, request[w].wrote
    PROVE  /\ request'[w].wrote /\ request'[w].op = request[w].op
           /\ request'[w].id = request[w].id /\ request'[w].named = request[w].named
           /\ request'[w].saw = request[w].saw
<1>1. request[w].stage \in {"cleanup", "ended"}
  BY DEF Base, StageInv
<1>2. request'[w] = request[w] \/ Crashed(w) \/ Handled(w)
  BY <1>1, Frame DEF Came
<1>3. CASE Handled(w)
  BY <1>1, <1>3 DEF Handled, Verifies, Finishes, Advances, At, Waits, Keeps, Moves
<1> QED BY <1>2, <1>3 DEF Crashed, Keeps

LEMMA OverStep == ASSUME Known, OverInv, [Next]_vars PROVE OverInv'
<1>0. Base /\ BornInv /\ TypeOK
  BY DEF Known, Base
<1>1. ASSUME NEW r \in Requests, Answered(r, "deleteEvent")', StillThere(r, events)' PROVE FALSE
  <2>1. request'[r].op = "deleteEvent" /\ request'[r].stage = "ended" /\ request'[r].answer = "ok"
    BY <1>1 DEF Answered
  <2>2. CASE request[r].stage = "ended"
    <3>1. request'[r] = request[r] /\ Keeps(r) /\ Answered(r, "deleteEvent") /\ EventCopy(r)
      BY <1>0, <2>1, <2>2, EndedStays
         DEF Keeps, Answered, EventCopy, Base, CopyTypes, EventWriters, TaskWriters
    <3> QED BY <1>0, <1>1, <3>1, StillStays DEF OverInv
  <2>3. CASE request[r].stage # "ended"
    <3>1. Handle(r) /\ Moves(r) /\ Finishes(r) /\ request'[r].wrote
      BY <1>0, <2>1, <2>3, AnsweredNow
    <3>2. At(r, "deleteEvent", "read") /\ request'[r].id = request[r].id
      BY <1>0, <2>1, <2>3, <3>1, AnsweredNow DEF Moves, At
    <3>3. deleteEvent(r) /\ events' = DeleteEvent(events, request[r].id)
      BY <1>0, <3>1, <3>2, HandlerOf, EventWriteEffect DEF Writes
    <3>4. request[r].id \in Ids
      BY <1>0, <3>2, IdTypes DEF At, EventOps
    <3>5. events'[request[r].id] = NoRow
      BY <1>0, <3>3, <3>4 DEF DeleteEvent, TypeOK
    <3> QED BY <1>1, <3>2, <3>5 DEF StillThere
  <2> QED BY <2>2, <2>3
<1>2. ASSUME NEW r \in Requests, Answered(r, "deactivate")', events'[request'[r].id] # NoRow,
             events'[request'[r].id].recurring
      PROVE  \E w \in Requests : /\ request'[w].op = "updateEvent" /\ request'[w].id = request'[r].id
                                 /\ request'[w].wrote /\ "recurring" \in request'[w].named
  <2>1. request'[r].op = "deactivate" /\ request'[r].stage = "ended" /\ request'[r].answer = "ok"
    BY <1>2 DEF Answered
  <2>2. CASE request[r].stage = "ended"
    <3>1. request'[r] = request[r] /\ Answered(r, "deactivate") /\ request[r].id \in Uids
      BY <1>0, <2>1, <2>2, EndedStays DEF Answered, Base, StageInv
    <3> DEFINE u == request[r].id
    <3>2. u \in Ids /\ u \notin Requests
      BY <3>1, SetsAssumption DEF Ids
    <3>3. CASE events[u] # NoRow /\ events[u].recurring
      BY <1>0, <3>1, <3>3, WroteStays DEF OverInv
    <3>4. CASE ~(events[u] # NoRow /\ events[u].recurring)
      <4>1. events'[u] # events[u]
        BY <1>2, <3>1, <3>4
      <4>2. PICK q \in Requests : \/ Inserted(q, u) \/ Updated(q, u) \/ Deleted(q, u)
                                  \/ Stopped(q, u) \/ Pictured(q, u)
        BY <1>0, <3>2, <4>1, EventRowStep
      <4>3. ~Inserted(q, u)
        <5>1. Inserted(q, u) => request[q].op = "createEvent" /\ u = request[q].id
          BY <1>2, <3>1, <3>2 DEF Inserted
        <5> QED BY <1>0, <3>2, <5>1 DEF Base, StageInv
      <4>4. ~Deleted(q, u) /\ ~Stopped(q, u)
        BY <1>2, <3>1 DEF Deleted, Stopped
      <4>5. ~Pictured(q, u)
        BY <1>2, <3>1, <3>4, RowAssumption DEF Pictured, Same
      <4>6. Updated(q, u)
        BY <4>2, <4>3, <4>4, <4>5
      <4>7. request[q].op = "updateEvent" /\ "recurring" \in request[q].named
        BY <1>2, <3>1, <4>6 DEF Updated
      <4> QED BY <3>1, <4>6, <4>7 DEF Updated, Moves
    <3> QED BY <3>3, <3>4
  <2>3. CASE request[r].stage # "ended"
    <3>1. Handle(r) /\ Moves(r) /\ Finishes(r) /\ request'[r].wrote
      BY <1>0, <2>1, <2>3, AnsweredNow
    <3>2. At(r, "deactivate", "begun") /\ request'[r].id = request[r].id
      BY <1>0, <2>1, <2>3, <3>1, AnsweredNow DEF Moves, At
    <3>3. deactivateRecurringEvent(r) /\ events' = DeactivateRecurringEvent(events, request[r].id)
      BY <1>0, <3>1, <3>2, HandlerOf, EventWriteEffect DEF Writes
    <3>4. request[r].id \in Ids
      BY <1>0, <3>2, IdTypes DEF At, EventOps
    <3>5. events[request[r].id] \in EventRow
      BY <1>0, <1>2, <3>2, <3>3, <3>4 DEF DeactivateRecurringEvent, TypeOK
    <3>6. events'[request[r].id] = [events[request[r].id] EXCEPT !.recurring = FALSE]
      BY <1>0, <3>3, <3>4, <3>5, RowAssumption DEF DeactivateRecurringEvent, TypeOK
    <3> QED BY <1>2, <3>2, <3>5, <3>6 DEF EventRow
  <2> QED BY <2>2, <2>3
<1> QED BY <1>1, <1>2 DEF OverInv

LEMMA OverGives == ASSUME Known, OverInv PROVE NothingComesBack
<1>1. DeletedForGood
  <2>1. ASSUME NEW r \in Requests, Answered(r, "deleteTask")
        PROVE  request[r].id \notin listTasks(request[r].user, BOOLEAN)
    BY <2>1 DEF Known, TaskInv, listTasks, ListTasks
  <2> QED BY <2>1 DEF DeletedForGood, OverInv
<1>2. EndedSeriesStaysEnded
  BY DEF EndedSeriesStaysEnded, OverInv, listRecurringEvents, GetActiveRecurringEvents,
     ListEventsByUserAndTime, ListEventsByTime
<1> QED BY <1>1, <1>2 DEF NothingComesBack

\* An event or task whose deletion was answered, and a series that was ended,
\* are not brought back by any request that read them before.
THEOREM WhatIsOverStaysOver == Spec => []NothingComesBack
<1>1. Init => OverInv
  <2>1. ASSUME Init, NEW r \in Requests, NEW op PROVE ~Answered(r, op)
    BY <2>1 DEF Init, Idle, Answered
  <2> QED BY <2>1 DEF OverInv
<1>2. OverInv /\ Known /\ [Next]_vars => OverInv'
  BY OverStep
<1>3. OverInv /\ Known => NothingComesBack
  BY OverGives
<1> QED BY <1>1, <1>2, <1>3, KnownInit, KnownStep, PTL DEF Spec

-----------------------------------------------------------------------------
(* The images of an event.                                                 *)

CapInv == \A u \in Ids : events[u] # NoRow =>
  IsFiniteSet(events[u].images) /\ Cardinality(events[u].images) <= MaxImages

LEMMA CapStep == ASSUME Base, CapInv, [Next]_vars PROVE CapInv'
<1>1. ASSUME NEW u \in Ids, events'[u] # NoRow
      PROVE  IsFiniteSet(events'[u].images) /\ Cardinality(events'[u].images) <= MaxImages
  <2>1. CASE events'[u] = events[u]
    BY <1>1, <2>1 DEF CapInv
  <2>2. CASE events'[u] # events[u]
    <3>1. PICK r \in Requests : \/ Inserted(r, u) \/ Updated(r, u) \/ Deleted(r, u)
                                \/ Stopped(r, u) \/ Pictured(r, u)
      BY <2>2, EventRowStep
    <3>2. CASE Inserted(r, u)
      BY <3>2, FS_EmptySet, MaxImagesAssumption DEF Inserted
    <3>3. CASE Updated(r, u) \/ Stopped(r, u)
      <4>1. events'[u].images = events[u].images /\ events[u] # NoRow
        BY <3>3, RowAssumption DEF Updated, Stopped, Same
      <4> QED BY <4>1 DEF CapInv
    <3>4. CASE Pictured(r, u)
      <4>1. /\ events[u] # NoRow /\ Cardinality(events[u].images) < MaxImages
            /\ events'[u].images = events[u].images \cup {r}
        BY <3>4 DEF Pictured, HasCapacity
      <4>2. IsFiniteSet(events[u].images)
        BY <4>1 DEF CapInv
      <4>3. Cardinality(events[u].images) \in Nat
        BY <4>2, FS_CardinalityType
      <4>4. /\ IsFiniteSet(events'[u].images)
            /\ \/ Cardinality(events'[u].images) = Cardinality(events[u].images)
               \/ Cardinality(events'[u].images) = Cardinality(events[u].images) + 1
        BY <4>1, <4>2, FS_AddElement
      <4> QED BY <4>1, <4>3, <4>4, MaxImagesAssumption
    <3> QED BY <1>1, <3>1, <3>2, <3>3, <3>4 DEF Deleted
  <2> QED BY <2>1, <2>2
<1> QED BY <1>1 DEF CapInv

\* However many uploads run at once, no event lists more images than it may:
\* the count and the appending are one statement.
THEOREM ImagesAreCapped == Spec => []ImageCap
<1>1. Init => CapInv
  <2>1. ASSUME Init, NEW u \in Ids, events[u] # NoRow PROVE events[u].images = {}
    BY <2>1 DEF Init, NewEvent
  <2> QED BY <2>1, FS_EmptySet, MaxImagesAssumption DEF CapInv
<1>2. CapInv /\ Base /\ [Next]_vars => CapInv'
  BY CapStep
<1>3. CapInv => ImageCap
  BY FS_EmptySet, MaxImagesAssumption DEF CapInv, ImageCap, GetEventImageURLs
<1> QED BY <1>1, <1>2, <1>3, BaseInit, BaseStep, PTL DEF Spec

\* Where the image of an upload is.
ImageInv == \A r \in Requests :
  /\ request[r].op = "upload" /\ request[r].stage = "saved" => r \in blobs
  /\ Answered(r, "upload") => r \in blobs
  /\ Answered(r, "upload") /\ StillThere(r, events) => r \in events[request[r].id].images
  /\ \A u \in Ids : events[u] # NoRow /\ r \in events[u].images =>
       request[r].wrote /\ request[r].op = "upload"
  /\ request[r].op = "upload" /\ request[r].wrote =>
       r \in blobs \/ (request[r].stage = "ended" /\ request[r].answer = "error")
  /\ request[r].op = "upload" /\ request[r].wrote /\ request[r].stage = "cleanup" =>
       request[r].answer = "error"
  /\ faults = 0 =>
       /\ r \in blobs /\ request[r].op = "upload" =>
            request[r].stage \in {"saved", "cleanup"} \/ Answered(r, "upload")
       /\ r \in blobs => request[r].op = "upload"
       /\ request[r].stage = "cleanup" => ~request[r].late

\* An image is stored by its upload, and removed by its upload in the end.
LEMMA BlobStep ==
    ASSUME Base, [Next]_vars, NEW r \in Requests
    PROVE  /\ r \in blobs' /\ r \notin blobs => SaveEventImage(r)
           /\ r \in blobs /\ r \notin blobs' => CleanUp(r)
<1>0. TypeOK
  BY DEF Base
<1>1. CASE blobs' # blobs
  <2>1. PICK q \in Requests : SaveEventImage(q) \/ CleanUp(q)
    BY <1>0, <1>1, Untouched
  <2>2. CASE SaveEventImage(q)
    BY <1>0, <2>2, SaveEffect
  <2>3. CASE CleanUp(q)
    BY <1>0, <2>3, CleanEffect
  <2> QED BY <2>1, <2>2, <2>3
<1> QED BY <1>1

\* The step of an upload, by its stage.
LEMMA UploadStep ==
    ASSUME Base, [Next]_vars, NEW r \in Requests, request'[r].op = "upload"
    PROVE  \/ request'[r] = request[r]
           \/ Crashed(r) /\ faults' = faults + 1
           \/ request[r].stage = "idle" /\ request'[r].stage = "begun" /\ ~request'[r].wrote
           \/ /\ request[r].stage = "begun" /\ request'[r].stage \in {"read", "ended"}
              /\ request'[r].wrote = request[r].wrote
              /\ request'[r].stage = "ended" => request'[r].answer = "not found"
           \/ SaveEventImage(r) \/ AddImageURL(r) \/ CleanUp(r)
<1>0. TypeOK
  BY DEF Base
<1>1. CASE Crash /\ Crashed(r)
  BY <1>1 DEF Crash
<1>2. CASE Came(r)
  BY <1>2 DEF Came, Fresh
<1>3. CASE Handle(r) /\ Handled(r)
  <2>1. request[r].op = "upload"
    BY <1>3 DEF Handled, Moves
  <2>2. CASE request[r].stage = "begun"
    <3>1. Verifies(r)
      BY <2>1, <2>2, <1>3, HandlerOf, VerifyEffect DEF At
    <3> QED BY <2>2, <3>1 DEF Verifies
  <2>3. request[r].stage \in {"begun", "read", "saved", "cleanup"}
    BY <1>3, <2>1 DEF Base, StageInv, Handled
  <2> QED BY <1>3, <2>1, <2>2, <2>3, HandlerOf DEF At
<1> QED BY <1>1, <1>2, <1>3, Frame

LEMMA ImageStep == ASSUME Base, BornInv, ImageInv, [Next]_vars PROVE ImageInv'
<1> SUFFICES ASSUME NEW r \in Requests
             PROVE
  /\ request'[r].op = "upload" /\ request'[r].stage = "saved" => r \in blobs'
  /\ Answered(r, "upload")' => r \in blobs'
  /\ Answered(r, "upload")' /\ StillThere(r, events)' => r \in events'[request'[r].id].images
  /\ \A u \in Ids : events'[u] # NoRow /\ r \in events'[u].images =>
       request'[r].wrote /\ request'[r].op = "upload"
  /\ request'[r].op = "upload" /\ request'[r].wrote =>
       r \in blobs' \/ (request'[r].stage = "ended" /\ request'[r].answer = "error")
  /\ request'[r].op = "upload" /\ request'[r].wrote /\ request'[r].stage = "cleanup" =>
       request'[r].answer = "error"
  /\ faults' = 0 =>
       /\ r \in blobs' /\ request'[r].op = "upload" =>
            request'[r].stage \in {"saved", "cleanup"} \/ Answered(r, "upload")'
       /\ r \in blobs' => request'[r].op = "upload"
       /\ request'[r].stage = "cleanup" => ~request'[r].late
  BY DEF ImageInv
<1>0. TypeOK /\ StageInv /\ Base' /\ faults \in Nat
  <2>1. TypeOK /\ StageInv /\ Base'
    BY BaseStep DEF Base
  <2> QED BY <2>1, SetsAssumption DEF TypeOK
<1>00. faults' = faults \/ faults' = faults + 1
  BY <1>0, Untouched
\* What each of the steps of an upload says.
<1>1. SaveEventImage(r) =>
        /\ request[r].op = "upload" /\ request[r].stage = "read" /\ ~request[r].wrote
        /\ request'[r].op = "upload" /\ ~request'[r].wrote
        /\ \/ request'[r].stage = "saved" /\ r \in blobs'
           \/ request'[r].stage = "ended" /\ request'[r].answer = "error" /\ faults' > faults
  BY <1>0, SaveEffect DEF At, Moves, StageInv
<1>2. AddImageURL(r) =>
        /\ request[r].op = "upload" /\ request[r].stage = "saved" /\ blobs' = blobs
        /\ request'[r].op = "upload"
        /\ \/ request'[r].stage = "ended" /\ request'[r].answer = "ok"
           \/ /\ request'[r].stage = "cleanup" /\ request'[r].answer = "full"
              /\ ~request'[r].wrote /\ ~request'[r].late
           \/ request'[r].stage = "cleanup" /\ request'[r].answer = "error" /\ faults' > faults
  BY <1>0, AddEffect DEF At, Moves
<1>3. CleanUp(r) =>
        /\ request[r].op = "upload" /\ request[r].stage = "cleanup"
        /\ request'[r].op = "upload" /\ request'[r].stage = "ended"
        /\ request'[r].answer = request[r].answer /\ request'[r].wrote = request[r].wrote
        /\ request[r].answer \in {"error", "full"}
        /\ r \notin blobs' \/ request[r].late \/ faults' > faults
  BY <1>0, CleanEffect DEF At, Moves, StageInv
<1>4. /\ r \in blobs' /\ r \notin blobs => SaveEventImage(r)
      /\ r \in blobs /\ r \notin blobs' => CleanUp(r)
  BY BlobStep
<1>5. request'[r].op = "upload" =>
        \/ request'[r] = request[r]
        \/ /\ faults' = faults + 1 /\ request[r].stage \notin {"idle", "ended"}
           /\ request'[r].stage = "ended" /\ request'[r].answer = "none"
           /\ request'[r].op = request[r].op /\ request'[r].wrote = request[r].wrote
           /\ blobs' = blobs
        \/ request[r].stage = "idle" /\ request'[r].stage = "begun" /\ ~request'[r].wrote
        \/ /\ request[r].stage = "begun" /\ request'[r].stage \in {"read", "ended"}
           /\ ~request'[r].wrote
           /\ request'[r].stage = "ended" => request'[r].answer = "not found"
        \/ SaveEventImage(r) \/ AddImageURL(r) \/ CleanUp(r)
  <2>1. Crashed(r) /\ faults' = faults + 1 => blobs' = blobs
    <3>1. ASSUME Crashed(r), blobs' # blobs PROVE FALSE
      <4>1. Crash \/ Handle(r)
        <5>1. Crash \/ Came(r) \/ Handle(r)
          BY <3>1, Frame DEF Crashed
        <5> QED BY <3>1, <5>1 DEF Came, Crashed
      <4>2. ~Crash
        BY <3>1 DEF Crash
      <4> QED BY <1>0, <3>1, <4>1, <4>2, HandleEffect
              DEF Handled, Crashed, Verifies, Finishes, Advances, At, Waits, StageInv
    <3> QED BY <3>1
  <2> QED BY <1>0, <2>1, UploadStep DEF Crashed, StageInv
<1>6. request'[r].op = "upload" /\ request'[r].stage = "saved" => r \in blobs'
  BY <1>1, <1>2, <1>3, <1>4, <1>5 DEF ImageInv
<1>7. Answered(r, "upload")' => r \in blobs'
  BY <1>1, <1>2, <1>3, <1>4, <1>5 DEF ImageInv, Answered
<1>8. ASSUME Answered(r, "upload")', StillThere(r, events)'
      PROVE  r \in events'[request'[r].id].images
  <2>1. request'[r].op = "upload" /\ request'[r].stage = "ended" /\ request'[r].answer = "ok"
    BY <1>8 DEF Answered
  <2>2. CASE request'[r] = request[r]
    <3>1. Answered(r, "upload") /\ Keeps(r) /\ EventCopy(r)
      BY <1>0, <2>1, <2>2 DEF Answered, Keeps, EventCopy, Base, CopyTypes, EventWriters, TaskWriters
    <3> DEFINE u == request[r].id
    <3>2. StillThere(r, events) /\ u \in Ids
      BY <1>8, <3>1, StillStays
    <3>3. r \in events[u].images
      BY <3>1, <3>2 DEF ImageInv
    <3>4. CASE events'[u] # events[u]
      <4>1. PICK q \in Requests : Updated(q, u) \/ Stopped(q, u) \/ Pictured(q, u)
        BY <1>8, <2>2, <3>2, <3>4, EventRowStep DEF Inserted, Deleted, StillThere
      <4> QED BY <2>2, <3>3, <4>1 DEF Updated, Stopped, Pictured
    <3> QED BY <2>2, <3>3, <3>4
  <2>3. CASE AddImageURL(r)
    <3>1. /\ request'[r].wrote /\ HasCapacity(events, request[r].id)
          /\ request'[r].id = request[r].id
          /\ events' = AddEventImageURLIfCapacity(events, request[r].id, r)
      BY <1>0, <2>1, <2>3, AddEffect DEF Moves
    <3>2. request[r].id \in Ids
      BY <1>2, <2>3, IdTypes DEF EventOps
    <3>3. events[request[r].id] \in EventRow
      BY <1>0, <3>1, <3>2 DEF HasCapacity, TypeOK
    <3>4. events'[request[r].id] = [events[request[r].id] EXCEPT !.images = @ \cup {r}]
      BY <1>0, <3>1, <3>2 DEF AddEventImageURLIfCapacity, TypeOK
    <3> QED BY <3>1, <3>3, <3>4 DEF EventRow
  <2> QED BY <1>1, <1>3, <1>5, <2>1, <2>2, <2>3
<1>9. ASSUME NEW u \in Ids, events'[u] # NoRow, r \in events'[u].images
      PROVE  request'[r].wrote /\ request'[r].op = "upload"
  <2>1. CASE events[u] # NoRow /\ r \in events[u].images
    BY <2>1, WroteStays DEF ImageInv
  <2>2. CASE ~(events[u] # NoRow /\ r \in events[u].images)
    <3>1. PICK q \in Requests : \/ Inserted(q, u) \/ Updated(q, u) \/ Deleted(q, u)
                                \/ Stopped(q, u) \/ Pictured(q, u)
      BY <1>9, <2>2, EventRowStep
    <3>2. Pictured(q, u) /\ q = r
      BY <1>9, <2>2, <3>1, RowAssumption DEF Inserted, Updated, Deleted, Stopped, Pictured, Same
    <3> QED BY <3>2 DEF Pictured, At, Moves
  <2> QED BY <2>1, <2>2
<1>10. request'[r].op = "upload" /\ request'[r].wrote =>
         r \in blobs' \/ (request'[r].stage = "ended" /\ request'[r].answer = "error")
  BY <1>1, <1>2, <1>3, <1>4, <1>5 DEF ImageInv
<1>11. request'[r].op = "upload" /\ request'[r].wrote /\ request'[r].stage = "cleanup" =>
         request'[r].answer = "error"
  BY <1>1, <1>2, <1>3, <1>5 DEF ImageInv
<1>12. ASSUME faults' = 0, r \in blobs' PROVE request'[r].op = "upload"
  <2>1. CASE r \in blobs
    <3>1. request[r].op = "upload" /\ request[r].stage # "idle"
      BY <1>0, <1>00, <1>12, <2>1 DEF ImageInv, StageInv
    <3> QED BY <3>1, SentStays
  <2> QED BY <1>1, <1>4, <1>12, <2>1
<1>13. ASSUME faults' = 0, r \in blobs', request'[r].op = "upload"
       PROVE  request'[r].stage \in {"saved", "cleanup"} \/ Answered(r, "upload")'
  <2>1. faults = 0
    BY <1>0, <1>00, <1>13
  <2>2. /\ r \in blobs => /\ request[r].op = "upload"
                          /\ request[r].stage \in {"saved", "cleanup"} \/ Answered(r, "upload")
        /\ request[r].stage = "cleanup" => ~request[r].late
    BY <2>1 DEF ImageInv
  <2>3. CASE request'[r] = request[r]
    BY <1>0, <1>1, <1>4, <1>13, <2>2, <2>3 DEF Answered
  <2>4. CASE SaveEventImage(r) \/ AddImageURL(r)
    BY <1>1, <1>2, <1>13, <2>1, <2>4 DEF Answered
  <2>5. ~CleanUp(r)
    BY <1>3, <1>13, <2>1, <2>2
  <2>6. request[r].stage \notin {"idle", "begun"} \/ SaveEventImage(r)
    BY <1>0, <1>4, <1>13, <2>2 DEF Answered
  <2>7. faults' # faults + 1
    BY <1>13, <2>1
  <2>8. request'[r] = request[r] \/ SaveEventImage(r) \/ AddImageURL(r)
    BY <1>5, <1>13, <2>5, <2>6, <2>7
  <2> QED BY <2>3, <2>4, <2>8
<1>14. ASSUME faults' = 0, request'[r].stage = "cleanup" PROVE ~request'[r].late
  <2>1. request'[r].op = "upload"
    <3>1. request'[r].op \in EventOps \cup TaskOps \cup {"none"}
      BY <1>0 DEF Base, TypeOK, Request
    <3> QED BY <1>0, <1>14, <3>1 DEF Base, StageInv, EventOps, TaskOps, TaskWriters
  <2>2. faults = 0
    BY <1>0, <1>00, <1>14
  <2> QED BY <1>1, <1>2, <1>3, <1>5, <1>14, <2>1, <2>2 DEF ImageInv
<1> QED BY <1>6, <1>7, <1>8, <1>9, <1>10, <1>11, <1>12, <1>13, <1>14

LEMMA ImageInit == Init => ImageInv
<1>1. ASSUME Init, NEW r \in Requests
      PROVE  request[r].op = "none" /\ request[r].stage = "idle" /\ ~request[r].wrote
  BY <1>1 DEF Init, Idle
<1>2. ASSUME Init, NEW u \in Ids, events[u] # NoRow PROVE events[u].images = {}
  BY <1>2 DEF Init, NewEvent
<1> QED BY <1>1, <1>2 DEF ImageInv, Init, Answered

\* What the client is shown of an event that it read.
LEMMA ShownEvent ==
    ASSUME Known, NEW r \in Requests, EventCopy(r), StillThere(r, events)
    PROVE  LET event == getEvent(request[r].user, request[r].id) IN
           /\ request[r].id \in Ids /\ events[request[r].id] # NoRow
           /\ event # NoRow /\ event.title = events[request[r].id].title
           /\ event.place = events[request[r].id].place
<1>1. request[r].id \in Ids /\ events[request[r].id] # NoRow
  BY IdTypes DEF Known, EventCopy, Base, CopyTypes, StageInv, EventWriters, EventOps, StillThere
<1>2. events[request[r].id].user = request[r].user /\ TypeOK
  BY DEF Known, BornInv, Base
<1> QED BY <1>1, <1>2, RowsRead DEF getEvent

\* An image whose upload was accepted stays in the list of its event and can be
\* served as long as the event is there, whatever requests write meanwhile.
THEOREM AcceptedStay == Spec => []AcceptedImagesStay
<1>1. ImageInv /\ Known => AcceptedImagesStay
  <2> SUFFICES ASSUME ImageInv, Known, NEW r \in Requests, Answered(r, "upload"),
                      StillThere(r, events)
               PROVE  r \in listEventImages(request[r].user, request[r].id) /\ serveEventImage(r)
    BY DEF AcceptedImagesStay
  <2>1. r \in blobs /\ r \in events[request[r].id].images
    BY DEF ImageInv
  <2>2. EventCopy(r)
    BY DEF Known, Base, CopyTypes, Answered, EventCopy, EventWriters, TaskWriters
  <2> QED BY <2>1, <2>2, ShownEvent DEF listEventImages, GetEventImageURLs, serveEventImage
<1>2. ImageInv /\ Known /\ [Next]_vars => ImageInv'
  BY ImageStep DEF Known
<1> QED BY <1>1, <1>2, ImageInit, KnownInit, KnownStep, PTL DEF Spec

\* A URL without an image comes only of a reply that was lost, and an image that
\* nothing lists only of a fault or of the end of its event.
THEOREM DatabasesAgree == Spec => []ImagesAgree
<1>1. ImageInv /\ Known => ImagesAgree
  <2> SUFFICES ASSUME ImageInv, Known, NEW r \in Requests, request[r].op = "upload"
               PROVE  LET listed == \E id \in Ids : r \in GetEventImageURLs(events, id) IN
                      /\ listed => r \in blobs \/ (request[r].wrote /\ request[r].answer = "error")
                      /\ request[r].stage = "ended" /\ r \in blobs /\ ~listed =>
                           faults > 0 \/ (request[r].answer = "ok" /\ ~StillThere(r, events))
    BY DEF ImagesAgree
  <2>1. ASSUME NEW id \in Ids, r \in GetEventImageURLs(events, id)
        PROVE  r \in blobs \/ (request[r].wrote /\ request[r].answer = "error")
    BY <2>1 DEF GetEventImageURLs, ImageInv
  <2>2. ASSUME request[r].stage = "ended", r \in blobs, ~(faults > 0), StillThere(r, events)
        PROVE  \E id \in Ids : r \in GetEventImageURLs(events, id)
    <3>1. faults = 0
      BY <2>2, SetsAssumption DEF Known, Base, TypeOK
    <3>2. Answered(r, "upload")
      BY <2>2, <3>1 DEF ImageInv
    <3>3. r \in events[request[r].id].images /\ events[request[r].id] # NoRow
      BY <2>2, <3>2 DEF ImageInv, StillThere
    <3>4. request[r].id \in Ids
      BY IdTypes DEF Known, EventOps
    <3> QED BY <3>3, <3>4 DEF GetEventImageURLs
  <2>3. ASSUME request[r].stage = "ended", r \in blobs, ~(faults > 0)
        PROVE  request[r].answer = "ok"
    <3>1. faults = 0
      BY <2>3, SetsAssumption DEF Known, Base, TypeOK
    <3> QED BY <2>3, <3>1 DEF ImageInv, Answered
  <2> QED BY <2>1, <2>2, <2>3
<1>2. ImageInv /\ Known /\ [Next]_vars => ImageInv'
  BY ImageStep DEF Known
<1> QED BY <1>1, <1>2, ImageInit, KnownInit, KnownStep, PTL DEF Spec

-----------------------------------------------------------------------------
(* The two databases implement ImageStore.                                 *)

\* A step changes one row at most.
LEMMA OneRow ==
    ASSUME Base, [Next]_vars, events' # events
    PROVE  /\ UNCHANGED blobs
           /\ \E u \in Ids : \A v \in Ids \ {u} : events'[v] = events[v]
<1>0. TypeOK /\ events \in [Ids -> EventRow \cup {NoRow}]
  BY DEF Base, TypeOK
<1>1. PICK r \in Requests :
        createEvent(r) \/ updateEvent(r) \/ deleteEvent(r) \/ deactivateRecurringEvent(r)
        \/ CreateEventAdapter(r) \/ ImportRenamed(r) \/ ImportOverOwn(r) \/ AddImageURL(r)
  BY <1>0, Untouched
<1>2. UNCHANGED blobs
  BY <1>1 DEF createEvent, updateEvent, deleteEvent, deactivateRecurringEvent,
     CreateEventAdapter, ImportRenamed, ImportOverOwn, AddImageURL
<1>3. r \in Ids /\ (request[r].op \in EventOps => request[r].id \in Ids)
  BY IdTypes DEF Ids, EventOps
<1>4. request[r].op \in EventOps
  BY <1>1 DEF createEvent, updateEvent, deleteEvent, deactivateRecurringEvent,
     CreateEventAdapter, ImportRenamed, ImportOverOwn, AddImageURL, At, EventOps
<1>5. \E u \in {r, request[r].id} : \A v \in Ids \ {u} : events'[v] = events[v]
  <2>1. \A row : /\ \A v \in Ids \ {r} : CreateEvent(events, r, row)[v] = events[v]
                 /\ \A v \in Ids \ {request[r].id} :
                      /\ CreateEvent(events, request[r].id, row)[v] = events[v]
                      /\ UpdateEvent(events, request[r].id, row)[v] = events[v]
    BY <1>0 DEF CreateEvent, UpdateEvent
  <2>2. \A v \in Ids \ {request[r].id} :
          /\ DeleteEvent(events, request[r].id)[v] = events[v]
          /\ DeactivateRecurringEvent(events, request[r].id)[v] = events[v]
          /\ AddEventImageURLIfCapacity(events, request[r].id, r)[v] = events[v]
    BY <1>0 DEF DeleteEvent, DeactivateRecurringEvent, AddEventImageURLIfCapacity
  <2>3. CASE createEvent(r) \/ ImportRenamed(r)
    <3>1. \E row : events' \in {events, CreateEvent(events, r, row)}
      BY <2>3 DEF createEvent, ImportRenamed, Result
    <3> QED BY <2>1, <3>1
  <2>4. CASE updateEvent(r) \/ ImportOverOwn(r)
    <3>1. \E row : events' \in {events, UpdateEvent(events, request[r].id, row)}
      BY <2>4 DEF updateEvent, ImportOverOwn, Result
    <3> QED BY <2>1, <3>1
  <2>5. CASE CreateEventAdapter(r)
    <3>1. \E row : events' \in {events, CreateEvent(events, request[r].id, row)}
      BY <2>5 DEF CreateEventAdapter, Result
    <3> QED BY <2>1, <3>1
  <2>6. CASE deleteEvent(r) \/ deactivateRecurringEvent(r) \/ AddImageURL(r)
    <3>1. events' \in {events, DeleteEvent(events, request[r].id),
                      DeactivateRecurringEvent(events, request[r].id),
                      AddEventImageURLIfCapacity(events, request[r].id, r)}
      BY <2>6 DEF deleteEvent, deactivateRecurringEvent, AddImageURL, Result
    <3> QED BY <2>2, <3>1
  <2> QED BY <1>1, <2>3, <2>4, <2>5, <2>6
<1> QED BY <1>2, <1>3, <1>4, <1>5

\* Only AddImageURL accepts an image.
LEMMA AcceptedSame ==
    ASSUME Base, [Next]_vars, \A q \in Requests : ~AddImageURL(q)
    PROVE  Accepted' = Accepted
<1>1. \A q \in Accepted : q \in Accepted'
  BY EndedStays DEF Accepted, Answered
<1>2. ASSUME NEW q \in Accepted', q \notin Accepted
      PROVE  FALSE
  <2>1. /\ q \in Requests /\ request'[q].op = "upload" /\ request'[q].stage = "ended"
        /\ request'[q].answer = "ok"
    BY <1>2 DEF Accepted, Answered
  <2>2. request[q].stage # "ended"
    BY <1>2, <2>1, EndedStays DEF Accepted, Answered
  <2>3. Handle(q) /\ request[q].op = "upload" /\ request[q].stage \in {"read", "saved"}
    BY <2>1, <2>2, AnsweredNow DEF Moves
  <2>4. SaveEventImage(q)
    BY <2>1, <2>3, HandlerOf DEF At
  <2> QED BY <2>1, <2>4, SaveEffect DEF Base
<1>3. Accepted' \subseteq Accepted
  BY <1>2
<1> QED BY <1>1, <1>3

\* The row under one id changes as its event does.
LEMMA AlbumOf ==
    ASSUME Base, Base', NEW u \in Ids, \A v \in Ids \ {u} : events'[v] = events[v]
    PROVE  /\ \A v \in Ids \ {u} : Albums'[v] = Albums[v] /\ (v \in Open' <=> v \in Open)
           /\ Albums' = [Albums EXCEPT ![u] = GetEventImageURLs(events', u)]
<1>1. \A v \in Ids : /\ Albums'[v] = GetEventImageURLs(events', v)
                     /\ Albums[v] = GetEventImageURLs(events, v)
  BY DEF Albums
<1>2. \A v \in Ids \ {u} : Albums'[v] = Albums[v] /\ (v \in Open' <=> v \in Open)
  BY <1>1 DEF GetEventImageURLs, Open
<1>3. Albums' \in [Ids -> {Albums'[v] : v \in Ids}] /\ DOMAIN Albums = Ids
  BY DEF Albums
<1> QED BY <1>1, <1>2 DEF Albums

\* ImageStore counts as CalendarEvents does.
LEMMA SameCount == \A S : Store!Cardinality(S) = Cardinality(S)
BY DEF Store!Cardinality, Cardinality

LEMMA NotListedYet ==
    ASSUME Base, ImageInv, NEW r \in Requests, ~request[r].wrote
    PROVE  ~Store!Listed(r)
  BY DEF Store!Listed, Albums, GetEventImageURLs, ImageInv

\* A row that was changed was inserted, deleted, or given one more image; if not,
\* its images are the same.
LEMMA RowRefines ==
    ASSUME Base, Base', ImageInv, [Next]_vars, UNCHANGED blobs,
           NEW u \in Ids, events'[u] # events[u],
           \A v \in Ids \ {u} : events'[v] = events[v],
           Accepted' = Accepted
    PROVE  [Store!Next]_(Store!imageVars)
<1>1. PICK r \in Requests : \/ Inserted(r, u) \/ Updated(r, u) \/ Deleted(r, u)
                            \/ Stopped(r, u) \/ Pictured(r, u)
  BY EventRowStep
<1>2. /\ \A v \in Ids \ {u} : v \in Open' <=> v \in Open
      /\ Albums' = [Albums EXCEPT ![u] = GetEventImageURLs(events', u)]
      /\ Albums \in [Ids -> {GetEventImageURLs(events, v) : v \in Ids}]
      /\ Albums[u] = GetEventImageURLs(events, u)
      /\ Open \subseteq Ids /\ Open' \subseteq Ids
  BY AlbumOf DEF Albums, Open
<1>3. NoRow \notin EventRow
  BY RowAssumption
<1>4. CASE Inserted(r, u)
  <2>1. u \notin Open /\ u \in Open'
    BY <1>3, <1>4 DEF Inserted, Open
  <2>2. GetEventImageURLs(events', u) = Albums[u]
    BY <1>2, <1>3, <1>4 DEF Inserted, GetEventImageURLs
  <2>3. Albums' = Albums /\ Open' = Open \cup {u}
    BY <1>2, <2>1, <2>2
  <2>4. Store!Open(u)
    BY <2>1, <2>3 DEF Store!Open
  <2> QED BY <2>4 DEF Store!Next
<1>5. CASE Updated(r, u) \/ Stopped(r, u)
  <2>1. u \in Open /\ u \in Open'
    BY <1>3, <1>5 DEF Updated, Stopped, Same, Open
  <2>2. GetEventImageURLs(events', u) = Albums[u]
    BY <1>2, <1>3, <1>5 DEF Updated, Stopped, Same, GetEventImageURLs
  <2>3. Albums' = Albums /\ Open' = Open
    BY <1>2, <2>1, <2>2
  <2> QED BY <2>3 DEF Store!imageVars
<1>6. CASE Deleted(r, u)
  <2>1. u \in Open /\ u \notin Open'
    BY <1>6 DEF Deleted, Open
  <2>2. GetEventImageURLs(events', u) = {}
    BY <1>6 DEF Deleted, GetEventImageURLs
  <2>3. Albums' = [Albums EXCEPT ![u] = {}] /\ Open' = Open \ {u}
    BY <1>2, <2>1, <2>2
  <2>4. Store!Close(u)
    BY <2>1, <2>3 DEF Store!Close
  <2> QED BY <2>4 DEF Store!Next
<1>7. CASE Pictured(r, u)
  <2>1. At(r, "upload", "saved") /\ ~request[r].wrote /\ r \in blobs
    BY <1>7 DEF Pictured, At, Base, StageInv, ImageInv
  <2>2. /\ GetEventImageURLs(events', u) = Albums[u] \cup {r}
        /\ Cardinality(Albums[u]) < MaxImages
        /\ u \in Open /\ u \in Open'
    BY <1>2, <1>3, <1>7 DEF Pictured, Same, HasCapacity, GetEventImageURLs, Open
  <2>3. Albums' = [Albums EXCEPT ![u] = Albums[u] \cup {r}] /\ Open' = Open
    BY <1>2, <2>2
  <2>4. Store!List(u, r)
    <3>1. ~Store!Listed(r)
      BY <2>1, NotListedYet
    <3> QED BY <2>1, <2>2, <2>3, <3>1, SameCount DEF Store!List
  <2> QED BY <2>4 DEF Store!Next
<1> QED BY <1>1, <1>4, <1>5, <1>6, <1>7

\* An image is recorded and accepted in one statement.
LEMMA AddRefines ==
    ASSUME Base, Base', ImageInv, NEW r \in Requests, AddImageURL(r)
    PROVE  [Store!Next]_(Store!imageVars)
<1> DEFINE id == request[r].id
<1>1. /\ At(r, "upload", "saved") /\ UNCHANGED blobs /\ Moves(r)
      /\ request'[r].wrote => HasCapacity(events, id)
      /\ events' = IF request'[r].wrote THEN AddEventImageURLIfCapacity(events, id, r)
                                        ELSE events
      /\ request'[r].answer = "ok" => request'[r].wrote
  BY AddEffect DEF Base
<1>2. id \in Ids /\ ~request[r].wrote /\ r \in blobs
  BY <1>1, IdTypes DEF At, EventOps, Base, StageInv, ImageInv
<1>3. r \notin Accepted /\ \A q \in Requests \ {r} : q \in Accepted' <=> q \in Accepted
  BY <1>1 DEF Accepted, Answered, At, Moves, Others
<1>4. CASE ~request'[r].wrote
  <2>1. Accepted' = Accepted
    BY <1>1, <1>3, <1>4 DEF Accepted, Answered
  <2> QED BY <1>1, <1>4, <2>1 DEF Store!imageVars, Albums, Open
<1>5. CASE request'[r].wrote
  <2>1. Accepted' \in {Accepted, Accepted \cup {r}}
    <3>1. Accepted \subseteq Requests /\ Accepted' \subseteq Requests
      BY DEF Accepted
    <3>2. r \in Accepted' => Accepted' = Accepted \cup {r}
      BY <1>3, <3>1
    <3>3. r \notin Accepted' => Accepted' = Accepted
      BY <1>3, <3>1
    <3> QED BY <3>2, <3>3
  <2>2. /\ HasCapacity(events, id) /\ events[id] # NoRow
        /\ events' = [events EXCEPT ![id].images = events[id].images \cup {r}]
    BY <1>1, <1>5 DEF AddEventImageURLIfCapacity, HasCapacity
  <2>3. events \in [Ids -> EventRow \cup {NoRow}] /\ events[id] \in EventRow
    BY <1>2, <2>2 DEF Base, TypeOK
  <2>4. events'[id].images = events[id].images \cup {r} /\ events'[id] \in EventRow
    BY <1>2, <2>2, <2>3 DEF EventRow
  <2>5. \A v \in Ids \ {id} : events'[v] = events[v]
    BY <2>2, <2>3
  <2>6. events'[id] # NoRow
    BY <2>4, RowAssumption
  <2>7. /\ \A v \in Ids \ {id} : v \in Open' <=> v \in Open
        /\ Albums' = [Albums EXCEPT ![id] = Albums[id] \cup {r}]
        /\ Cardinality(Albums[id]) < MaxImages
        /\ id \in Open /\ id \in Open'
        /\ Open \subseteq Ids /\ Open' \subseteq Ids
    <3>1. GetEventImageURLs(events', id) = Albums[id] \cup {r}
      BY <1>2, <2>2, <2>4, <2>6 DEF GetEventImageURLs, Albums
    <3> QED BY <1>2, <2>2, <2>5, <2>6, <3>1, AlbumOf
            DEF HasCapacity, GetEventImageURLs, Albums, Open
  <2>8. Open' = Open
    BY <2>7
  <2>9. Store!List(id, r)
    <3>1. ~Store!Listed(r)
      BY <1>2, NotListedYet
    <3> QED BY <1>1, <1>2, <2>1, <2>7, <2>8, <3>1, SameCount DEF Store!List
  <2> QED BY <1>2, <2>9 DEF Store!Next
<1> QED BY <1>4, <1>5

LEMMA StoreRefines ==
    Base /\ Base' /\ ImageInv /\ [Next]_vars => [Store!Next]_(Store!imageVars)
<1> SUFFICES ASSUME Base, Base', ImageInv, [Next]_vars
             PROVE  [Store!Next]_(Store!imageVars)
  OBVIOUS
<1>0. TypeOK
  BY DEF Base
<1>1. CASE \E r \in Requests : AddImageURL(r)
  BY <1>1, AddRefines
<1>2. CASE \A r \in Requests : ~AddImageURL(r)
  <2>1. Accepted' = Accepted
    BY <1>2, AcceptedSame
  <2>2. CASE events' # events
    <3>1. PICK u \in Ids : \A v \in Ids \ {u} : events'[v] = events[v]
      BY <2>2, OneRow
    <3>2. events'[u] # events[u]
      BY <2>2, <3>1 DEF Base, TypeOK
    <3> QED BY <2>1, <2>2, <3>1, <3>2, OneRow, RowRefines
  <2>3. ASSUME UNCHANGED events
        PROVE  UNCHANGED <<Open, Albums>>
    BY <2>3 DEF Open, Albums
  <2>4. ASSUME NEW r \in Requests, SaveEventImage(r)
        PROVE  [Store!Next]_(Store!imageVars)
    <3>1. /\ At(r, "upload", "read") /\ UNCHANGED events
          /\ blobs' \in {blobs, blobs \cup {r}}
      BY <1>0, <2>4, SaveEffect
    <3>2. ~Store!Listed(r)
      BY <3>1, NotListedYet DEF At, Base, StageInv
    <3>3. CASE blobs' = blobs \cup {r}
      <4>1. Store!Store(r)
        BY <2>1, <2>3, <3>1, <3>2, <3>3 DEF Store!Store
      <4> QED BY <4>1 DEF Store!Next
    <3>4. CASE blobs' = blobs
      BY <2>1, <2>3, <3>1, <3>4 DEF Store!imageVars
    <3> QED BY <3>1, <3>3, <3>4
  <2>5. ASSUME NEW r \in Requests, CleanUp(r)
        PROVE  [Store!Next]_(Store!imageVars)
    <3>1. /\ At(r, "upload", "cleanup") /\ UNCHANGED events
          /\ blobs' \in {blobs, blobs \ {r}}
      BY <1>0, <2>5, CleanEffect
    <3>2. r \notin Accepted
      BY <3>1 DEF At, Accepted, Answered
    <3>3. CASE blobs' = blobs \ {r}
      <4>1. Store!Discard(r)
        BY <2>1, <2>3, <3>1, <3>2, <3>3 DEF Store!Discard
      <4> QED BY <4>1 DEF Store!Next
    <3>4. CASE blobs' = blobs
      BY <2>1, <2>3, <3>1, <3>4 DEF Store!imageVars
    <3> QED BY <3>1, <3>3, <3>4
  <2>6. CASE UNCHANGED <<events, blobs>>
    BY <2>1, <2>3, <2>6 DEF Store!imageVars
  <2> QED BY <1>0, <2>2, <2>4, <2>5, <2>6, Untouched
<1> QED BY <1>1, <1>2

\* PostgreSQL and MongoDB keep what ImageStore promises, however uploads, updates,
\* deletions and imports interleave and whatever calls fail.
THEOREM ImplementsStore == Spec => ImplementsImageStore
<1>1. Init => Store!Init
  <2> SUFFICES ASSUME Init PROVE Store!Init
    OBVIOUS
  <2>1. \A id \in Ids : GetEventImageURLs(events, id) = {}
    BY DEF Init, GetEventImageURLs, NewEvent
  <2>2. Albums = [id \in Ids |-> {}]
    BY <2>1 DEF Albums
  <2> QED BY <2>2 DEF Init, Store!Init, Open, Accepted, Answered, Idle
<1>2. ImageInv /\ Known /\ [Next]_vars => ImageInv'
  BY ImageStep DEF Known
<1>3. Spec => [](ImageInv /\ Base)
  <2>1. Known => Base
    BY DEF Known
  <2> QED BY <1>2, <2>1, ImageInit, KnownInit, KnownStep, PTL DEF Spec
<1> QED BY <1>1, <1>3, StoreRefines, PTL DEF Spec, ImplementsImageStore, Store!Spec

-----------------------------------------------------------------------------
(* Which updates are lost.                                                 *)

Overwritten(r, field) == Overwriters(r, field) # {}

\* What r answered that it wrote is there, or others have written over it; and
\* so it is with every copy that was read after r was over.
EventsKept == \A r \in Requests : Answered(r, "updateEvent") /\ StillThere(r, events) =>
  /\ "title" \in request[r].named =>
       events[request[r].id].title = r \/ Overwritten(r, "title")
  /\ "place" \in request[r].named =>
       events[request[r].id].place = r \/ Overwritten(r, "place")
EventsSeen == \A r, q \in Requests :
  /\ Answered(r, "updateEvent") /\ StillThere(r, events)
  /\ EventCopy(q) /\ request[q].id = request[r].id /\ r \in request[q].saw
  => /\ "title" \in request[r].named =>
          request[q].copy.title = r \/ Overwritten(r, "title")
     /\ "place" \in request[r].named =>
          request[q].copy.place = r \/ Overwritten(r, "place")
TasksKept == \A r \in Requests :
  /\ Answered(r, "updateTask") /\ "title" \in request[r].named /\ tasks[request[r].id] # NoRow
  => tasks[request[r].id].title = r \/ Overwritten(r, "title")
TasksSeen == \A r, q \in Requests :
  /\ Answered(r, "updateTask") /\ "title" \in request[r].named /\ tasks[request[r].id] # NoRow
  /\ request[q].op \in TaskWriters /\ request[q].copy # NoRow
  /\ request[q].id = request[r].id /\ r \in request[q].saw
  => request[q].copy.title = r \/ Overwritten(r, "title")
SawInv == \A q \in Requests : \A r \in request[q].saw : r \in Requests /\ request[r].stage = "ended"

LostInv == SawInv /\ EventsKept /\ EventsSeen /\ TasksKept /\ TasksSeen

LEMMA SawStep == ASSUME Base, SawInv, [Next]_vars PROVE SawInv'
<1>1. ASSUME NEW q \in Requests PROVE request'[q].saw = request[q].saw \/ request'[q].saw = Ended
  <2>1. CASE Came(q)
    BY <2>1 DEF Came, Fresh
  <2>2. CASE Handled(q)
    BY <2>2 DEF Handled, Verifies, Finishes, Waits, Keeps
  <2> QED BY <2>1, <2>2, Frame DEF Crashed, Keeps
<1>2. ASSUME NEW q \in Requests, NEW r \in request'[q].saw
      PROVE  r \in Requests /\ request'[r].stage = "ended"
  <2>1. r \in Requests /\ request[r].stage = "ended"
    BY <1>1 DEF SawInv, Ended
  <2> QED BY <2>1, EndedStays
<1> QED BY <1>2 DEF SawInv

LEMMA OverwrittenStays ==
    ASSUME Base, [Next]_vars, NEW r \in Requests, request'[r] = request[r], NEW field,
           Overwritten(r, field)
    PROVE  Overwritten(r, field)'
<1>1. PICK w \in Requests \ {r} : /\ request[w].id = request[r].id /\ request[w].wrote
                                  /\ field \in request[w].named \/ r \notin request[w].saw
  BY DEF Overwritten, Overwriters
<1>2. /\ request'[w].id = request'[r].id /\ request'[w].wrote
      /\ field \in request'[w].named \/ r \notin request'[w].saw
  BY <1>1, WroteStays
<1> QED BY <1>1, <1>2 DEF Overwritten, Overwriters

LEMMA Overwrites ==
    ASSUME NEW r \in Requests, NEW q \in Requests \ {r}, NEW field, request'[r] = request[r],
           Moves(q), Keeps(q), request'[q].wrote, request[q].id = request[r].id,
           field \in request[q].named \/ r \notin request[q].saw
    PROVE  Overwritten(r, field)'
BY DEF Overwritten, Overwriters, Moves, Keeps

LEMMA EventsKeptStep == ASSUME Known, LostInv, [Next]_vars PROVE EventsKept'
<1>0. Base /\ BornInv /\ TypeOK /\ EventsKept /\ EventsSeen
  BY DEF Known, Base, LostInv
<1> SUFFICES ASSUME NEW r \in Requests, Answered(r, "updateEvent")', StillThere(r, events)'
             PROVE  /\ "title" \in request'[r].named =>
                         events'[request'[r].id].title = r \/ Overwritten(r, "title")'
                    /\ "place" \in request'[r].named =>
                         events'[request'[r].id].place = r \/ Overwritten(r, "place")'
  BY DEF EventsKept
<1>1. /\ request'[r].op = "updateEvent" /\ request'[r].stage = "ended" /\ request'[r].answer = "ok"
      /\ events'[request'[r].id] # NoRow
  BY DEF Answered, StillThere
<1>2. CASE request[r].stage = "ended"
  <2>1. /\ request'[r] = request[r] /\ Keeps(r) /\ Answered(r, "updateEvent") /\ EventCopy(r)
    BY <1>0, <1>1, <1>2, EndedStays
       DEF Keeps, Answered, EventCopy, Base, CopyTypes, EventWriters, TaskWriters
  <2>2. StillThere(r, events) /\ request[r].id \in Ids
    BY <1>0, <2>1, StillStays
  <2> DEFINE u == request[r].id
  <2>3. /\ "title" \in request[r].named => events[u].title = r \/ Overwritten(r, "title")'
        /\ "place" \in request[r].named => events[u].place = r \/ Overwritten(r, "place")'
    BY <1>0, <2>1, <2>2, OverwrittenStays DEF EventsKept
  <2>4. CASE events'[u] = events[u]
    BY <2>1, <2>3, <2>4
  <2>5. CASE events'[u] # events[u]
    <3>1. PICK q \in Requests : Updated(q, u) \/ Stopped(q, u) \/ Pictured(q, u)
      BY <1>0, <1>1, <2>1, <2>2, <2>5, EventRowStep DEF Inserted, Deleted, StillThere
    <3>2. CASE Stopped(q, u) \/ Pictured(q, u)
      BY <2>1, <2>3, <3>2 DEF Stopped, Pictured
    <3>3. CASE Updated(q, u)
      <4>1. /\ Moves(q) /\ Keeps(q) /\ request'[q].wrote /\ request[q].id = u
            /\ events'[u].title = IF "title" \in request[q].named THEN q ELSE request[q].copy.title
            /\ events'[u].place = IF "place" \in request[q].named THEN q ELSE request[q].copy.place
            /\ EventCopy(q) /\ request[q].stage # "ended"
        BY <1>0, <3>3 DEF Updated, At, Base, CopyTypes, EventCopy, TaskWriters
      <4>2. q \in Requests \ {r}
        BY <1>2, <4>1
      <4>3. /\ "title" \in request[q].named \/ r \notin request[q].saw => Overwritten(r, "title")'
            /\ "place" \in request[q].named \/ r \notin request[q].saw => Overwritten(r, "place")'
        BY <2>1, <4>1, <4>2, Overwrites
      <4>4. r \in request[q].saw =>
              /\ "title" \in request[r].named =>
                   request[q].copy.title = r \/ Overwritten(r, "title")'
              /\ "place" \in request[r].named =>
                   request[q].copy.place = r \/ Overwritten(r, "place")'
        BY <1>0, <2>1, <2>2, <4>1, OverwrittenStays DEF EventsSeen
      <4> QED BY <2>1, <4>1, <4>3, <4>4
    <3> QED BY <3>1, <3>2, <3>3
  <2> QED BY <2>4, <2>5
<1>3. CASE request[r].stage # "ended"
  <2>1. Handle(r) /\ Moves(r) /\ Finishes(r) /\ request'[r].wrote
    BY <1>0, <1>1, <1>3, AnsweredNow
  <2>2. At(r, "updateEvent", "read") /\ request'[r].id = request[r].id
        /\ request'[r].named = request[r].named
    BY <1>0, <1>1, <1>3, <2>1, AnsweredNow DEF Moves, At
  <2> DEFINE row == applyUpdateToEvent(request[r].copy, r, request[r].named)
  <2>3. updateEvent(r) /\ events' = UpdateEvent(events, request[r].id, row)
    BY <1>0, <2>1, <2>2, HandlerOf, EventWriteEffect DEF Writes
  <2>4. /\ "title" \in request[r].named => row.title = r
        /\ "place" \in request[r].named => row.place = r
    BY <1>0, <2>2, RowTypes DEF At
  <2> HIDE DEF row
  <2>5. request[r].id \in Ids
    BY <1>0, <2>2, IdTypes DEF At, EventOps
  <2>6. events[request[r].id] \in EventRow
    BY <1>0, <1>1, <2>2, <2>3, <2>5 DEF UpdateEvent, TypeOK
  <2>7. events'[request[r].id] = [events[request[r].id] EXCEPT
          !.title = row.title, !.place = row.place, !.recurring = row.recurring]
    BY <1>0, <2>3, <2>5, <2>6, RowAssumption DEF UpdateEvent, TypeOK
  <2>8. events'[request[r].id].title = row.title /\ events'[request[r].id].place = row.place
    BY <2>6, <2>7 DEF EventRow
  <2> QED BY <2>2, <2>4, <2>8
<1> QED BY <1>2, <1>3

LEMMA EventsSeenStep == ASSUME Known, LostInv, [Next]_vars PROVE EventsSeen'
<1>0. Base /\ BornInv /\ TypeOK /\ EventsKept /\ EventsSeen /\ SawInv
  BY DEF Known, Base, LostInv
<1> SUFFICES ASSUME NEW r \in Requests, NEW q \in Requests,
                    Answered(r, "updateEvent")', StillThere(r, events)', EventCopy(q)',
                    request'[q].id = request'[r].id, r \in request'[q].saw
             PROVE  /\ "title" \in request'[r].named =>
                         request'[q].copy.title = r \/ Overwritten(r, "title")'
                    /\ "place" \in request'[r].named =>
                         request'[q].copy.place = r \/ Overwritten(r, "place")'
  BY DEF EventsSeen
<1>1. request'[q].copy # NoRow /\ request'[q].op \notin TaskWriters
  BY DEF EventCopy
<1>2. /\ Keeps(q) \/ JustRead(q)
      /\ request'[q].op = request[q].op /\ request'[q].id = request[q].id
      /\ request[q].op \in EventWriters \cup {"import"}
  BY <1>0, <1>1, CopyOrigin, SentStays
<1>3. r \in request[q].saw \/ r \in Ended
  BY <1>2 DEF Keeps, JustRead
<1>4. request[r].stage = "ended"
  BY <1>0, <1>3 DEF SawInv, Ended
<1>5. /\ request'[r] = request[r] /\ Keeps(r) /\ Answered(r, "updateEvent") /\ EventCopy(r)
  BY <1>0, <1>4, EndedStays
     DEF Keeps, Answered, EventCopy, Base, CopyTypes, EventWriters, TaskWriters
<1>6. StillThere(r, events)
  BY <1>0, <1>5, StillStays
<1>7. CASE Keeps(q)
  <2>1. EventCopy(q) /\ r \in request[q].saw /\ request'[q].copy = request[q].copy
    BY <1>1, <1>2, <1>7 DEF Keeps, EventCopy
  <2>2. /\ "title" \in request[r].named =>
             request[q].copy.title = r \/ Overwritten(r, "title")
        /\ "place" \in request[r].named =>
             request[q].copy.place = r \/ Overwritten(r, "place")
    BY <1>0, <1>2, <1>5, <1>6, <2>1 DEF EventsSeen
  <2> QED BY <1>0, <1>5, <2>1, <2>2, OverwrittenStays
<1>8. CASE JustRead(q)
  <2>1. /\ request'[q].copy.title = events[request[q].id].title
        /\ request'[q].copy.place = events[request[q].id].place
    BY <1>2, <1>8 DEF JustRead
  <2>2. /\ "title" \in request[r].named =>
             events[request[r].id].title = r \/ Overwritten(r, "title")
        /\ "place" \in request[r].named =>
             events[request[r].id].place = r \/ Overwritten(r, "place")
    BY <1>0, <1>5, <1>6 DEF EventsKept
  <2> QED BY <1>0, <1>2, <1>5, <2>1, <2>2, OverwrittenStays
<1> QED BY <1>2, <1>7, <1>8

\* A task that is there after a step was there before it.
LEMMA TaskStays ==
    ASSUME Base, [Next]_vars, NEW u \in Tasks, tasks'[u] # NoRow
    PROVE  tasks[u] # NoRow /\ (tasks'[u] = tasks[u] \/ \E q \in Requests : UpdatedTask(q, u))
<1>1. u \in TaskIds /\ u \notin Requests
  BY SetsAssumption DEF TaskIds
<1>2. CASE tasks'[u] # tasks[u]
  <2>1. PICK q \in Requests : UpdatedTask(q, u)
    BY <1>1, <1>2, TaskRowStep DEF InsertedTask, DeletedTask
  <2> QED BY <2>1, RowAssumption DEF UpdatedTask, SameTask
<1> QED BY <1>2

LEMMA TasksKeptStep == ASSUME Known, LostInv, [Next]_vars PROVE TasksKept'
<1>0. Base /\ TypeOK /\ TasksKept /\ TasksSeen
  BY DEF Known, Base, LostInv
<1> SUFFICES ASSUME NEW r \in Requests, Answered(r, "updateTask")',
                    "title" \in request'[r].named, tasks'[request'[r].id] # NoRow
             PROVE  tasks'[request'[r].id].title = r \/ Overwritten(r, "title")'
  BY DEF TasksKept
<1>1. request'[r].op = "updateTask" /\ request'[r].stage = "ended" /\ request'[r].answer = "ok"
  BY DEF Answered
<1>2. CASE request[r].stage = "ended"
  <2>1. request'[r] = request[r] /\ Answered(r, "updateTask")
    BY <1>0, <1>2, EndedStays DEF Answered
  <2> DEFINE u == request[r].id
  <2>2. u \in Tasks
    BY <1>0, <2>1 DEF Base, StageInv, Answered, TaskWriters
  <2>3. tasks[u] # NoRow /\ (tasks'[u] = tasks[u] \/ \E q \in Requests : UpdatedTask(q, u))
    BY <1>0, <2>1, <2>2, TaskStays
  <2>4. tasks[u].title = r \/ Overwritten(r, "title")'
    BY <1>0, <2>1, <2>3, OverwrittenStays DEF TasksKept
  <2>5. ASSUME NEW q \in Requests, UpdatedTask(q, u)
        PROVE  tasks'[u].title = r \/ Overwritten(r, "title")'
    <3>1. /\ Moves(q) /\ Keeps(q) /\ request'[q].wrote /\ request[q].id = u
          /\ tasks'[u].title = IF "title" \in request[q].named THEN q ELSE request[q].copy.title
          /\ request[q].op \in TaskWriters /\ request[q].copy # NoRow /\ q \in Requests \ {r}
      BY <1>0, <1>2, <2>5 DEF UpdatedTask, At, Base, CopyTypes, TaskWriters
    <3>2. "title" \in request[q].named \/ r \notin request[q].saw => Overwritten(r, "title")'
      BY <2>1, <3>1, Overwrites
    <3>3. r \in request[q].saw => request[q].copy.title = r \/ Overwritten(r, "title")'
      BY <1>0, <2>1, <2>3, <3>1, OverwrittenStays DEF TasksSeen
    <3> QED BY <3>1, <3>2, <3>3
  <2> QED BY <2>1, <2>3, <2>4, <2>5
<1>3. CASE request[r].stage # "ended"
  <2>1. Handle(r) /\ Moves(r) /\ Finishes(r) /\ request'[r].wrote
    BY <1>0, <1>1, <1>3, AnsweredNow
  <2>2. At(r, "updateTask", "read") /\ request'[r].id = request[r].id
        /\ request'[r].named = request[r].named
    BY <1>0, <1>1, <1>3, <2>1, AnsweredNow DEF Moves, At
  <2> DEFINE row == applyUpdateToTask(request[r].copy, r, request[r].named)
  <2>3. updateTask(r) /\ tasks' = UpdateTask(tasks, request[r].id, row)
    BY <1>0, <2>1, <2>2, HandlerOf, TaskWriteEffect DEF Writes
  <2>4. row.title = r
    BY <1>0, <2>2, RowTypes DEF At
  <2> HIDE DEF row
  <2>5. request[r].id \in TaskIds
    BY <1>0, <2>2, IdTypes DEF At, TaskOps
  <2>6. tasks[request[r].id] \in TaskRow
    BY <1>0, <2>2, <2>3, <2>5 DEF UpdateTask, TypeOK
  <2>7. tasks'[request[r].id] =
          [tasks[request[r].id] EXCEPT !.title = row.title, !.completed = row.completed]
    BY <1>0, <2>3, <2>5, <2>6, RowAssumption DEF UpdateTask, TypeOK
  <2>8. tasks'[request[r].id].title = row.title
    BY <2>6, <2>7 DEF TaskRow
  <2> QED BY <2>2, <2>4, <2>8
<1> QED BY <1>2, <1>3

LEMMA TasksSeenStep == ASSUME Known, LostInv, [Next]_vars PROVE TasksSeen'
<1>0. Base /\ TypeOK /\ TasksKept /\ TasksSeen /\ SawInv
  BY DEF Known, Base, LostInv
<1> SUFFICES ASSUME NEW r \in Requests, NEW q \in Requests, Answered(r, "updateTask")',
                    "title" \in request'[r].named, tasks'[request'[r].id] # NoRow,
                    request'[q].op \in TaskWriters, request'[q].copy # NoRow,
                    request'[q].id = request'[r].id, r \in request'[q].saw
             PROVE  request'[q].copy.title = r \/ Overwritten(r, "title")'
  BY DEF TasksSeen
<1>1. /\ Keeps(q) \/ JustRead(q)
      /\ request'[q].op = request[q].op /\ request'[q].id = request[q].id
  BY <1>0, CopyOrigin, SentStays
<1>2. request[r].stage = "ended"
  BY <1>0, <1>1 DEF SawInv, Ended, Keeps, JustRead
<1>3. request'[r] = request[r] /\ Answered(r, "updateTask") /\ request[r].id \in Tasks
  BY <1>0, <1>2, EndedStays DEF Answered, Base, StageInv, TaskWriters
<1>4. tasks[request[r].id] # NoRow
  BY <1>0, <1>3, TaskStays
<1>5. CASE Keeps(q)
  <2>1. request[q].copy.title = r \/ Overwritten(r, "title")
    BY <1>0, <1>1, <1>3, <1>4, <1>5 DEF TasksSeen, Keeps
  <2> QED BY <1>0, <1>3, <1>5, <2>1, OverwrittenStays DEF Keeps
<1>6. CASE JustRead(q)
  <2>1. request'[q].copy.title = tasks[request[r].id].title
    BY <1>1, <1>3, <1>6 DEF JustRead
  <2>2. tasks[request[r].id].title = r \/ Overwritten(r, "title")
    BY <1>0, <1>3, <1>4 DEF TasksKept
  <2> QED BY <1>0, <1>3, <2>1, <2>2, OverwrittenStays
<1> QED BY <1>1, <1>5, <1>6

LEMMA LostGives == ASSUME Known, LostInv PROVE LostOnlyByOverlap
<1>0. Base /\ TypeOK /\ EventsKept /\ TasksKept /\ TaskInv
  BY DEF Known, Base, LostInv
<1>1. ASSUME NEW r \in Requests, NEW field \in request[r].named \cap {"title", "place"},
             Answered(r, "updateEvent"), StillThere(r, events)
      PROVE  \/ getEvent(request[r].user, request[r].id)[field] = r
             \/ Overwriters(r, field) # {}
  <2>1. EventCopy(r)
    BY <1>0, <1>1 DEF Answered, EventCopy, Base, CopyTypes, EventWriters, TaskWriters
  <2>2. /\ getEvent(request[r].user, request[r].id).title = events[request[r].id].title
        /\ getEvent(request[r].user, request[r].id).place = events[request[r].id].place
    BY <1>1, <2>1, ShownEvent
  <2>3. CASE field = "title"
    BY <1>0, <1>1, <2>2, <2>3 DEF EventsKept, Overwritten
  <2>4. CASE field = "place"
    BY <1>0, <1>1, <2>2, <2>4 DEF EventsKept, Overwritten
  <2> QED BY <2>3, <2>4
<1>2. ASSUME NEW r \in Requests, Answered(r, "updateTask"), "title" \in request[r].named,
             StillThere(r, tasks)
      PROVE  \/ getTask(request[r].user, request[r].id).title = r
             \/ Overwriters(r, "title") # {}
  <2>1. /\ tasks[request[r].id] # NoRow /\ request[r].copy # NoRow
        /\ request[r].op \in TaskWriters
    BY <1>0, <1>2 DEF StillThere, Answered, Base, CopyTypes, TaskWriters
  <2>2. getTask(request[r].user, request[r].id) = tasks[request[r].id]
    BY <1>0, <2>1 DEF getTask, GetTaskByID, TaskInv
  <2> QED BY <1>0, <1>2, <2>1, <2>2 DEF TasksKept, Overwritten
<1> QED BY <1>1, <1>2 DEF LostOnlyByOverlap

\* An update of a row that is still there is lost only to one that names the
\* same field, or that had read the row before the update was over.
THEOREM UpdatesAreLostOnlyByOverlap == Spec => []LostOnlyByOverlap
<1>1. Init => LostInv
  <2>1. ASSUME Init, NEW r \in Requests
        PROVE  request[r].stage = "idle" /\ request[r].saw = {} /\ request[r].copy = NoRow
    BY <2>1 DEF Init, Idle
  <2> QED BY <2>1 DEF LostInv, SawInv, EventsKept, EventsSeen, TasksKept, TasksSeen, Answered
<1>2. LostInv /\ Known /\ [Next]_vars => LostInv'
  <2>1. ASSUME LostInv, Known, [Next]_vars PROVE SawInv'
    BY <2>1, SawStep DEF Known, LostInv
  <2> QED BY <2>1, EventsKeptStep, EventsSeenStep, TasksKeptStep, TasksSeenStep DEF LostInv
<1>3. LostInv /\ Known => LostOnlyByOverlap
  BY LostGives
<1> QED BY <1>1, <1>2, <1>3, KnownInit, KnownStep, PTL DEF Spec

-----------------------------------------------------------------------------
(* A calendar that is imported again.                                      *)

\* Where the rows come from: under a UID, from the start or from an import; under
\* a fresh id, from a file's event whose UID was somebody else's.
ImportInv ==
  /\ \A u \in Uids : events[u] # NoRow =>
       \/ u \in Initial /\ events[u].user = Owner
       \/ \E q \in Requests : /\ request[q].op = "import" /\ request[q].id = u
                              /\ request[q].user = events[u].user
  /\ \A r \in Requests : /\ request[r].op = "import" /\ request[r].id \in Uids
                         /\ request[r].stage = "renamed" \/ events[r] # NoRow
                         => HeldByAnother(request[r].id, request[r].user)
  /\ \A r \in Requests : events[r] # NoRow => events[r].user = request[r].user

LEMMA HeldStays ==
    ASSUME Base, [Next]_vars, NEW uid \in Uids, NEW user, HeldByAnother(uid, user)
    PROVE  HeldByAnother(uid, user)'
<1>1. CASE uid \in Initial /\ Owner # user
  BY <1>1 DEF HeldByAnother
<1>2. ASSUME NEW q \in Requests, request[q].op = "import", request[q].id = uid, request[q].user # user
      PROVE  HeldByAnother(uid, user)'
  <2>1. request[q].stage # "idle"
    BY <1>2 DEF Base, StageInv
  <2> QED BY <1>2, <2>1, SentStays DEF HeldByAnother
<1> QED BY <1>1, <1>2 DEF HeldByAnother

LEMMA ImportStep == ASSUME Base, ImportInv, [Next]_vars PROVE ImportInv'
<1>0. TypeOK /\ StageInv /\ OwnRowInv
  BY DEF Base
<1>1. ASSUME NEW u \in Ids, events'[u] # NoRow, events[u] # NoRow
      PROVE  events'[u].user = events[u].user
  BY <1>1, EventRowStep DEF Inserted, Updated, Deleted, Stopped, Pictured, Same
<1>2. ASSUME NEW u \in Ids, events'[u] # NoRow, events[u] = NoRow
      PROVE  \E q \in Requests : Inserted(q, u)
  BY <1>2, EventRowStep, RowAssumption DEF Updated, Deleted, Stopped, Pictured, Same
<1>3. ASSUME NEW q \in Requests, NEW u \in Ids, Inserted(q, u)
      PROVE  /\ request'[q].op = request[q].op /\ request'[q].id = request[q].id
             /\ request'[q].user = request[q].user
             /\ events'[u].user = request[q].user
             /\ request[q].id \in Uids \cup {q}
             /\ u \in Requests => u = q
             /\ u \in Uids => request[q].op = "import" /\ u = request[q].id
  <2>1. request[q].id \in Uids \cup {q} /\ (request[q].op = "createEvent" => request[q].id = q)
    BY <1>0, <1>3 DEF Inserted, StageInv
  <2> QED BY <1>3, <2>1, SentStays, SetsAssumption DEF Inserted
<1>4. ASSUME NEW u \in Uids, events'[u] # NoRow
      PROVE  \/ u \in Initial /\ events'[u].user = Owner
             \/ \E q \in Requests : /\ request'[q].op = "import" /\ request'[q].id = u
                                    /\ request'[q].user = events'[u].user
  <2>0. u \in Ids
    BY DEF Ids
  <2>1. CASE events[u] = NoRow
    <3>1. PICK q \in Requests : Inserted(q, u)
      BY <1>2, <1>4, <2>0, <2>1
    <3> QED BY <1>3, <2>0, <3>1
  <2>2. CASE events[u] # NoRow
    <3>1. events'[u].user = events[u].user
      BY <1>1, <1>4, <2>0, <2>2
    <3>2. CASE u \in Initial /\ events[u].user = Owner
      BY <3>1, <3>2
    <3>3. ASSUME NEW q \in Requests, request[q].op = "import", request[q].id = u,
                 request[q].user = events[u].user
          PROVE  /\ request'[q].op = "import" /\ request'[q].id = u
                 /\ request'[q].user = events'[u].user
      <4>1. request[q].stage # "idle"
        BY <1>0, <3>3 DEF StageInv
      <4> QED BY <3>1, <3>3, <4>1, SentStays
    <3> QED BY <2>2, <3>2, <3>3 DEF ImportInv
  <2> QED BY <2>1, <2>2
<1>5. ASSUME NEW r \in Requests, request'[r].op = "import", request'[r].id \in Uids,
             request'[r].stage = "renamed" \/ events'[r] # NoRow
      PROVE  HeldByAnother(request[r].id, request[r].user)'
  <2>0. r \in Ids
    BY DEF Ids
  <2>1. request[r].stage # "idle"
    <3>1. CASE Came(r)
      <4>1. request'[r].stage = "begun" /\ events[r] = NoRow
        BY <1>0, <3>1 DEF Came, Fresh, OwnRowInv
      <4>2. PICK q \in Requests : Inserted(q, r)
        BY <1>2, <1>5, <2>0, <4>1
      <4> QED BY <1>3, <2>0, <3>1, <4>2 DEF Came, Inserted
    <3>2. CASE ~Came(r)
      BY <1>0, <1>5, <3>2, Frame DEF Crashed, Handled, StageInv
    <3> QED BY <3>1, <3>2
  <2>2. /\ request'[r].id = request[r].id /\ request'[r].user = request[r].user
        /\ request[r].op = "import" /\ request[r].id \in Uids
    BY <1>5, <2>1, SentStays
  <2> PICK uid \in Uids, user \in Users : uid = request[r].id /\ user = request[r].user
    BY <1>0, <2>2 DEF TypeOK, Request
  <2>9. HeldByAnother(uid, user) => HeldByAnother(request[r].id, request[r].user)'
    <3>1. HeldByAnother(uid, user) => HeldByAnother(uid, user)'
      BY HeldStays
    <3> QED BY <2>2, <3>1 DEF HeldByAnother
  <2>3. CASE request[r].stage = "renamed" \/ events[r] # NoRow
    BY <2>2, <2>3, <2>9 DEF ImportInv
  <2>4. CASE request[r].stage # "renamed" /\ events[r] = NoRow
    <3>1. events'[r] = NoRow
      <4>1. ASSUME NEW q \in Requests, Inserted(q, r) PROVE FALSE
        BY <1>3, <2>0, <2>2, <2>4, <4>1, SetsAssumption DEF Inserted
      <4> QED BY <1>2, <2>0, <2>4, <4>1
    <3>2. Handle(r) /\ Advances(r, "import", "conflict", "renamed")
      BY <1>5, <2>1, <2>4, <3>1, Frame
         DEF Crashed, Came, Handled, Verifies, Finishes, Advances, At
    <3>3. resolveDuplicateEvent(r)
      BY <3>2, HandlerOf DEF Advances
    <3>4. events[request[r].id] # NoRow /\ events[request[r].id].user # request[r].user
      BY <3>2, <3>3, ResolveEffect DEF Advances
    <3>5. HeldByAnother(uid, user)
      BY <2>2, <3>4 DEF ImportInv, HeldByAnother
    <3> QED BY <2>9, <3>5
  <2> QED BY <2>3, <2>4
<1>6. ASSUME NEW r \in Requests, events'[r] # NoRow PROVE events'[r].user = request'[r].user
  <2>0. r \in Ids
    BY DEF Ids
  <2>1. CASE events[r] = NoRow
    <3>1. PICK q \in Requests : Inserted(q, r)
      BY <1>2, <1>6, <2>0, <2>1
    <3> QED BY <1>3, <2>0, <3>1
  <2>2. CASE events[r] # NoRow
    <3>1. request[r].stage = "ended"
      BY <1>0, <2>2 DEF OwnRowInv
    <3> QED BY <1>1, <1>6, <2>0, <2>2, <3>1, EndedStays DEF ImportInv
  <2> QED BY <2>1, <2>2
<1> QED BY <1>4, <1>5, <1>6 DEF ImportInv

LEMMA ImportGives == ASSUME Base, ImportInv PROVE ReimportAddsNothing
<1> SUFFICES ASSUME NEW uid \in Uids, NEW user \in Users, Cardinality(Copies(uid, user)) > 1,
                    ~HeldByAnother(uid, user)
             PROVE  FALSE
  BY DEF ReimportAddsNothing
<1>1. ASSUME NEW id \in Copies(uid, user) PROVE id = uid
  <2>1. /\ id \in DOMAIN events /\ events[id] # NoRow /\ events[id].user = user
        /\ id = uid \/ (id \in Requests /\ request[id].op = "import" /\ request[id].id = uid)
    BY <1>1 DEF Copies, exportCalendar, ListEvents, ListEventsByTime
  <2> QED BY <2>1 DEF ImportInv
<1>2. Copies(uid, user) \in SUBSET {uid}
  BY <1>1
<1>3. IsFiniteSet({uid}) /\ Cardinality({uid}) = 1
  BY FS_Singleton
<1>4. IsFiniteSet(Copies(uid, user)) /\ Cardinality(Copies(uid, user)) <= 1
  BY <1>2, <1>3, FS_Subset
<1>5. Cardinality(Copies(uid, user)) \in Nat
  BY <1>4, FS_CardinalityType
<1> QED BY <1>4, <1>5

\* A calendar that is imported again, even twice at once, adds no second copy of
\* an event, unless an event of the same UID is in the calendar of another user.
THEOREM ReimportsAddNothing == Spec => []ReimportAddsNothing
<1>1. Init => ImportInv
  <2>1. ASSUME Init, NEW u \in Ids, events[u] # NoRow
        PROVE  u \in Initial /\ events[u].user = Owner
    BY <2>1 DEF Init, NewEvent
  <2>2. ASSUME Init, NEW r \in Requests
        PROVE  r \in Ids /\ r \notin Initial /\ request[r].op = "none"
    BY <2>2, SetsAssumption DEF Init, Idle, Ids
  <2> QED BY <2>1, <2>2 DEF ImportInv, Ids
<1>2. ImportInv /\ Base /\ [Next]_vars => ImportInv'
  BY ImportStep
<1>3. ImportInv /\ Base => ReimportAddsNothing
  BY ImportGives
<1> QED BY <1>1, <1>2, <1>3, BaseInit, BaseStep, PTL DEF Spec

=============================================================================
