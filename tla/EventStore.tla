------------------------------ MODULE EventStore ------------------------------
(***************************************************************************)
(* The tables events and tasks of PostgreSQL, and the statements on them   *)
(* (internal/shared/database/db/calendar.sql.go) with the conversions that *)
(* internal/calendar/repository.go puts around them.  A table is a         *)
(* function from ids to rows, NoRow where there is none; a statement that  *)
(* writes is an operator from tables to tables, and is atomic as a single  *)
(* SQL statement is.                                                       *)
(*                                                                         *)
(* Title and place stand for the text and time columns of a row; recurring *)
(* stands for is_recurring, recurrence_rule and recurrence_exception,      *)
(* which every statement but one writes together.  born is not a column:   *)
(* it names the request that inserted the row, so that a row and a later   *)
(* row under the same id can be told apart.                                *)
(***************************************************************************)
EXTENDS Naturals, FiniteSets

CONSTANTS
  NoRow,      \* what a table holds under an id without a row
  MaxImages   \* maxEventImages, 5 in the statement

ASSUME MaxImagesAssumption == MaxImages \in Nat

-----------------------------------------------------------------------------
(* events *)

\* The row CreateEvent inserts: image_url is left to its default, empty.
NewEvent(user, title, place, recurring, born) ==
  [user |-> user, title |-> title, place |-> place, recurring |-> recurring,
   images |-> {}, born |-> born]

\* The insert is refused with a unique violation when the id has a row.
IsUniqueViolation(table, id) == table[id] # NoRow
CreateEvent(table, id, row) == [table EXCEPT ![id] = row]

SelectEvent(table, id) == table[id]

\* The repository builds the event it returns without the three columns of the
\* recurrence, so an event that was read is never recurring.
GetEventByID(table, id) ==
  LET row == SelectEvent(table, id) IN
  IF row = NoRow THEN NoRow ELSE [row EXCEPT !.recurring = FALSE]

\* Mutants: the statement also writes image_url; it inserts a row that is gone.
UpdateWholeRow(table, id, event) ==
  IF table[id] = NoRow THEN table
  ELSE [table EXCEPT ![id] = [event EXCEPT !.user = table[id].user]]
UpsertEvent(table, id, event) ==
  [table EXCEPT ![id] = [event EXCEPT !.images = IF table[id] = NoRow THEN @ ELSE table[id].images]]

\* Every column the statement sets, whether the caller changed it or not, and
\* not image_url.  An id without a row is no error: no row is updated.
UpdateEvent(table, id, event) ==
  IF table[id] = NoRow THEN table
  ELSE [table EXCEPT ![id] = [@ EXCEPT !.title = event.title, !.place = event.place,
                                       !.recurring = event.recurring]]

DeleteEvent(table, id) == [table EXCEPT ![id] = NoRow]

DeactivateRecurringEvent(table, id) ==
  IF table[id] = NoRow THEN table ELSE [table EXCEPT ![id].recurring = FALSE]

\* Mutant: the limit is exceeded by one.
HasCapacityOverMax(table, id) ==
  table[id] # NoRow /\ Cardinality(table[id].images) <= MaxImages

\* The statement counts and appends in one step; it reports the rows it updated.
HasCapacity(table, id) ==
  table[id] # NoRow /\ Cardinality(table[id].images) < MaxImages
AddEventImageURLIfCapacity(table, id, image) ==
  IF HasCapacity(table, id) THEN [table EXCEPT ![id].images = @ \cup {image}] ELSE table

GetEventImageURLs(table, id) == IF table[id] = NoRow THEN {} ELSE table[id].images

\* The ids the two forms of ListEvents return, every row lying in the window.
ListEventsByTime(table) == {id \in DOMAIN table : table[id] # NoRow}
ListEventsByUserAndTime(table, user) ==
  {id \in ListEventsByTime(table) : table[id].user = user}

\* The repository's ListEvents: no user at all stands for an empty user id, with
\* which ListEventsAdapter asks for the events of everybody.
ListEvents(table, users) ==
  IF users = {} THEN ListEventsByTime(table)
                ELSE UNION {ListEventsByUserAndTime(table, user) : user \in users}

GetActiveRecurringEvents(table, user) ==
  {id \in ListEventsByUserAndTime(table, user) : table[id].recurring}

-----------------------------------------------------------------------------
(* tasks *)

\* completed is FALSE in every task that is created.
NewTask(user, title, born) ==
  [user |-> user, title |-> title, completed |-> FALSE, born |-> born]

CreateTask(table, id, row) == [table EXCEPT ![id] = row]

GetTaskByID(table, id) == table[id]

UpdateTask(table, id, task) ==
  IF table[id] = NoRow THEN table
  ELSE [table EXCEPT ![id] = [@ EXCEPT !.title = task.title, !.completed = task.completed]]

DeleteTask(table, id) == [table EXCEPT ![id] = NoRow]

\* The completed parameter is NULL in the query when the request leaves it out.
ListTasks(table, user, completed) ==
  {id \in DOMAIN table : /\ table[id] # NoRow
                         /\ table[id].user = user
                         /\ table[id].completed \in completed}
=============================================================================
