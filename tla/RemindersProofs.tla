--------------------------- MODULE RemindersProofs ---------------------------
(***************************************************************************)
(* The reminders keep their promises for any number of requests, devices,  *)
(* retries and faults.                                                     *)
(*                                                                         *)
(* What ties the rows of PostgreSQL to the tasks of Redis is stated once,  *)
(* in Core: a row is created once and its status never goes back, at most  *)
(* one row is pending and it is the newest, a handler or a task works on   *)
(* one row and stays with it. Each property then needs one more invariant. *)
(***************************************************************************)
EXTENDS Reminders, FiniteSetTheorems, TLAPS

Created == {s \in Requests : born[s] > 0}
SubscribeStages == {"exists", "snapshot", "insert", "enqueue", "jobid"}
UnsubscribeStages == {"fetch", "delete", "cancel"}

\* Rows are numbered in the order they were created; a pending one is the last.
RowInv ==
    /\ IsFiniteSet(Created)
    /\ \A s \in Requests :
          /\ status[s] # "cancelled"
          /\ status[s] # "none" => born[s] > 0
          /\ born[s] > 0 => /\ kind[s] = "subscribe"
                            /\ pc[s] \in {"enqueue", "jobid", "done"}
          /\ born[s] <= Cardinality(Created)
    /\ \A s \in Created, o \in Requests : born[s] = born[o] => s = o
    /\ \A s \in Pending, o \in Requests : born[o] <= born[s]

\* A handler has one row at most, and answers at its end.
HandlerInv ==
    \A r \in Requests :
        /\ \A s \in got[r] \cup before[r] : born[s] > 0
        /\ \A s, o \in got[r] : s = o
        /\ pc[r] \in {"idle", "exists", "snapshot", "fetch"} => got[r] = {}
        /\ pc[r] # "done" => reply[r] = "none"
        /\ pc[r] \in SubscribeStages => kind[r] = "subscribe"
        /\ pc[r] \in UnsubscribeStages => kind[r] = "unsubscribe"

\* The row of a task is fixed before the task exists.
TaskInv ==
    \A t \in Requests :
        /\ task[t] # "none" => /\ kind[t] = "subscribe"
                               /\ pc[t] \in {"jobid", "done"}
        /\ task[t] = "none" => retried[t] = 0 /\ pc[t] # "jobid"
        /\ Live(t) => retried[t] <= MaxRetry
        /\ worker[t].stage # "idle" => task[t] = "active"

\* A job_id names a task of that very row.
JobInv ==
    /\ \A s \in Requests : \A t \in job[s] : s \in got[t] /\ task[t] # "none"
    /\ \A r \in Requests : \A t \in aim[r] :
          kind[r] = "unsubscribe" /\ got[t] \subseteq got[r] /\ task[t] # "none"

Core == TypeOK /\ RowInv /\ HandlerInv /\ TaskInv /\ JobInv

-----------------------------------------------------------------------------
(* Types.                                                                  *)

\* A status changes only to one that the database accepts.
LEMMA MarkType ==
    ASSUME TypeOK, NEW s \in Requests, NEW new, MarkSubscriptionStatus(s, new)
    PROVE  status' \in [Requests -> AllowedStatuses \cup {"none"}]
  BY DEF TypeOK, MarkSubscriptionStatus, Violates

\* A task that is retried, or not any more, keeps its types.
LEMMA RetryType ==
    ASSUME TypeOK, TaskInv, NEW t \in Requests,
           worker[t].stage # "idle", Retry(t)
    PROVE  /\ task' \in [Requests -> {"none", "waiting", "active", "done",
                                      "archived", "deleted"}]
           /\ retried' \in [Requests -> 0 .. MaxRetry + 1]
           /\ worker' = [worker EXCEPT ![t] = Idle]
<1>1. task[t] = "active" /\ retried[t] <= MaxRetry /\ retried[t] \in Nat
  BY BoundsAssumption DEF TypeOK, TaskInv, Live
<1> QED BY <1>1, BoundsAssumption DEF TypeOK, Retry, AfterRetry

\* Faults are counted up to the bound, and disturb rows only.
LEMMA FaultType ==
    ASSUME TypeOK, NEW S \in SUBSET Requests, Fault(S) \/ NoFault
    PROVE  faults' \in 0 .. MaxFaults /\ disturbed' \subseteq Requests
  BY BoundsAssumption DEF TypeOK, Fault, NoFault

\* Stages and answers stay among those of the code.
Stages == {"idle", "done"} \cup SubscribeStages \cup UnsubscribeStages
Answers == {"created", "conflict", "gone", "error"}
LEMMA StageType ==
    ASSUME TypeOK, NEW r \in Requests,
           \/ \E stage \in Stages : Goto(r, stage) /\ UNCHANGED reply
           \/ \E answer \in Answers : Answer(r, answer)
    PROVE  /\ pc' \in [Requests -> Stages]
           /\ reply' \in [Requests -> {"none"} \cup Answers]
<1>1. /\ pc \in [Requests -> Stages]
      /\ reply \in [Requests -> {"none"} \cup Answers]
  BY DEF TypeOK, Stages, SubscribeStages, UnsubscribeStages, Answers
<1>2. \A stage \in Stages : Goto(r, stage) => pc' \in [Requests -> Stages]
  BY <1>1 DEF Goto
<1>3. "done" \in Stages
  BY DEF Stages
<1> QED BY <1>1, <1>2, <1>3 DEF Answer

\* A handler's step keeps the types.
LEMMA HandlerTypeStep ==
    ASSUME TypeOK, RowInv, NEW r \in Requests, Send(r) \/ Handle(r)
    PROVE  TypeOK'
<1>1. CASE Send(r)
  BY <1>1 DEF TypeOK, Send, Goto, Pending, rows, queue
<1>2. CASE Exists(r)
  <2>1. faults' \in 0 .. MaxFaults /\ disturbed' \subseteq Requests
    BY <1>2, FaultType DEF Exists
  <2> QED BY <1>2, <2>1 DEF TypeOK, Exists, Goto, Answer, rows, queue
<1>3. CASE Snapshot(r)
  BY <1>3 DEF TypeOK, Snapshot, Goto, Active, rows, queue, observers
<1>4. CASE Insert(r)
  <2>1. Cardinality({s \in Requests : born[s] > 0}) \in Nat
    BY FS_CardinalityType DEF RowInv, Created
  <2>2. faults' \in 0 .. MaxFaults /\ disturbed' \subseteq Requests
    BY <1>4, FaultType DEF Insert
  <2>3. /\ pc' \in [Requests -> Stages]
        /\ reply' \in [Requests -> {"none"} \cup Answers]
    <3>1. \/ Goto(r, "enqueue") /\ UNCHANGED reply
          \/ \E answer \in Answers : Answer(r, answer)
      BY <1>4 DEF Insert, Answers
    <3>2. "enqueue" \in Stages
      BY DEF Stages, SubscribeStages
    <3> QED BY <3>1, <3>2, StageType
  <2>4. /\ status' \in [Requests -> AllowedStatuses \cup {"none"}]
        /\ born' \in [Requests -> Nat]
        /\ got' \in [Requests -> SUBSET Requests]
        /\ UNCHANGED <<event, job>>
    <3>1. CASE InsertRow(r)
      BY <2>1, <3>1 DEF TypeOK, InsertRow, AllowedStatuses
    <3>2. CASE UNCHANGED <<rows, got>>
      BY <3>2 DEF TypeOK, rows
    <3> QED BY <1>4, <3>1, <3>2 DEF Insert
  <2> QED BY <1>4, <2>2, <2>3, <2>4
          DEF TypeOK, Insert, queue, Stages, SubscribeStages, UnsubscribeStages,
              Answers
<1>5. CASE Enqueue(r)
  <2>1. faults' \in 0 .. MaxFaults /\ disturbed' \subseteq Requests
    BY <1>5, FaultType DEF Enqueue, TypeOK
  <2>2. task' \in [Requests -> {"none", "waiting", "active", "done", "archived",
                               "deleted"}]
    BY <1>5 DEF Enqueue, TypeOK
  <2>3. /\ pc' \in [Requests -> Stages]
        /\ reply' \in [Requests -> {"none"} \cup Answers]
    BY <1>5, StageType DEF Enqueue, Stages, SubscribeStages, Answers
  <2> QED BY <1>5, <2>1, <2>2, <2>3
          DEF TypeOK, Enqueue, rows, Stages, SubscribeStages, UnsubscribeStages,
              Answers
<1>6. CASE StoreJobID(r)
  <2>1. faults' \in 0 .. MaxFaults /\ disturbed' \subseteq Requests
    BY <1>6, FaultType DEF StoreJobID, TypeOK
  <2>2. /\ pc' \in [Requests -> Stages]
        /\ reply' \in [Requests -> {"none"} \cup Answers]
    BY <1>6, StageType DEF StoreJobID, Answers
  <2>3. job' \in [Requests -> SUBSET Requests]
    BY <1>6 DEF StoreJobID, TypeOK
  <2> QED BY <1>6, <2>1, <2>2, <2>3
          DEF TypeOK, StoreJobID, queue, Stages, SubscribeStages,
              UnsubscribeStages, Answers
<1>7. CASE Fetch(r)
  <2>1. NewestListed \subseteq Requests
    BY DEF NewestListed, Listed
  <2>2. UNION {job[s] : s \in NewestListed} \subseteq Requests
    BY <2>1 DEF TypeOK
  <2>3. faults' \in 0 .. MaxFaults /\ disturbed' \subseteq Requests
    BY <1>7, FaultType DEF Fetch
  <2>4. /\ got' \in [Requests -> SUBSET Requests]
        /\ aim' \in [Requests -> SUBSET Requests]
    <3> DEFINE newest == NewestListed
               jobs == UNION {job[s] : s \in NewestListed}
    <3>1. \/ got' = [got EXCEPT ![r] = newest] /\ aim' = [aim EXCEPT ![r] = jobs]
          \/ UNCHANGED <<got, aim>>
      BY <1>7 DEF Fetch
    <3>2. newest \in SUBSET Requests /\ jobs \in SUBSET Requests
      BY <2>1, <2>2
    <3> HIDE DEF newest, jobs
    <3> QED BY <3>1, <3>2 DEF TypeOK
  <2>5. /\ pc' \in [Requests -> Stages]
        /\ reply' \in [Requests -> {"none"} \cup Answers]
    <3>1. \/ Goto(r, "delete") /\ UNCHANGED reply
          \/ \E answer \in Answers : Answer(r, answer)
      BY <1>7 DEF Fetch, Answers
    <3>2. "delete" \in Stages
      BY DEF Stages, UnsubscribeStages
    <3> QED BY <3>1, <3>2, StageType
  <2>6. /\ UNCHANGED <<rows, queue, devices, kind, worker, notified, twice>>
        /\ UNCHANGED <<unreachable, late, before>>
    BY <1>7 DEF Fetch
  <2> QED BY <2>3, <2>4, <2>5, <2>6
          DEF TypeOK, rows, queue, Stages, SubscribeStages, UnsubscribeStages,
              Answers
<1>8. CASE DeleteTask(r)
  <2>1. faults' \in 0 .. MaxFaults /\ disturbed' \subseteq Requests
    BY <1>8, FaultType DEF DeleteTask, TypeOK
  <2> QED BY <1>8, <2>1 DEF TypeOK, DeleteTask, Goto, rows
<1>9. CASE Cancel(r)
  <2>1. faults' \in 0 .. MaxFaults /\ disturbed' \subseteq Requests
    BY <1>9, FaultType DEF Cancel, TypeOK
  <2>2. status' \in [Requests -> AllowedStatuses \cup {"none"}]
    <3>1. PICK s \in got[r] :
             MarkSubscriptionStatus(s, StatusCancelled) \/ UNCHANGED status
      BY <1>9 DEF Cancel
    <3> QED BY <3>1, MarkType DEF TypeOK
  <2> QED BY <1>9, <2>1, <2>2 DEF TypeOK, Cancel, Goto, Answer, queue
<1> QED BY <1>1, <1>2, <1>3, <1>4, <1>5, <1>6, <1>7, <1>8, <1>9 DEF Handle

\* A worker's step keeps the types.
LEMMA WorkerTypeStep ==
    ASSUME TypeOK, TaskInv, NEW t \in Requests, Work(t)
    PROVE  TypeOK'
<1> DEFINE Runs == [stage : {"idle", "read", "tokens", "send"},
                    left : SUBSET Devices, found : BOOLEAN, hit : BOOLEAN]
           Tasks == {"none", "waiting", "active", "done", "archived", "deleted"}
<1>0. got[t] \in SUBSET Requests /\ worker \in [Requests -> Runs] /\ Idle \in Runs
  BY DEF TypeOK, Idle
<1>1. CASE Fire(t)
  BY <1>1 DEF TypeOK, Fire, rows, handlers
<1>2. CASE ReadSub(t)
  <2>1. faults' \in 0 .. MaxFaults /\ disturbed' \subseteq Requests
    BY <1>0, <1>2, FaultType DEF ReadSub, RunFault
  <2>2. /\ task' \in [Requests -> Tasks]
        /\ retried' \in [Requests -> 0 .. MaxRetry + 1]
        /\ worker' \in [Requests -> Runs]
    <3>1. CASE Retry(t)
      BY <1>0, <1>2, <3>1, RetryType DEF ReadSub
    <3>2. CASE Return(t)
      BY <1>0, <3>2 DEF TypeOK, Return
    <3>3. CASE worker' = [worker EXCEPT ![t].stage = "tokens"] /\ UNCHANGED queue
      BY <1>0, <3>3 DEF TypeOK, queue
    <3> QED BY <1>2, <3>1, <3>2, <3>3 DEF ReadSub
  <2> QED BY <1>2, <2>1, <2>2 DEF TypeOK, ReadSub, rows, handlers
<1>3. CASE GetDeviceTokens(t)
  <2>1. faults' \in 0 .. MaxFaults /\ disturbed' \subseteq Requests
    BY <1>0, <1>3, FaultType DEF GetDeviceTokens, RunFault
  <2>2. /\ task' \in [Requests -> Tasks]
        /\ retried' \in [Requests -> 0 .. MaxRetry + 1]
        /\ worker' \in [Requests -> Runs]
    <3>1. CASE Retry(t)
      BY <1>0, <1>3, <3>1, RetryType DEF GetDeviceTokens
    <3>2. CASE UNCHANGED queue /\ ~Retry(t)
      <4> DEFINE run == [stage |-> "send", left |-> devices,
                         found |-> devices # {}, hit |-> FALSE]
      <4>1. worker' = [worker EXCEPT ![t] = run]
        BY <1>3, <3>2 DEF GetDeviceTokens
      <4>2. run \in Runs
        BY DEF TypeOK
      <4> HIDE DEF run
      <4> QED BY <1>0, <3>2, <4>1, <4>2 DEF TypeOK, queue
    <3> QED BY <1>3, <3>1, <3>2 DEF GetDeviceTokens
  <2> QED BY <1>0, <1>3, <2>1, <2>2 DEF TypeOK, GetDeviceTokens, rows, handlers
<1>4. CASE Finish(t)
  <2>1. PICK s \in got[t] :
           \/ \E new : MarkSubscriptionStatus(s, new) /\ NoFault
           \/ UNCHANGED status /\ Fault({s})
    BY <1>4 DEF Finish
  <2>2. s \in Requests
    BY <1>0
  <2>3. status' \in [Requests -> AllowedStatuses \cup {"none"}]
    BY <2>1, <2>2, MarkType DEF TypeOK
  <2>4. faults' \in 0 .. MaxFaults /\ disturbed' \subseteq Requests
    BY <2>1, <2>2, FaultType
  <2>5. /\ task' \in [Requests -> Tasks]
        /\ retried' \in [Requests -> 0 .. MaxRetry + 1]
        /\ worker' \in [Requests -> Runs]
    <3>1. CASE Retry(t)
      BY <1>0, <1>4, <3>1, RetryType DEF Finish
    <3>2. CASE Return(t)
      BY <1>0, <3>2 DEF TypeOK, Return
    <3> QED BY <1>4, <3>1, <3>2 DEF Finish
  <2> QED BY <1>4, <2>3, <2>4, <2>5 DEF TypeOK, Finish, handlers
<1>5. ASSUME NEW d \in Devices, SendToToken(t, d) PROVE TypeOK'
  <2>1. worker' \in [Requests -> Runs]
    <3>1. worker[t].left \ {d} \in SUBSET Devices
      BY <1>0
    <3>2. \/ worker' = [worker EXCEPT ![t].left = worker[t].left \ {d}, ![t].hit = TRUE]
          \/ worker' = [worker EXCEPT ![t].left = worker[t].left \ {d}]
      BY <1>5 DEF SendToToken
    <3> QED BY <1>0, <3>1, <3>2
  <2>2. notified' \subseteq Requests \X Devices /\ twice' \subseteq Requests
    <3>1. {<<s, d>> : s \in got[t]} \subseteq Requests \X Devices
      BY <1>0
    <3>2. {s \in got[t] : <<s, d>> \in notified} \subseteq Requests
      BY <1>0
    <3> QED BY <1>5, <3>1, <3>2 DEF TypeOK, SendToToken
  <2> QED BY <1>5, <2>1, <2>2 DEF TypeOK, SendToToken, rows, queue, handlers
<1> QED BY <1>1, <1>2, <1>3, <1>4, <1>5 DEF Work

\* Every step keeps the types.
LEMMA TypeStep == TypeOK /\ RowInv /\ TaskInv /\ [Next]_vars => TypeOK'
<1> SUFFICES ASSUME TypeOK, RowInv, TaskInv, [Next]_vars PROVE TypeOK'
  OBVIOUS
<1>1. ASSUME NEW r \in Requests, Send(r) \/ Handle(r) PROVE TypeOK'
  BY <1>1, HandlerTypeStep
<1>2. ASSUME NEW t \in Requests, Work(t) PROVE TypeOK'
  BY <1>2, WorkerTypeStep
<1> USE DEF TypeOK
<1>3. CASE DeleteEvent
  BY <1>3 DEF DeleteEvent, queue, handlers, observers
<1>4. ASSUME NEW d \in Devices, DeviceChange(d) PROVE TypeOK'
  BY <1>4 DEF DeviceChange, RegisterToken, DeleteToken, rows, queue, handlers,
     observers
<1>5. CASE Crash
  <2>1. \A t \in Requests : task[t] = "active" => retried[t] + 1 \in 0 .. MaxRetry + 1
    BY BoundsAssumption DEF TaskInv, Live
  <2> QED BY <1>5, <2>1, BoundsAssumption
             DEF Crash, Fault, AfterRetry, Idle, rows
<1>6. CASE UNCHANGED vars
  BY <1>6 DEF vars, rows, queue, handlers, observers
<1> QED BY <1>1, <1>2, <1>3, <1>4, <1>5, <1>6 DEF Next

-----------------------------------------------------------------------------
(* What a step may do to a handler and to a row.                           *)

\* Stages only advance, and rows and tasks once held are held for good.
HandlerMoves(r) ==
    /\ pc[r] = "done" => pc'[r] = "done"
    /\ pc[r] \in {"jobid", "done"} => pc'[r] \in {"jobid", "done"}
    /\ pc[r] \in {"enqueue", "jobid", "done"}
          => pc'[r] \in {"enqueue", "jobid", "done"}
    /\ pc[r] \in {"enqueue", "jobid", "delete", "cancel", "done"} => got'[r] = got[r]
    /\ aim'[r] = aim[r] \/ pc[r] = "fetch"
    /\ before'[r] = before[r] \/ pc[r] = "idle"
    /\ task[r] # "none" => task'[r] # "none"
HandlersMove == kind' = kind /\ \A r \in Requests : HandlerMoves(r)

LEMMA HandlerStep == TypeOK /\ [Next]_vars => HandlersMove
<1> SUFFICES ASSUME TypeOK, [Next]_vars PROVE HandlersMove
  OBVIOUS
<1> USE DEF HandlersMove, HandlerMoves
<1>1. ASSUME NEW r \in Requests, Send(r) \/ Handle(r) PROVE HandlersMove
  <2> USE DEF TypeOK
  <2>1. CASE Send(r)
    BY <2>1 DEF Send, Goto, queue
  <2>2. CASE Exists(r)
    BY <2>2 DEF Exists, Goto, Answer, queue
  <2>3. CASE Snapshot(r)
    BY <2>3 DEF Snapshot, Goto, queue, observers
  <2>4. CASE Insert(r)
    BY <2>4 DEF Insert, InsertRow, Goto, Answer, rows, queue
  <2>5. CASE Enqueue(r)
    BY <2>5 DEF Enqueue, Goto, Answer
  <2>6. CASE StoreJobID(r)
    BY <2>6 DEF StoreJobID, Goto, Answer, queue
  <2>7. CASE Fetch(r)
    BY <2>7 DEF Fetch, Goto, Answer, queue
  <2>8. CASE DeleteTask(r)
    BY <2>8 DEF DeleteTask, Goto
  <2>9. CASE Cancel(r)
    BY <2>9 DEF Cancel, Goto, Answer, queue
  <2> QED BY <1>1, <2>1, <2>2, <2>3, <2>4, <2>5, <2>6, <2>7, <2>8, <2>9
             DEF Handle
<1>2. ASSUME NEW t \in Requests, Work(t) PROVE HandlersMove
  <2>1. UNCHANGED <<handlers, before>>
    BY <1>2 DEF Work, Fire, ReadSub, GetDeviceTokens, Finish, SendToToken
  <2>2. \/ UNCHANGED task
        \/ \E new \in {"active", "waiting", "archived", "done"} :
              task' = [task EXCEPT ![t] = new]
    BY <1>2 DEF Work, Fire, ReadSub, GetDeviceTokens, Finish, SendToToken, Retry,
       Return, AfterRetry, queue
  <2> QED BY <2>1, <2>2 DEF TypeOK, handlers
<1>3. CASE DeleteEvent
  BY <1>3 DEF DeleteEvent, queue, handlers, observers
<1>4. ASSUME NEW d \in Devices, DeviceChange(d) PROVE HandlersMove
  BY <1>4 DEF DeviceChange, queue, handlers, observers
<1>5. CASE Crash
  BY <1>5 DEF Crash, AfterRetry, TypeOK
<1>6. CASE UNCHANGED vars
  BY <1>6 DEF vars, queue, handlers, observers
<1> QED BY <1>1, <1>2, <1>3, <1>4, <1>5, <1>6 DEF Next

\* A status is settled once.
Settles(s, new) ==
    /\ status[s] = "pending"
    /\ status' = [status EXCEPT ![s] = new]
    /\ UNCHANGED born
\* The four things a step may do to the rows.
RowsMove ==
    \/ UNCHANGED <<status, born>>
    \/ \E r \in Requests :
          /\ pc[r] = "insert" /\ pc'[r] \in {"enqueue", "done"}
          /\ pc'[r] = "enqueue" \/ r \in disturbed'
          /\ got'[r] = {r}
          /\ Active = {}
          /\ InsertRow(r)
    \/ \E s \in Requests, new \in {"sent", "failed"} : Settles(s, new)
    \/ status' = [s \in Requests |-> "none"] /\ UNCHANGED born

LEMMA RowStep == Core /\ [Next]_vars => RowsMove
<1> SUFFICES ASSUME Core, [Next]_vars PROVE RowsMove
  OBVIOUS
<1> USE DEF Core
<1>1. ASSUME NEW r \in Requests, Send(r) \/ Handle(r) PROVE RowsMove
  <2>1. CASE Insert(r)
    <3>1. CASE /\ Active = {} /\ InsertRow(r)
               /\ \/ Goto(r, "enqueue")
                  \/ Answer(r, "error") /\ Fault({r})
      <4>1. /\ pc[r] = "insert" /\ pc'[r] \in {"enqueue", "done"}
            /\ pc'[r] = "enqueue" \/ r \in disturbed'
        BY <2>1, <3>1 DEF Insert, Goto, Answer, Fault, TypeOK
      <4>2. got'[r] = {r}
        BY <3>1 DEF InsertRow, TypeOK
      <4> QED BY <3>1, <4>1, <4>2 DEF RowsMove
    <3>2. CASE UNCHANGED rows
      BY <3>2 DEF RowsMove, rows
    <3> QED BY <2>1, <3>1, <3>2 DEF Insert
  <2>2. CASE Cancel(r)
    BY <2>2 DEF RowsMove, Cancel, MarkSubscriptionStatus, Violates, StatusCancelled,
       AllowedStatuses
  <2>3. CASE UNCHANGED rows
    BY <2>3 DEF RowsMove, rows
  <2>4. CASE StoreJobID(r)
    BY <2>4 DEF RowsMove, StoreJobID
  <2> QED BY <1>1, <2>1, <2>2, <2>3, <2>4
             DEF Send, Handle, Exists, Snapshot, Enqueue, Fetch, DeleteTask
<1>2. ASSUME NEW t \in Requests, Work(t) PROVE RowsMove
  <2>1. CASE Finish(t)
    <3>1. PICK s \in got[t] :
             \/ \E new \in {"sent", "failed"} : MarkSubscriptionStatus(s, new)
             \/ UNCHANGED status
      BY <2>1 DEF Finish
    <3>2. s \in Requests /\ UNCHANGED born
      BY <2>1 DEF Finish, TypeOK
    <3> QED BY <3>1, <3>2 DEF RowsMove, Settles, MarkSubscriptionStatus
  <2>2. CASE UNCHANGED rows
    BY <2>2 DEF RowsMove, rows
  <2> QED BY <1>2, <2>1, <2>2 DEF Work, Fire, ReadSub, GetDeviceTokens, SendToToken
<1>3. CASE DeleteEvent
  BY <1>3 DEF DeleteEvent, RowsMove
<1>4. ASSUME NEW d \in Devices, DeviceChange(d) PROVE RowsMove
  BY <1>4 DEF DeviceChange, RowsMove, rows
<1>5. CASE Crash
  BY <1>5 DEF Crash, RowsMove, rows
<1>6. CASE UNCHANGED vars
  BY <1>6 DEF vars, RowsMove, rows
<1> QED BY <1>1, <1>2, <1>3, <1>4, <1>5, <1>6 DEF Next

\* A row that exists keeps its rank, and never becomes pending again.
LEMMA RowStays ==
    ASSUME Core, RowsMove, NEW s \in Requests, born[s] > 0
    PROVE  born'[s] = born[s] /\ (status'[s] = "pending" => status[s] = "pending")
<1>1. ASSUME NEW r \in Requests, pc[r] = "insert", InsertRow(r)
      PROVE  born'[s] = born[s] /\ status'[s] = status[s]
  <2>1. s # r
    BY <1>1 DEF Core, RowInv
  <2> QED BY <1>1, <2>1 DEF Core, TypeOK, InsertRow
<1> QED BY <1>1 DEF RowsMove, Settles, Core, TypeOK

\* Before a row is inserted, none is pending: the index sees to that.
LEMMA ActiveIsPending ==
    ASSUME Core
    PROVE  Active = Pending
  BY DEF Core, TypeOK, RowInv, Active, Pending, AllowedStatuses

\* There is at most one pending row.
LEMMA OnePending ==
    ASSUME Core, NEW s \in Pending, NEW o \in Pending
    PROVE  s = o
<1>1. /\ s \in Requests /\ o \in Requests
      /\ born[s] \in Nat /\ born[o] \in Nat
      /\ born[s] <= born[o] /\ born[o] <= born[s]
      /\ s \in Created
  BY DEF Core, TypeOK, RowInv, Pending, Created
<1> QED BY <1>1 DEF Core, RowInv

LEMMA RowInvStep == Core /\ [Next]_vars => RowInv'
<1> SUFFICES ASSUME Core, [Next]_vars PROVE RowInv'
  OBVIOUS
<1>1. RowsMove /\ HandlersMove
  BY RowStep, HandlerStep DEF Core
<1>2. CASE UNCHANGED born /\ Pending' \subseteq Pending
           /\ \A s \in Requests : status'[s] # "cancelled"
                                /\ (status'[s] # "none" => status[s] # "none")
  <2>1. Created' = Created
    BY <1>2 DEF Created
  <2> QED BY <1>1, <1>2, <2>1 DEF Core, RowInv, HandlersMove, HandlerMoves
<1>3. ASSUME NEW r \in Requests, pc[r] = "insert", pc'[r] \in {"enqueue", "done"},
             Active = {}, InsertRow(r)
      PROVE  RowInv'
  <2> DEFINE n == Cardinality(Created)
  <2>1. born[r] = 0 /\ r \notin Created
    <3>1. born[r] \in Nat
      BY DEF Core, TypeOK
    <3>2. ~(born[r] > 0)
      BY <1>3 DEF Core, RowInv
    <3> QED BY <3>1, <3>2 DEF Created
  <2>2. born' = [born EXCEPT ![r] = 1 + n] /\ n \in Nat
    BY <1>3, FS_CardinalityType DEF InsertRow, Created, Core, RowInv
  <2>3. Created' = Created \cup {r}
    <3>1. \A s \in Requests : born'[s] = IF s = r THEN 1 + n ELSE born[s]
      BY <2>2 DEF Core, TypeOK
    <3>2. 1 + n > 0
      BY <2>2
    <3> HIDE DEF n
    <3> QED BY <3>1, <3>2 DEF Created
  <2>4. IsFiniteSet(Created') /\ Cardinality(Created') = n + 1
    BY <2>1, <2>3, FS_AddElement DEF Core, RowInv
  <2>5. \A s \in Requests : born'[s] = (IF s = r THEN 1 + n ELSE born[s])
                           /\ born[s] \in Nat /\ born[s] <= n
    BY <2>2 DEF Core, TypeOK, RowInv
  <2>6. Pending' = {r} /\ Pending = {}
    BY <1>3, ActiveIsPending DEF InsertRow, Pending, Core, TypeOK
  <2>7. \A s \in Requests : status'[s] # "cancelled"
                           /\ (s # r => status'[s] = status[s])
    BY <1>3 DEF InsertRow, Core, TypeOK, RowInv
  <2>8. kind[r] = "subscribe"
    BY <1>3 DEF Core, HandlerInv, SubscribeStages
  <2>9. \A s \in Created', o \in Requests : born'[s] = born'[o] => s = o
    <3> HIDE DEF n
    <3> SUFFICES ASSUME NEW s \in Created', NEW o \in Requests, born'[s] = born'[o]
                 PROVE  s = o
      OBVIOUS
    <3>1. s \in Requests
      BY DEF Created
    <3>2. CASE s = r \/ o = r
      BY <2>2, <2>5, <3>1, <3>2
    <3>3. CASE s # r /\ o # r
      BY <2>3, <2>5, <3>1, <3>3 DEF Core, RowInv
    <3> QED BY <3>2, <3>3
  <2>10. \A s \in Requests :
            /\ status'[s] # "none" => born'[s] > 0
            /\ born'[s] > 0 => /\ kind'[s] = "subscribe"
                               /\ pc'[s] \in {"enqueue", "jobid", "done"}
            /\ born'[s] <= Cardinality(Created')
    <3> HIDE DEF n
    <3> TAKE s \in Requests
    <3>1. CASE s = r
      BY <1>1, <1>3, <2>2, <2>4, <2>5, <2>8, <3>1 DEF HandlersMove
    <3>2. CASE s # r
      <4>1. born'[s] = born[s] /\ status'[s] = status[s] /\ born[s] <= n + 1
        BY <2>2, <2>5, <2>7, <3>2
      <4>2. /\ status[s] # "none" => born[s] > 0
            /\ born[s] > 0 => /\ kind[s] = "subscribe"
                              /\ pc[s] \in {"enqueue", "jobid", "done"}
        BY DEF Core, RowInv
      <4> QED BY <1>1, <2>4, <4>1, <4>2 DEF HandlersMove, HandlerMoves
    <3> QED BY <3>1, <3>2
  <2>11. \A s \in Pending', o \in Requests : born'[o] <= born'[s]
    <3> HIDE DEF n
    <3> QED BY <2>2, <2>5, <2>6
  <2> QED BY <2>4, <2>7, <2>9, <2>10, <2>11 DEF RowInv
<1>4. CASE UNCHANGED <<status, born>>
  BY <1>2, <1>4 DEF Pending, Core, RowInv
<1>5. ASSUME NEW s \in Requests, NEW new \in {"sent", "failed"}, Settles(s, new)
      PROVE  RowInv'
  BY <1>2, <1>5 DEF Settles, Pending, Core, RowInv, TypeOK
<1>6. CASE status' = [s \in Requests |-> "none"] /\ UNCHANGED born
  BY <1>2, <1>6 DEF Pending, Core, RowInv, TypeOK
<1> QED BY <1>1, <1>3, <1>4, <1>5, <1>6 DEF RowsMove

-----------------------------------------------------------------------------
(* The handlers.                                                           *)

\* At most one row, and one that exists.
OneRow(S) == (\A s \in S : s \in Requests /\ born[s] > 0) /\ (\A s, o \in S : s = o)

\* The newest of the rows that a DELETE may find is one row.
LEMMA NewestIsOne == Core => OneRow(NewestListed)
<1> SUFFICES ASSUME Core PROVE OneRow(NewestListed)
  OBVIOUS
<1>1. \A s \in Listed : s \in Requests /\ born[s] > 0 /\ born[s] \in Nat
  BY DEF Listed, Core, RowInv, TypeOK
<1>2. ASSUME NEW s \in NewestListed, NEW o \in NewestListed PROVE s = o
  <2>1. /\ s \in Listed /\ o \in Listed
        /\ born[s] <= born[o] /\ born[o] <= born[s]
    BY DEF NewestListed
  <2>2. born[s] = born[o]
    BY <1>1, <2>1
  <2> QED BY <1>1, <2>1, <2>2 DEF Core, RowInv, Created
<1> QED BY <1>1, <1>2 DEF OneRow, NewestListed

\* A pending row is the one that the DELETE finds.
LEMMA PendingIsNewest == Core => Pending \subseteq NewestListed
BY DEF Core, TypeOK, RowInv, Pending, Listed, NewestListed

\* What a handler takes up is one row that exists.
GotOrBefore ==
    \A r \in Requests :
        /\ got'[r] = got[r] \/ OneRow(got[r])'
        /\ before'[r] = before[r] \/ \A s \in before'[r] : s \in Requests /\ born'[s] > 0

LEMMA GotStep == Core /\ [Next]_vars => GotOrBefore
<1> SUFFICES ASSUME Core, [Next]_vars PROVE GotOrBefore
  OBVIOUS
<1> USE DEF GotOrBefore
<1>1. ASSUME NEW r \in Requests, Send(r) \/ Handle(r) PROVE GotOrBefore
  <2>1. CASE Send(r)
    <3>1. UNCHANGED <<got, born>> /\ before' = [before EXCEPT ![r] = Pending]
      BY <2>1 DEF Send, rows
    <3>2. \A s \in Pending : s \in Requests /\ born'[s] > 0
      BY <3>1 DEF Pending, Core, RowInv
    <3> QED BY <3>1, <3>2 DEF Core, TypeOK
  <2>2. CASE Snapshot(r)
    <3>1. UNCHANGED <<before, born>> /\ got' = [got EXCEPT ![r] = Pending]
      BY <2>2, ActiveIsPending DEF Snapshot, rows, observers
    <3>2. \A s \in Pending : s \in Requests /\ born'[s] > 0
      BY <3>1 DEF Pending, Core, RowInv
    <3>3. \A s, o \in Pending : s = o
      BY OnePending
    <3> QED BY <3>1, <3>2, <3>3 DEF Core, TypeOK, OneRow
  <2>3. CASE Insert(r)
    <3>1. CASE InsertRow(r)
      <4>1. Cardinality(Created) \in Nat
        BY FS_CardinalityType DEF Core, RowInv
      <4>2. born'[r] > 0 /\ got' = [got EXCEPT ![r] = {r}]
        BY <3>1, <4>1 DEF InsertRow, Created, Core, TypeOK
      <4> QED BY <2>3, <4>2 DEF Insert, OneRow, Core, TypeOK
    <3>2. CASE UNCHANGED got
      BY <2>3, <3>2 DEF Insert
    <3> QED BY <2>3, <3>1, <3>2 DEF Insert
  <2>4. CASE Fetch(r)
    <3>1. CASE got' = [got EXCEPT ![r] = NewestListed]
      <4>1. UNCHANGED <<before, born>>
        BY <2>4 DEF Fetch, rows
      <4> DEFINE newest == NewestListed
      <4>2. OneRow(newest)
        BY NewestIsOne
      <4>3. got' = [got EXCEPT ![r] = newest]
        BY <3>1
      <4> HIDE DEF newest
      <4> QED BY <4>1, <4>2, <4>3 DEF OneRow, Core, TypeOK
    <3>2. CASE UNCHANGED got
      BY <2>4, <3>2 DEF Fetch
    <3> QED BY <2>4, <3>1, <3>2 DEF Fetch
  <2>5. CASE UNCHANGED <<got, before>>
    BY <2>5
  <2> QED BY <1>1, <2>1, <2>2, <2>3, <2>4, <2>5
             DEF Handle, Exists, Enqueue, StoreJobID, DeleteTask, Cancel
<1>2. ASSUME NEW t \in Requests, Work(t) PROVE GotOrBefore
  BY <1>2 DEF Work, Fire, ReadSub, GetDeviceTokens, Finish, SendToToken, handlers
<1>3. CASE DeleteEvent
  BY <1>3 DEF DeleteEvent, handlers, observers
<1>4. ASSUME NEW d \in Devices, DeviceChange(d) PROVE GotOrBefore
  BY <1>4 DEF DeviceChange, handlers, observers
<1>5. CASE Crash
  BY <1>5 DEF Crash
<1>6. CASE UNCHANGED vars
  BY <1>6 DEF vars, handlers, observers
<1> QED BY <1>1, <1>2, <1>3, <1>4, <1>5, <1>6 DEF Next

\* The stages of a handler belong to its kind, and nothing is held or answered
\* too early.
StageInv(r) ==
    /\ pc[r] \in {"idle", "exists", "snapshot", "fetch"} => got[r] = {}
    /\ pc[r] # "done" => reply[r] = "none"
    /\ pc[r] \in SubscribeStages => kind[r] = "subscribe"
    /\ pc[r] \in UnsubscribeStages => kind[r] = "unsubscribe"

LEMMA StageStep ==
    Core /\ [Next]_vars => \A r \in Requests : StageInv(r)'
<1> SUFFICES ASSUME Core, [Next]_vars PROVE \A r \in Requests : StageInv(r)'
  OBVIOUS
<1>0. \A r \in Requests : StageInv(r)
  BY DEF Core, HandlerInv, StageInv
<1> USE DEF StageInv, SubscribeStages, UnsubscribeStages
<1>1. ASSUME NEW r \in Requests, Send(r) \/ Handle(r)
      PROVE  \A o \in Requests : StageInv(o)'
  <2> USE <1>0 DEF Core, TypeOK
  <2>1. CASE Send(r)
    BY <2>1 DEF Send, Goto
  <2>2. CASE Exists(r)
    BY <2>2 DEF Exists, Goto, Answer
  <2>3. CASE Snapshot(r)
    BY <2>3 DEF Snapshot, Goto
  <2>4. CASE Insert(r)
    BY <2>4 DEF Insert, InsertRow, Goto, Answer
  <2>5. CASE Enqueue(r)
    BY <2>5 DEF Enqueue, Goto, Answer
  <2>6. CASE StoreJobID(r)
    BY <2>6 DEF StoreJobID, Goto, Answer
  <2>7. CASE Fetch(r)
    BY <2>7 DEF Fetch, Goto, Answer
  <2>8. CASE DeleteTask(r)
    BY <2>8 DEF DeleteTask, Goto
  <2>9. CASE Cancel(r)
    BY <2>9 DEF Cancel, Goto, Answer
  <2> QED BY <1>1, <2>1, <2>2, <2>3, <2>4, <2>5, <2>6, <2>7, <2>8, <2>9
             DEF Handle
<1>2. ASSUME NEW t \in Requests, Work(t) PROVE \A r \in Requests : StageInv(r)'
  <2>1. UNCHANGED handlers
    BY <1>2 DEF Work, Fire, ReadSub, GetDeviceTokens, Finish, SendToToken
  <2> QED BY <1>0, <2>1 DEF handlers
<1>3. CASE DeleteEvent
  BY <1>0, <1>3 DEF DeleteEvent, handlers
<1>4. ASSUME NEW d \in Devices, DeviceChange(d) PROVE \A r \in Requests : StageInv(r)'
  BY <1>0, <1>4 DEF DeviceChange, handlers
<1>5. CASE Crash
  BY <1>0, <1>5 DEF Crash, Core, TypeOK
<1>6. CASE UNCHANGED vars
  BY <1>0, <1>6 DEF vars, handlers
<1> QED BY <1>1, <1>2, <1>3, <1>4, <1>5, <1>6 DEF Next

LEMMA HandlerInvStep == Core /\ [Next]_vars => HandlerInv'
<1> SUFFICES ASSUME Core, [Next]_vars, NEW r \in Requests
             PROVE  /\ \A s \in got'[r] \cup before'[r] : born'[s] > 0
                    /\ \A s, o \in got'[r] : s = o
  BY StageStep DEF HandlerInv, StageInv
<1>1. GotOrBefore /\ RowsMove
  BY GotStep, RowStep
<1>2. /\ \A s \in got[r] \cup before[r] : s \in Requests /\ born[s] > 0
      /\ \A s, o \in got[r] : s = o
  BY DEF Core, HandlerInv, TypeOK
<1>3. \A s \in got[r] \cup before[r] : born'[s] > 0
  BY <1>1, <1>2, RowStays
<1> QED BY <1>1, <1>2, <1>3 DEF GotOrBefore, OneRow

-----------------------------------------------------------------------------
(* The tasks.                                                              *)

\* A run that ends leaves an idle worker behind, and a task that may be retried
\* has a retry left.
LEMMA EndOfRun ==
    ASSUME Core, NEW t \in Requests, worker[t].stage # "idle",
           Retry(t) \/ Return(t), UNCHANGED handlers
    PROVE  TaskInv'
<1>1. task[t] = "active" /\ retried[t] \in Nat /\ retried[t] <= MaxRetry
  BY DEF Core, TypeOK, TaskInv, Live
<1>2. /\ task' = [task EXCEPT ![t] = task'[t]]
      /\ task'[t] \in {"waiting", "archived", "done"}
      /\ task'[t] = "waiting" => retried'[t] <= MaxRetry
      /\ retried' = [retried EXCEPT ![t] = retried'[t]]
      /\ worker' = [worker EXCEPT ![t] = Idle]
  BY <1>1, BoundsAssumption DEF Core, TypeOK, Retry, Return, AfterRetry
<1> QED BY <1>1, <1>2 DEF Core, TypeOK, TaskInv, Live, Idle, handlers

LEMMA TaskInvStep == Core /\ [Next]_vars => TaskInv'
<1> SUFFICES ASSUME Core, [Next]_vars PROVE TaskInv'
  OBVIOUS
<1>0. /\ task \in [Requests -> {"none", "waiting", "active", "done", "archived",
                                "deleted"}]
      /\ retried \in [Requests -> 0 .. MaxRetry + 1]
      /\ pc \in [Requests -> {"idle", "exists", "snapshot", "insert", "enqueue",
                              "jobid", "fetch", "delete", "cancel", "done"}]
      /\ TaskInv
  BY DEF Core, TypeOK
<1>1. ASSUME NEW r \in Requests, Send(r) \/ Handle(r) PROVE TaskInv'
  <2> USE <1>0 DEF TaskInv, Live
  <2>1. CASE Send(r)
    BY <2>1 DEF Send, Goto, queue
  <2>2. CASE Exists(r)
    BY <2>2 DEF Exists, Goto, Answer, queue
  <2>3. CASE Snapshot(r)
    BY <2>3 DEF Snapshot, Goto, queue
  <2>4. CASE Insert(r)
    BY <2>4 DEF Insert, Goto, Answer, queue
  <2>5. CASE Enqueue(r)
    <3>1. task[r] = "none" /\ retried[r] = 0 /\ kind[r] = "subscribe"
      BY <2>5 DEF Enqueue, Core, HandlerInv, SubscribeStages
    <3>2. /\ pc' = [pc EXCEPT ![r] = pc'[r]]
          /\ task' = [task EXCEPT ![r] = task'[r]]
          /\ \/ pc'[r] = "jobid" /\ task'[r] = "waiting"
             \/ pc'[r] = "done" /\ task'[r] \in {"none", "waiting"}
          /\ UNCHANGED <<kind, retried, worker>>
      BY <2>5, <3>1 DEF Enqueue, Goto, Answer
    <3>3. 0 <= MaxRetry
      BY BoundsAssumption
    <3> QED BY <3>1, <3>2, <3>3
  <2>6. CASE StoreJobID(r)
    BY <2>6 DEF StoreJobID, Goto, Answer, queue
  <2>7. CASE Fetch(r)
    BY <2>7 DEF Fetch, Goto, Answer, queue
  <2>8. CASE DeleteTask(r)
    BY <2>8 DEF DeleteTask, Goto
  <2>9. CASE Cancel(r)
    BY <2>9 DEF Cancel, Goto, Answer, queue
  <2> QED BY <1>1, <2>1, <2>2, <2>3, <2>4, <2>5, <2>6, <2>7, <2>8, <2>9
             DEF Handle
<1>2. ASSUME NEW t \in Requests, Work(t) PROVE TaskInv'
  <2>1. UNCHANGED handlers
    BY <1>2 DEF Work, Fire, ReadSub, GetDeviceTokens, Finish, SendToToken
  <2>2. CASE Fire(t)
    BY <1>0, <2>1, <2>2 DEF Fire, TaskInv, Live, handlers, Core, TypeOK
  <2>3. CASE worker[t].stage # "idle" /\ (Retry(t) \/ Return(t))
    BY <2>1, <2>3, EndOfRun
  <2>4. CASE /\ worker[t].stage # "idle" /\ UNCHANGED queue
             /\ \A o \in Requests \ {t} : worker'[o] = worker[o]
    BY <1>0, <2>1, <2>4 DEF TaskInv, Live, queue, handlers
  <2>5. \/ Fire(t)
        \/ worker[t].stage # "idle" /\ (Retry(t) \/ Return(t))
        \/ /\ worker[t].stage # "idle" /\ UNCHANGED queue
           /\ \A o \in Requests \ {t} : worker'[o] = worker[o]
    <3>1. CASE ReadSub(t)
      BY <3>1 DEF ReadSub, Core, TypeOK
    <3>2. CASE GetDeviceTokens(t)
      BY <3>2 DEF GetDeviceTokens, Core, TypeOK
    <3>3. CASE Finish(t)
      BY <3>3 DEF Finish
    <3>4. ASSUME NEW d \in Devices, SendToToken(t, d)
          PROVE  /\ worker[t].stage # "idle" /\ UNCHANGED queue
                 /\ \A o \in Requests \ {t} : worker'[o] = worker[o]
      <4>1. \/ worker' = [worker EXCEPT ![t].left = worker[t].left \ {d}, ![t].hit = TRUE]
            \/ worker' = [worker EXCEPT ![t].left = worker[t].left \ {d}]
        BY <3>4 DEF SendToToken
      <4> QED BY <3>4, <4>1 DEF SendToToken, Core, TypeOK
    <3> QED BY <1>2, <3>1, <3>2, <3>3, <3>4 DEF Work
  <2> QED BY <2>2, <2>3, <2>4, <2>5
<1>3. CASE DeleteEvent
  BY <1>0, <1>3 DEF DeleteEvent, queue, handlers, TaskInv, Live
<1>4. ASSUME NEW d \in Devices, DeviceChange(d) PROVE TaskInv'
  BY <1>0, <1>4 DEF DeviceChange, queue, handlers, TaskInv, Live
<1>5. CASE Crash
  <2>1. \A t \in Requests :
           /\ task'[t] = IF task[t] = "active" THEN AfterRetry(t) ELSE task[t]
           /\ retried'[t] = IF task[t] = "active" THEN retried[t] + 1 ELSE retried[t]
           /\ pc'[t] = IF pc[t] = "idle" THEN "idle" ELSE "done"
           /\ worker'[t] = Idle
    BY <1>5 DEF Crash
  <2>2. kind' = kind
    BY <1>5 DEF Crash
  <2>3. Idle.stage = "idle"
    BY DEF Idle
  <2>4. ASSUME NEW t \in Requests
        PROVE  /\ task'[t] # "none" => task[t] # "none"
               /\ task'[t] = "none" => task[t] = "none" /\ retried'[t] = retried[t]
               /\ Live(t)' => retried'[t] <= MaxRetry
    <3>1. retried[t] \in Nat
      BY <1>0
    <3> QED BY <1>0, <2>1, <3>1, BoundsAssumption DEF TaskInv, Live, AfterRetry
  <2> QED BY <1>0, <2>1, <2>2, <2>3, <2>4 DEF TaskInv
<1>6. CASE UNCHANGED vars
  BY <1>0, <1>6 DEF vars, queue, handlers, TaskInv, Live
<1> QED BY <1>1, <1>2, <1>3, <1>4, <1>5, <1>6 DEF Next

\* A job_id, stored or read, keeps naming a task of the row.
LEMMA JobInvStep == Core /\ [Next]_vars => JobInv'
<1> SUFFICES ASSUME Core, [Next]_vars PROVE JobInv'
  OBVIOUS
<1>1. HandlersMove
  BY HandlerStep DEF Core
<1>2. \A t \in Requests : task[t] # "none" => got'[t] = got[t] /\ task'[t] # "none"
  BY <1>1 DEF HandlersMove, HandlerMoves, Core, TaskInv
<1>3. /\ job \in [Requests -> SUBSET Requests] /\ aim \in [Requests -> SUBSET Requests]
      /\ got \in [Requests -> SUBSET Requests]
      /\ JobInv
  BY DEF Core, TypeOK
<1>4. ASSUME NEW s \in Requests, NEW t \in job'[s]
      PROVE  s \in got'[t] /\ task'[t] # "none"
  <2>1. CASE t \in job[s]
    BY <1>2, <1>3, <2>1 DEF JobInv
  <2>2. CASE t \notin job[s]
    <3>1. \E r \in Requests : StoreJobID(r) /\ t = r /\ s \in got[r]
      <4>1. CASE DeleteEvent
        BY <1>4, <4>1 DEF DeleteEvent
      <4>2. CASE UNCHANGED job
        BY <1>4, <2>2, <4>2
      <4>3. ASSUME NEW r \in Requests, StoreJobID(r) PROVE t = r /\ s \in got[r]
        BY <1>4, <2>2, <4>3 DEF StoreJobID
      <4> QED BY <4>1, <4>2, <4>3
              DEF Next, Send, Handle, Work, Exists, Snapshot, Insert, InsertRow,
                  Enqueue, Fetch, DeleteTask, Cancel, Fire, ReadSub,
                  GetDeviceTokens, Finish, SendToToken, DeviceChange, Crash, rows,
                  vars
    <3>2. PICK r \in Requests : StoreJobID(r) /\ t = r /\ s \in got[r]
      BY <3>1
    <3>3. task[r] # "none"
      BY <3>2 DEF StoreJobID, Core, TaskInv
    <3> QED BY <1>2, <3>2, <3>3
  <2> QED BY <2>1, <2>2
<1>5. ASSUME NEW r \in Requests, NEW t \in aim'[r]
      PROVE  kind'[r] = "unsubscribe" /\ got'[t] \subseteq got'[r] /\ task'[t] # "none"
  <2>1. CASE aim'[r] = aim[r]
    <3>1. /\ t \in Requests /\ kind[r] = "unsubscribe" /\ got[t] \subseteq got[r]
          /\ task[t] # "none"
      BY <1>3, <1>5, <2>1 DEF JobInv
    <3>2. got[r] = {} \/ got'[r] = got[r]
      BY <1>1, <3>1 DEF HandlersMove, HandlerMoves, Core, HandlerInv, SubscribeStages,
         TypeOK
    <3> QED BY <1>1, <1>2, <3>1, <3>2 DEF HandlersMove
  <2>2. CASE aim'[r] # aim[r]
    <3>1. pc[r] = "fetch" /\ aim' = [aim EXCEPT ![r] = UNION {job[s] : s \in NewestListed}]
          /\ got' = [got EXCEPT ![r] = NewestListed]
      <4>1. \/ UNCHANGED aim
            \/ \E o \in Requests :
                  /\ pc[o] = "fetch"
                  /\ aim' = [aim EXCEPT ![o] = UNION {job[s] : s \in NewestListed}]
                  /\ got' = [got EXCEPT ![o] = NewestListed]
        BY DEF Next, Send, Handle, Work, Exists, Snapshot, Insert, InsertRow,
               Enqueue, StoreJobID, Fetch, DeleteTask, Cancel, Fire, ReadSub,
               GetDeviceTokens, Finish, SendToToken, DeleteEvent, DeviceChange,
               Crash, handlers, vars
      <4>2. PICK o \in Requests :
               /\ pc[o] = "fetch"
               /\ aim' = [aim EXCEPT ![o] = UNION {job[s] : s \in NewestListed}]
               /\ got' = [got EXCEPT ![o] = NewestListed]
        BY <2>2, <4>1
      <4>3. o = r
        <5> DEFINE jobs == UNION {job[s] : s \in NewestListed}
        <5>1. aim' = [aim EXCEPT ![o] = jobs]
          BY <4>2
        <5> HIDE DEF jobs
        <5> QED BY <1>3, <2>2, <5>1
      <4> QED BY <4>2, <4>3
    <3>2. PICK s \in NewestListed : t \in job[s]
      BY <1>3, <1>5, <3>1
    <3>3. OneRow(NewestListed) /\ s \in Requests
      BY NewestIsOne DEF OneRow
    <3>4. s \in got[t] /\ task[t] # "none" /\ t \in Requests
      BY <1>3, <3>2, <3>3 DEF JobInv
    <3>5. got[t] \subseteq {s}
      BY <3>4 DEF Core, HandlerInv
    <3>6. s \in got'[r]
      BY <1>3, <3>1, <3>2
    <3>7. kind'[r] = "unsubscribe"
      BY <1>1, <3>1 DEF HandlersMove, Core, HandlerInv, UnsubscribeStages
    <3> QED BY <1>2, <3>4, <3>5, <3>6, <3>7
  <2> QED BY <2>1, <2>2
<1> QED BY <1>4, <1>5 DEF JobInv

LEMMA InitCore == Init => Core
<1> SUFFICES ASSUME Init PROVE Core
  OBVIOUS
<1>1. TypeOK
  BY BoundsAssumption DEF Init, TypeOK, Idle
<1>2. Created = {}
  BY DEF Init, Created
<1>3. RowInv
  BY <1>2, FS_EmptySet DEF Init, RowInv, Pending
<1> QED BY <1>1, <1>3, BoundsAssumption
        DEF Init, Core, HandlerInv, TaskInv, JobInv, Live, Idle, SubscribeStages,
            UnsubscribeStages

LEMMA CoreStep == Core /\ [Next]_vars => Core'
BY TypeStep, RowInvStep, HandlerInvStep, TaskInvStep, JobInvStep DEF Core

\* The core invariant holds throughout.
LEMMA CoreHolds == Spec => []Core
BY InitCore, CoreStep, PTL DEF Spec

\* The variables keep their types; a row has a status the database accepts.
THEOREM TypeCorrect == Spec => []TypeOK
BY CoreHolds, PTL DEF Core

-----------------------------------------------------------------------------
(* DELETE never lies about what it found.                                  *)

\* From the SELECT to the UPDATE, the handler has the row that was pending when
\* the request was sent, if it still is.
GoneInv ==
    /\ \A r \in Requests :
          pc[r] \in {"delete", "cancel"} => before[r] \cap Pending \subseteq got[r]
    /\ UnsubscribeNeverLies

\* Only two steps answer that the subscription is gone.
LEMMA GoneStep ==
    ASSUME Core, [Next]_vars, NEW r \in Requests
    PROVE  /\ reply'[r] = "gone" =>
                 \/ reply[r] = "gone"
                 \/ Fetch(r) /\ NewestListed = {}
                 \/ Cancel(r) /\ \E s \in got[r] : ~Violates(s, StatusCancelled)
           /\ pc'[r] \in {"delete", "cancel"} =>
                 \/ pc[r] \in {"delete", "cancel"}
                 \/ pc[r] = "fetch" /\ got'[r] = NewestListed
<1> USE DEF Core, TypeOK
<1>1. ASSUME NEW o \in Requests, Send(o) \/ Handle(o)
      PROVE  /\ reply'[r] = "gone" =>
                   \/ reply[r] = "gone"
                   \/ Fetch(r) /\ NewestListed = {}
                   \/ Cancel(r) /\ \E s \in got[r] : ~Violates(s, StatusCancelled)
             /\ pc'[r] \in {"delete", "cancel"} =>
                   \/ pc[r] \in {"delete", "cancel"}
                   \/ pc[r] = "fetch" /\ got'[r] = NewestListed
  <2>1. CASE o # r
    <3>1. reply'[r] = reply[r] /\ pc'[r] = pc[r]
      BY <1>1, <2>1 DEF Handle, Send, Exists, Snapshot, Insert, Enqueue, StoreJobID,
         Fetch, DeleteTask, Cancel, Goto, Answer
    <3> QED BY <3>1
  <2>2. CASE o = r /\ Fetch(r)
    BY <2>2 DEF Fetch, Goto, Answer
  <2>3. CASE o = r /\ Cancel(r)
    BY <2>3 DEF Cancel, Goto, Answer
  <2>4. CASE o = r /\ DeleteTask(r)
    BY <2>4 DEF DeleteTask, Goto
  <2>5. CASE /\ o = r
             /\ \/ Send(r) \/ Exists(r) \/ Snapshot(r) \/ Insert(r) \/ Enqueue(r)
                \/ StoreJobID(r)
    BY <2>5 DEF Send, Exists, Snapshot, Insert, Enqueue, StoreJobID, Goto, Answer
  <2> QED BY <1>1, <2>1, <2>2, <2>3, <2>4, <2>5 DEF Handle
<1>2. CASE UNCHANGED handlers
  BY <1>2 DEF handlers
<1>3. CASE Crash
  BY <1>3 DEF Crash
<1>4. CASE \/ \E t \in Requests : Work(t)
           \/ DeleteEvent
           \/ \E d \in Devices : DeviceChange(d)
           \/ UNCHANGED vars
  <2>1. UNCHANGED handlers
    BY <1>4 DEF Work, Fire, ReadSub, GetDeviceTokens, Finish, SendToToken,
       DeleteEvent, DeviceChange, vars
  <2> QED BY <1>2, <2>1
<1> QED BY <1>1, <1>3, <1>4 DEF Next

LEMMA GoneInvStep == Core /\ GoneInv /\ [Next]_vars => GoneInv'
<1> SUFFICES ASSUME Core, GoneInv, [Next]_vars, NEW r \in Requests
             PROVE  /\ pc'[r] \in {"delete", "cancel"}
                          => before'[r] \cap Pending' \subseteq got'[r]
                    /\ reply'[r] = "gone"
                          => \A s \in before'[r] : status'[s] # "pending"
  BY DEF GoneInv, UnsubscribeNeverLies
<1>1. RowsMove /\ HandlersMove
  BY RowStep, HandlerStep DEF Core
<1>2. \A s \in before[r] : /\ s \in Requests
                           /\ status'[s] = "pending" => status[s] = "pending"
  BY <1>1, RowStays DEF Core, HandlerInv, TypeOK
<1>3. ASSUME pc'[r] \in {"delete", "cancel"}
      PROVE  before'[r] \cap Pending' \subseteq got'[r]
  <2>1. CASE pc[r] \in {"delete", "cancel"}
    <3>1. before'[r] = before[r] /\ got'[r] = got[r]
      BY <1>1, <2>1 DEF HandlersMove, HandlerMoves
    <3> QED BY <1>2, <2>1, <3>1 DEF GoneInv, Pending
  <2>2. CASE pc[r] = "fetch" /\ got'[r] = NewestListed
    <3>1. before'[r] = before[r]
      BY <1>1, <2>2 DEF HandlersMove, HandlerMoves
    <3> QED BY <1>2, <2>2, <3>1, PendingIsNewest DEF Pending
  <2> QED BY <1>3, <2>1, <2>2, GoneStep
<1>4. ASSUME reply'[r] = "gone", NEW s \in before'[r], status'[s] = "pending"
      PROVE  FALSE
  <2>1. CASE reply[r] = "gone"
    <3>1. before'[r] = before[r]
      BY <1>1, <2>1 DEF HandlersMove, HandlerMoves, Core, HandlerInv
    <3> QED BY <1>2, <1>4, <2>1, <3>1 DEF GoneInv, UnsubscribeNeverLies
  <2>2. CASE Fetch(r) /\ NewestListed = {}
    <3>1. s \in before[r]
      BY <1>4, <2>2 DEF Fetch
    <3> QED BY <1>2, <1>4, <2>2, <3>1, PendingIsNewest DEF Pending
  <2>3. ASSUME Cancel(r), NEW o \in got[r], ~Violates(o, StatusCancelled)
        PROVE  FALSE
    <3>1. s \in before[r] /\ pc[r] = "cancel"
      BY <1>4, <2>3 DEF Cancel
    <3>2. s \in got[r] /\ status[s] = "pending"
      BY <1>2, <1>4, <3>1 DEF GoneInv, Pending
    <3>3. s = o
      BY <3>2 DEF Core, HandlerInv
    <3> QED BY <2>3, <3>2, <3>3 DEF Violates, StatusCancelled, AllowedStatuses
  <2> QED BY <1>4, <2>1, <2>2, <2>3, GoneStep
<1> QED BY <1>3, <1>4

\* A client told that its subscription is gone has none of those left that were
\* pending when it asked, whatever other requests, workers and faults do.
THEOREM GoneIsGone == Spec => []UnsubscribeNeverLies
<1>1. Init => GoneInv
  BY DEF Init, GoneInv, UnsubscribeNeverLies
<1> QED BY <1>1, CoreHolds, GoneInvStep, PTL DEF Spec, GoneInv

-----------------------------------------------------------------------------
(* The runs of the worker.                                                 *)

\* A run is moved by its own steps, and a crash ends it.
RunMoves(t) ==
    \/ worker'[t] = worker[t]
    \/ Work(t)
    \/ worker'[t] = Idle /\ Crash
\* What was observed stays observed.
ObserversGrow ==
    /\ notified \subseteq notified' /\ unreachable \subseteq unreachable'
    /\ disturbed \subseteq disturbed'
\* Only the end of a run marks a row as sent.
SentByRun(s) ==
    status'[s] = "sent" =>
        \/ status[s] = "sent"
        \/ \E t \in Requests : /\ worker[t].stage = "send" /\ s \in got[t]
                               /\ worker[t].found => worker[t].hit

LEMMA RunStep ==
    ASSUME Core, [Next]_vars
    PROVE  /\ ObserversGrow
           /\ \A t \in Requests : RunMoves(t)
           /\ \A s \in Requests : SentByRun(s)
<1> USE DEF Core, TypeOK
<1>1. ASSUME NEW r \in Requests, Send(r) \/ Handle(r)
      PROVE  /\ ObserversGrow /\ UNCHANGED worker
             /\ \A s \in Requests : SentByRun(s)
  <2>1. UNCHANGED <<worker, notified, unreachable>> /\ disturbed \subseteq disturbed'
    BY <1>1 DEF Handle, Send, Exists, Snapshot, Insert, Enqueue, StoreJobID, Fetch,
       DeleteTask, Cancel, Fault, NoFault, observers
  <2>2. CASE Insert(r) \/ Cancel(r)
    BY <2>1, <2>2 DEF ObserversGrow, SentByRun, Insert, InsertRow, Cancel,
       MarkSubscriptionStatus, Violates, StatusCancelled, rows
  <2>3. CASE UNCHANGED status
    BY <2>1, <2>3 DEF ObserversGrow, SentByRun
  <2> QED BY <1>1, <2>2, <2>3
             DEF Handle, Send, Exists, Snapshot, Enqueue, StoreJobID, Fetch,
                 DeleteTask, rows
<1>2. ASSUME NEW t \in Requests, Work(t)
      PROVE  /\ ObserversGrow
             /\ \A u \in Requests : RunMoves(u)
             /\ \A s \in Requests : SentByRun(s)
  <2>1. ObserversGrow
    BY <1>2 DEF ObserversGrow, Work, Fire, ReadSub, GetDeviceTokens, Finish,
       SendToToken, RunFault, Fault, NoFault
  <2>2. \A u \in Requests \ {t} : worker'[u] = worker[u]
    <3>1. CASE Fire(t)
      BY <3>1 DEF Fire
    <3>2. CASE ReadSub(t)
      BY <3>2 DEF ReadSub, Retry, Return
    <3>3. CASE GetDeviceTokens(t)
      BY <3>3 DEF GetDeviceTokens, Retry
    <3>4. CASE Finish(t)
      BY <3>4 DEF Finish, Retry, Return
    <3>5. ASSUME NEW d \in Devices, SendToToken(t, d)
          PROVE  \A u \in Requests \ {t} : worker'[u] = worker[u]
      BY <3>5 DEF SendToToken
    <3> QED BY <1>2, <3>1, <3>2, <3>3, <3>4, <3>5 DEF Work
  <2>3. \A s \in Requests : SentByRun(s)
    <3>1. CASE Finish(t)
      <4>1. PICK o \in got[t] :
               \/ MarkSubscriptionStatus(o, IF worker[t].found /\ ~worker[t].hit
                                            THEN "failed" ELSE "sent")
               \/ UNCHANGED status
        BY <3>1 DEF Finish
      <4> QED BY <3>1, <4>1 DEF Finish, MarkSubscriptionStatus, SentByRun
    <3>2. CASE UNCHANGED status
      BY <3>2 DEF SentByRun
    <3> QED BY <1>2, <3>1, <3>2
               DEF Work, Fire, ReadSub, GetDeviceTokens, SendToToken, rows
  <2> QED BY <1>2, <2>1, <2>2, <2>3 DEF RunMoves
<1>3. CASE DeleteEvent
  BY <1>3 DEF DeleteEvent, ObserversGrow, RunMoves, SentByRun, observers
<1>4. ASSUME NEW d \in Devices, DeviceChange(d)
      PROVE  /\ ObserversGrow
             /\ \A t \in Requests : RunMoves(t)
             /\ \A s \in Requests : SentByRun(s)
  BY <1>4 DEF DeviceChange, ObserversGrow, RunMoves, SentByRun, observers, rows
<1>5. CASE Crash
  BY <1>5 DEF Crash, Fault, ObserversGrow, RunMoves, SentByRun, rows
<1>6. CASE UNCHANGED vars
  BY <1>6 DEF vars, ObserversGrow, RunMoves, SentByRun, observers, rows
<1> QED BY <1>1, <1>2, <1>3, <1>4, <1>5, <1>6 DEF Next, RunMoves

\* While a task runs, its row is the same.
LEMMA RunKeepsRow ==
    ASSUME Core, HandlersMove, NEW t \in Requests,
           worker[t].stage # "idle" \/ task[t] # "none"
    PROVE  got'[t] = got[t] /\ task[t] # "none"
  BY DEF Core, TaskInv, HandlersMove, HandlerMoves

\* A run that has sent anything has told a device of its row; one that found no
\* device says so.
Told(s) == \E d \in Devices : <<s, d>> \in notified
SentInv ==
    /\ \A t \in Requests :
          worker[t].stage = "send" =>
              /\ ~worker[t].found => got[t] \subseteq unreachable
              /\ worker[t].hit => \A s \in got[t] : Told(s)
    /\ SentTruth

LEMMA SentInvStep == Core /\ SentInv /\ [Next]_vars => SentInv'
<1> SUFFICES ASSUME Core, SentInv, [Next]_vars PROVE SentInv'
  OBVIOUS
<1>1. HandlersMove /\ ObserversGrow
  BY HandlerStep, RunStep DEF Core
<1>2. \A s \in Requests : Told(s) => Told(s)'
  BY <1>1 DEF Told, ObserversGrow
<1>3. ASSUME NEW t \in Requests, worker'[t].stage = "send"
      PROVE  /\ ~worker'[t].found => got'[t] \subseteq unreachable'
             /\ worker'[t].hit => \A s \in got'[t] : Told(s)'
  <2>1. CASE worker'[t] = worker[t]
    <3>1. got'[t] = got[t] /\ \A s \in got[t] : s \in Requests
      BY <1>1, <1>3, <2>1, RunKeepsRow DEF Core, TypeOK
    <3> QED BY <1>1, <1>2, <1>3, <2>1, <3>1 DEF SentInv, ObserversGrow
  <2>2. CASE GetDeviceTokens(t)
    <3>1. ~Retry(t)
      BY <1>3 DEF Retry, Idle, Core, TypeOK
    <3>2. /\ worker' = [worker EXCEPT ![t] = [stage |-> "send", left |-> devices,
                                             found |-> devices # {}, hit |-> FALSE]]
          /\ unreachable' = IF devices = {} THEN unreachable \cup got[t]
                                            ELSE unreachable
          /\ got'[t] = got[t]
      BY <2>2, <3>1 DEF GetDeviceTokens, handlers
    <3>3. worker'[t].found = (devices # {}) /\ worker'[t].hit = FALSE
      BY <3>2 DEF Core, TypeOK
    <3> QED BY <3>2, <3>3
  <2>3. ASSUME NEW d \in Devices, SendToToken(t, d)
        PROVE  /\ ~worker'[t].found => got'[t] \subseteq unreachable'
               /\ worker'[t].hit => \A s \in got'[t] : Told(s)'
    <3>1. UNCHANGED <<got, unreachable>> /\ worker[t].stage = "send"
      BY <2>3 DEF SendToToken, handlers
    <3>2. \/ /\ worker' = [worker EXCEPT ![t].left = worker[t].left \ {d},
                                         ![t].hit = TRUE]
             /\ notified' = notified \cup {<<s, d>> : s \in got[t]}
          \/ worker' = [worker EXCEPT ![t].left = worker[t].left \ {d}]
      BY <2>3 DEF SendToToken
    <3>3. worker'[t].found = worker[t].found
      BY <3>2 DEF Core, TypeOK
    <3>4. CASE notified' = notified \cup {<<s, d>> : s \in got[t]}
      BY <3>1, <3>3, <3>4 DEF SentInv, Told
    <3>5. CASE worker' = [worker EXCEPT ![t].left = worker[t].left \ {d}]
      <4>1. worker'[t].hit = worker[t].hit /\ \A s \in got[t] : s \in Requests
        BY <3>5 DEF Core, TypeOK
      <4> QED BY <1>2, <3>1, <3>3, <4>1 DEF SentInv
    <3> QED BY <3>2, <3>4, <3>5
  <2>4. CASE Fire(t)
    BY <1>3, <2>4 DEF Fire, Core, TypeOK
  <2>5. CASE ReadSub(t)
    BY <1>3, <2>5 DEF ReadSub, Retry, Return, Idle, Core, TypeOK
  <2>6. CASE Finish(t)
    BY <1>3, <2>6 DEF Finish, Retry, Return, Idle, Core, TypeOK
  <2>7. CASE worker'[t] = Idle
    BY <1>3, <2>7 DEF Idle
  <2> QED BY <2>1, <2>2, <2>3, <2>4, <2>5, <2>6, <2>7, RunStep DEF RunMoves, Work
<1>4. SentTruth'
  <2> SUFFICES ASSUME NEW s \in Requests, status'[s] = "sent"
               PROVE  s \in unreachable' \/ Told(s)'
    BY DEF SentTruth, Told
  <2>1. CASE status[s] = "sent"
    BY <1>1, <1>2, <2>1 DEF SentInv, SentTruth, Told, ObserversGrow
  <2>2. CASE status[s] # "sent"
    <3>1. SentByRun(s)
      BY RunStep
    <3>2. PICK t \in Requests : /\ worker[t].stage = "send" /\ s \in got[t]
                                /\ worker[t].found => worker[t].hit
      BY <2>2, <3>1 DEF SentByRun
    <3>3. s \in unreachable \/ Told(s)
      BY <3>2 DEF SentInv
    <3> QED BY <1>1, <1>2, <3>3 DEF ObserversGrow
  <2> QED BY <2>1, <2>2
<1> QED BY <1>3, <1>4 DEF SentInv

\* A row says sent only if a device was told, or there was none to tell.
THEOREM SentIsTrue == Spec => []SentTruth
<1>1. Init => SentInv
  BY DEF Init, SentInv, SentTruth, Idle
<1> QED BY <1>1, CoreHolds, SentInvStep, PTL DEF Spec, SentInv

\* A run that began too late reads a row that is settled, and stays so.
LateInv ==
    \A t \in late :
        /\ worker[t].stage \in {"idle", "read"}
        /\ worker[t].stage = "read" => got[t] \cap Pending = {}

LEMMA LateInvStep == Core /\ LateInv /\ [Next]_vars => LateInv'
<1> SUFFICES ASSUME Core, LateInv, [Next]_vars, NEW t \in late'
             PROVE  /\ worker'[t].stage \in {"idle", "read"}
                    /\ worker'[t].stage = "read" => got'[t] \cap Pending' = {}
  BY DEF LateInv
<1>1. HandlersMove /\ RowsMove /\ t \in Requests
  BY HandlerStep, RowStep, CoreStep DEF Core, TypeOK
<1>2. ASSUME got'[t] = got[t], got[t] \cap Pending = {} PROVE got'[t] \cap Pending' = {}
  <2>1. \A s \in got[t] : s \in Requests /\ born[s] > 0
    BY <1>1 DEF Core, HandlerInv, TypeOK
  <2> QED BY <1>1, <1>2, <2>1, RowStays DEF Pending
<1>3. CASE Fire(t)
  <2>1. worker'[t].stage = "read" /\ UNCHANGED <<got, status>>
    BY <1>1, <1>3 DEF Fire, handlers, rows, Core, TypeOK
  <2>2. ~(got[t] \subseteq Pending)
    BY <1>3 DEF Fire
  <2>3. PICK s \in got[t] : s \notin Pending
    BY <2>2
  <2>4. got[t] \cap Pending = {}
    BY <1>1, <2>3 DEF Core, HandlerInv
  <2> QED BY <1>2, <2>1, <2>4
<1>4. CASE ~Fire(t)
  <2>1. t \in late
    BY <1>1, <1>4 DEF Next, Send, Handle, Work, Exists, Snapshot, Insert, Enqueue,
       StoreJobID, Fetch, DeleteTask, Cancel, Fire, ReadSub, GetDeviceTokens, Finish,
       SendToToken, DeleteEvent, DeviceChange, Crash, observers, vars
  <2>2. CASE worker'[t] = worker[t]
    <3>1. /\ worker[t].stage \in {"idle", "read"}
          /\ worker[t].stage = "read" => got[t] \cap Pending = {}
      BY <2>1 DEF LateInv
    <3>2. worker[t].stage = "read" => got'[t] = got[t]
      BY <1>1, RunKeepsRow
    <3> QED BY <1>2, <2>2, <3>1, <3>2
  <2>3. CASE worker'[t] = Idle
    BY <2>3 DEF Idle
  <2>4. CASE ReadSub(t)
    <3>1. worker[t].stage = "read" /\ got[t] \cap Pending = {}
      BY <2>1, <2>4 DEF LateInv, ReadSub
    <3>2. Retry(t) \/ Return(t)
      BY <1>1, <2>4, <3>1 DEF ReadSub, Pending, Core, TypeOK
    <3> QED BY <1>1, <3>2 DEF Retry, Return, Idle, Core, TypeOK
  <2>5. CASE GetDeviceTokens(t) \/ Finish(t) \/ \E d \in Devices : SendToToken(t, d)
    BY <2>1, <2>5 DEF LateInv, GetDeviceTokens, Finish, SendToToken
  <2> QED BY <1>1, <1>4, <2>2, <2>3, <2>4, <2>5, RunStep DEF RunMoves, Work
<1> QED BY <1>3, <1>4

\* A run that starts when its row is settled or gone sends nothing.
THEOREM LateIsSilent == Spec => []LateRunsAreSilent
<1>1. Init => LateInv
  BY DEF Init, LateInv
<1>2. LateInv => LateRunsAreSilent
  BY DEF LateInv, LateRunsAreSilent
<1> QED BY <1>1, <1>2, CoreHolds, LateInvStep, PTL DEF Spec

-----------------------------------------------------------------------------
(* One reminder per device.                                                *)

HasTask(s, t) == task[t] # "none" /\ s \in got[t]

\* Tasks are made by Enqueue alone, and only for rows that become disturbed if
\* they had one.
LEMMA TaskStep ==
    ASSUME Core, [Next]_vars, NEW t \in Requests, NEW s \in Requests,
           HasTask(s, t)', s \notin disturbed'
    PROVE  \/ HasTask(s, t)
           \/ /\ \A u \in Requests : ~HasTask(s, u)
              /\ \A u \in Requests : HasTask(s, u)' => u = t
              /\ UNCHANGED notified
<1>1. HandlersMove
  BY HandlerStep DEF Core
<1>2. CASE task[t] # "none"
  BY <1>1, <1>2, RunKeepsRow DEF HasTask
<1>3. CASE task[t] = "none"
  <2>1. ASSUME NEW r \in Requests, Enqueue(r) PROVE r = t
    <3>1. r # t => task'[t] = task[t]
      BY <2>1 DEF Enqueue, Core, TypeOK
    <3> QED BY <1>3, <3>1 DEF HasTask
  <2>2. Enqueue(t)
    <3>1. CASE UNCHANGED task
      BY <1>3, <3>1 DEF HasTask
    <3>2. ASSUME NEW r \in Requests, DeleteTask(r) PROVE FALSE
      BY <1>3, <3>2 DEF DeleteTask, HasTask
    <3>3. ASSUME NEW u \in Requests, Work(u) PROVE FALSE
      <4>1. CASE u = t
        <5>1. worker[t].stage = "idle"
          BY <1>3 DEF Core, TaskInv
        <5> QED BY <1>3, <3>3, <4>1, <5>1
                DEF Work, Fire, ReadSub, GetDeviceTokens, Finish, SendToToken
      <4>2. CASE u # t
        <5>1. task'[t] = task[t]
          BY <3>3, <4>2 DEF Work, Fire, ReadSub, GetDeviceTokens, Finish,
             SendToToken, Retry, Return, queue, Core, TypeOK
        <5> QED BY <1>3, <5>1 DEF HasTask
      <4> QED BY <4>1, <4>2
    <3>4. CASE Crash
      BY <1>3, <3>4 DEF Crash, HasTask
    <3> QED BY <2>1, <3>1, <3>2, <3>3, <3>4
            DEF Next, Send, Handle, Exists, Snapshot, Insert, StoreJobID, Fetch,
                Cancel, DeleteEvent, DeviceChange, queue, vars
  <2>3. got' = got /\ UNCHANGED notified /\ s \in got[t]
    BY <2>2 DEF Enqueue, HasTask
  <2>4. \A u \in Requests \ {t} : task'[u] = task[u]
    BY <2>2 DEF Enqueue, Core, TypeOK
  <2>5. \A u \in Requests : ~HasTask(s, u)
    <3>1. CASE disturbed' = disturbed \cup
                 {o \in got[t] : \E u \in Requests : task[u] # "none" /\ o \in got[u]}
      BY <2>3, <3>1 DEF HasTask
    <3>2. CASE Fault(got[t])
      BY <2>3, <3>2 DEF Fault
    <3> QED BY <2>2, <3>1, <3>2 DEF Enqueue
  <2> QED BY <2>3, <2>4, <2>5 DEF HasTask
<1> QED BY <1>2, <1>3

\* Reminders are sent by SendToToken alone.
LEMMA NotifyStep ==
    ASSUME Core, [Next]_vars
    PROVE  \/ UNCHANGED <<notified, twice>>
           \/ \E t \in Requests, d \in Devices :
                /\ SendToToken(t, d)
                /\ worker' = [worker EXCEPT ![t].left = worker[t].left \ {d},
                                           ![t].hit = TRUE]
                /\ notified' = notified \cup {<<s, d>> : s \in got[t]}
                /\ twice' = twice \cup {s \in got[t] : <<s, d>> \in notified}
<1>1. ASSUME NEW t \in Requests, NEW d \in Devices, SendToToken(t, d)
      PROVE  \/ UNCHANGED <<notified, twice>>
             \/ /\ worker' = [worker EXCEPT ![t].left = worker[t].left \ {d},
                                            ![t].hit = TRUE]
                /\ notified' = notified \cup {<<s, d>> : s \in got[t]}
                /\ twice' = twice \cup {s \in got[t] : <<s, d>> \in notified}
  BY <1>1 DEF SendToToken
<1>2. \/ UNCHANGED <<notified, twice>>
      \/ \E t \in Requests, d \in Devices : SendToToken(t, d)
  BY DEF Next, Send, Handle, Work, Exists, Snapshot, Insert, Enqueue, StoreJobID,
     Fetch, DeleteTask, Cancel, Fire, ReadSub, GetDeviceTokens, Finish, DeleteEvent,
     DeviceChange, Crash, observers, vars
<1> QED BY <1>1, <1>2

\* A row has one task. What its task has sent, it sent in the run that is still
\* going, which will not send it again, or its row is no longer pending and no
\* run will get past reading it.
Sending(t, d) ==
    worker[t].stage = "send" /\ worker[t].hit /\ d \notin worker[t].left
Over(s, t) == worker[t].stage \in {"idle", "read"} /\ status[s] # "pending"
OnceInv ==
    /\ \A s \in Requests \ disturbed : \A t, u \in Requests :
          HasTask(s, t) /\ HasTask(s, u) => t = u
    /\ \A s \in Requests, d \in Devices :
          <<s, d>> \in notified => \E t \in Requests : HasTask(s, t)
    /\ \A s \in Requests \ disturbed, t \in Requests, d \in Devices :
          HasTask(s, t) /\ <<s, d>> \in notified => Sending(t, d) \/ Over(s, t)
    /\ RemindedOnce

\* Whatever the task of an undisturbed row does next, what it has sent stays sent
\* once.
LEMMA SentOnceStep ==
    ASSUME Core, [Next]_vars, NEW s \in Requests, s \notin disturbed',
           NEW t \in Requests, NEW d \in Devices, HasTask(s, t),
           Sending(t, d) \/ Over(s, t)
    PROVE  Sending(t, d)' \/ Over(s, t)'
<1>1. HandlersMove /\ RowsMove /\ ObserversGrow
  BY HandlerStep, RowStep, RunStep DEF Core
<1>2. born[s] > 0 /\ \A o \in got[t] : o = s
  BY DEF HasTask, Core, HandlerInv
<1>3. status[s] # "pending" => status'[s] # "pending"
  BY <1>1, <1>2, RowStays
<1>4. CASE worker'[t] = worker[t]
  BY <1>3, <1>4 DEF Sending, Over
<1>5. CASE worker'[t] = Idle /\ Crash
  <2>1. CASE Sending(t, d)
    <3>1. task[t] = "active"
      BY <2>1 DEF Sending, Core, TaskInv
    <3> QED BY <1>5, <3>1 DEF Crash, Fault, InHand, HasTask
  <2> QED BY <1>3, <1>5, <2>1 DEF Over, Idle
<1>6. CASE Fire(t)
  <2>1. ~Sending(t, d)
    BY <1>6 DEF Fire, Sending, Core, TaskInv
  <2>2. worker'[t].stage = "read"
    BY <1>6 DEF Fire, Core, TypeOK
  <2> QED BY <1>3, <2>1, <2>2 DEF Over
<1>7. CASE ReadSub(t)
  <2>1. status[s] # "pending"
    BY <1>7 DEF ReadSub, Sending, Over
  <2>2. Retry(t) \/ Return(t)
    BY <1>2, <1>7, <2>1 DEF ReadSub
  <2>3. worker'[t].stage = "idle"
    BY <2>2 DEF Retry, Return, Idle, Core, TypeOK
  <2> QED BY <1>3, <2>1, <2>3 DEF Over
<1>8. CASE GetDeviceTokens(t)
  BY <1>8 DEF GetDeviceTokens, Sending, Over
<1>9. ASSUME NEW e \in Devices, SendToToken(t, e) PROVE Sending(t, d)'
  <2>1. Sending(t, d)
    BY <1>9 DEF SendToToken, Over
  <2>2. \/ worker' = [worker EXCEPT ![t].left = worker[t].left \ {e}, ![t].hit = TRUE]
        \/ worker' = [worker EXCEPT ![t].left = worker[t].left \ {e}]
    BY <1>9 DEF SendToToken
  <2>3. /\ worker'[t].stage = worker[t].stage
        /\ worker'[t].left = worker[t].left \ {e}
        /\ worker[t].hit => worker'[t].hit
    <3>1. CASE worker' = [worker EXCEPT ![t].left = worker[t].left \ {e}, ![t].hit = TRUE]
      BY <3>1 DEF Core, TypeOK
    <3>2. CASE worker' = [worker EXCEPT ![t].left = worker[t].left \ {e}]
      BY <3>2 DEF Core, TypeOK
    <3> QED BY <2>2, <3>1, <3>2
  <2> QED BY <2>1, <2>3 DEF Sending
<1>10. CASE Finish(t)
  <2>1. worker[t].hit
    BY <1>10 DEF Finish, Sending, Over
  <2>2. MarkSubscriptionStatus(s, "sent") \/ Fault({s})
    BY <1>2, <1>10, <2>1 DEF Finish
  <2>3. status'[s] # "pending"
    BY <1>3, <2>2 DEF MarkSubscriptionStatus, Violates, AllowedStatuses, Fault,
       Core, TypeOK
  <2>4. worker'[t].stage = "idle"
    BY <1>10 DEF Finish, Retry, Return, Idle, Core, TypeOK
  <2> QED BY <2>3, <2>4 DEF Over
<1>11. RunMoves(t)
  BY RunStep
<1> QED BY <1>4, <1>5, <1>6, <1>7, <1>8, <1>9, <1>10, <1>11 DEF RunMoves, Work

LEMMA OnceInvStep == Core /\ OnceInv /\ [Next]_vars => OnceInv'
<1> SUFFICES ASSUME Core, OnceInv, [Next]_vars PROVE OnceInv'
  OBVIOUS
<1>1. HandlersMove /\ ObserversGrow
  BY HandlerStep, RunStep DEF Core
<1>2. \A s, t \in Requests : HasTask(s, t) => HasTask(s, t)'
  BY <1>1, RunKeepsRow DEF HasTask, HandlersMove, HandlerMoves
<1>3. \A s \in Requests : s \notin disturbed' => s \notin disturbed
  BY <1>1 DEF ObserversGrow
<1>4. ASSUME NEW s \in Requests \ disturbed', NEW t \in Requests, NEW u \in Requests,
             HasTask(s, t)', HasTask(s, u)'
      PROVE  t = u
  BY <1>3, <1>4, TaskStep DEF OnceInv
<1>5. ASSUME NEW s \in Requests, NEW d \in Devices, <<s, d>> \in notified'
      PROVE  \E t \in Requests : HasTask(s, t)'
  <2>1. CASE <<s, d>> \in notified
    BY <1>2, <2>1 DEF OnceInv
  <2>2. CASE <<s, d>> \notin notified
    <3>1. PICK t \in Requests, e \in Devices :
             SendToToken(t, e) /\ <<s, d>> \in {<<o, e>> : o \in got[t]}
      BY <1>5, <2>2, NotifyStep
    <3>2. HasTask(s, t)
      BY <3>1 DEF SendToToken, HasTask, Core, TaskInv
    <3> QED BY <1>2, <3>2
  <2> QED BY <2>1, <2>2
<1>6. ASSUME NEW s \in Requests \ disturbed', NEW t \in Requests, NEW d \in Devices,
             HasTask(s, t)', <<s, d>> \in notified'
      PROVE  Sending(t, d)' \/ Over(s, t)'
  <2>1. CASE ~HasTask(s, t)
    BY <1>6, <2>1, TaskStep DEF OnceInv
  <2>2. CASE HasTask(s, t) /\ <<s, d>> \in notified
    BY <1>3, <2>2, SentOnceStep DEF OnceInv
  <2>3. CASE HasTask(s, t) /\ <<s, d>> \notin notified
    <3>1. PICK u \in Requests, e \in Devices :
             /\ SendToToken(u, e)
             /\ worker' = [worker EXCEPT ![u].left = worker[u].left \ {e},
                                        ![u].hit = TRUE]
             /\ <<s, d>> \in {<<o, e>> : o \in got[u]}
      BY <1>6, <2>3, NotifyStep
    <3>2. e = d /\ HasTask(s, u)
      BY <3>1 DEF SendToToken, HasTask, Core, TaskInv
    <3>3. u = t
      BY <1>3, <2>3, <3>2 DEF OnceInv
    <3> QED BY <3>1, <3>2, <3>3 DEF Sending, SendToToken, Core, TypeOK
  <2> QED BY <2>1, <2>2, <2>3
<1>7. RemindedOnce'
  <2> SUFFICES ASSUME NEW s \in twice', s \notin disturbed' PROVE FALSE
    BY DEF RemindedOnce
  <2>1. s \notin disturbed /\ s \notin twice
    BY <1>1 DEF ObserversGrow, OnceInv, RemindedOnce
  <2>2. PICK t \in Requests, d \in Devices :
           SendToToken(t, d) /\ s \in got[t] /\ <<s, d>> \in notified
    BY <2>1, NotifyStep
  <2>3. s \in Requests /\ HasTask(s, t)
    BY <2>2 DEF SendToToken, HasTask, Core, TaskInv, TypeOK
  <2>4. Sending(t, d) \/ Over(s, t)
    BY <2>1, <2>2, <2>3 DEF OnceInv
  <2> QED BY <2>2, <2>4 DEF SendToToken, Sending, Over
<1> QED BY <1>4, <1>5, <1>6, <1>7 DEF OnceInv

\* No device is reminded twice of one subscription, unless a call failed, the
\* process crashed or two tasks were made for the row, whatever the retries.
THEOREM OnceIsOnce == Spec => []RemindedOnce
<1>1. Init => OnceInv
  BY DEF Init, OnceInv, HasTask, RemindedOnce
<1>2. OnceInv => RemindedOnce
  BY DEF OnceInv
<1> QED BY <1>1, <1>2, CoreHolds, OnceInvStep, PTL DEF Spec

-----------------------------------------------------------------------------
(* No reminder is forgotten.                                               *)

\* Someone sees to row s: its task, the handler about to make it, or a DELETE.
Attends(s, r) ==
    s \in got[r] /\ (Live(r) \/ pc[r] = "enqueue" \/ kind[r] = "unsubscribe")

\* A task that can still run goes on, is retried, or has dealt with its row; only
\* a DELETE of that very row takes it away.
LEMMA LiveStep ==
    ASSUME Core, [Next]_vars, NEW s \in Pending, s \in Pending', s \notin disturbed',
           NEW t \in Requests, s \in got[t], Live(t)
    PROVE  \/ Live(t)'
           \/ \E r \in Requests : kind[r] = "unsubscribe" /\ s \in got[r] /\ got' = got
<1>0. /\ s \in Requests /\ status[s] = "pending" /\ status'[s] = "pending"
      /\ \A o \in got[t] : o = s
  BY DEF Pending, Core, HandlerInv
<1> USE DEF Live
<1>1. CASE task'[t] = task[t]
  BY <1>1
<1>2. ASSUME NEW r \in Requests, Enqueue(r) PROVE task'[t] = task[t]
  <2>1. r # t
    BY <1>2 DEF Enqueue, Core, TaskInv
  <2> QED BY <1>2, <2>1 DEF Enqueue, Core, TypeOK
<1>3. ASSUME NEW r \in Requests, DeleteTask(r), task'[t] # task[t]
      PROVE  kind[r] = "unsubscribe" /\ s \in got[r] /\ got' = got
  BY <1>3 DEF DeleteTask, Core, JobInv
<1>4. ASSUME NEW u \in Requests, Work(u), u # t PROVE task'[t] = task[t]
  BY <1>4 DEF Work, Fire, ReadSub, GetDeviceTokens, Finish, SendToToken, Retry,
     Return, queue, Core, TypeOK
<1>5. CASE Fire(t)
  BY <1>5 DEF Fire, Core, TypeOK
<1>6. ASSUME Retry(t), RunFault(t) PROVE Live(t)'
  <2>1. retried[t] < MaxRetry
    BY <1>6 DEF RunFault, Fault
  <2> QED BY <1>6, <2>1 DEF Retry, AfterRetry, Core, TypeOK
<1>7. CASE ReadSub(t)
  <2>1. (Retry(t) /\ RunFault(t)) \/ UNCHANGED queue
    BY <1>0, <1>7 DEF ReadSub
  <2> QED BY <1>1, <1>6, <2>1 DEF queue
<1>8. CASE GetDeviceTokens(t)
  BY <1>1, <1>6, <1>8 DEF GetDeviceTokens, queue
<1>9. CASE Finish(t)
  <2>1. \/ \E new \in {"sent", "failed"} : MarkSubscriptionStatus(s, new)
        \/ Fault({s})
    BY <1>0, <1>9 DEF Finish
  <2> QED BY <1>0, <2>1 DEF MarkSubscriptionStatus, Violates, AllowedStatuses, Fault,
             Core, TypeOK
<1>10. ASSUME NEW d \in Devices, SendToToken(t, d) PROVE task'[t] = task[t]
  BY <1>10 DEF SendToToken, queue
<1>11. CASE Crash
  <2>1. task[t] # "active"
    BY <1>0, <1>11 DEF Crash, Fault, InHand
  <2> QED BY <1>1, <1>11, <2>1 DEF Crash
<1>12. \/ \E r \in Requests : Enqueue(r) \/ DeleteTask(r) \/ Work(r)
       \/ Crash
       \/ UNCHANGED task
  BY DEF Next, Send, Handle, Exists, Snapshot, Insert, StoreJobID, Fetch, Cancel,
     DeleteEvent, DeviceChange, queue, vars
<1> QED BY <1>1, <1>2, <1>3, <1>4, <1>5, <1>7, <1>8, <1>9, <1>10, <1>11, <1>12
        DEF Work

\* A handler about to make the task of its row makes it.
LEMMA EnqueueStep ==
    ASSUME Core, [Next]_vars, NEW r \in Requests, pc[r] = "enqueue",
           NEW s \in got[r], s \in Requests, s \notin disturbed'
    PROVE  Live(r)' \/ pc'[r] = "enqueue"
<1>1. CASE Enqueue(r)
  BY <1>1 DEF Enqueue, Fault, Live, Core, TypeOK
<1>2. CASE Crash
  BY <1>2 DEF Crash, Fault, InHand
<1>3. ASSUME NEW o \in Requests, Send(o) \/ Handle(o), o # r PROVE pc'[r] = pc[r]
  BY <1>3 DEF Handle, Send, Exists, Snapshot, Insert, Enqueue, StoreJobID, Fetch,
     DeleteTask, Cancel, Goto, Answer, Core, TypeOK
<1>4. Send(r) \/ Handle(r) => Enqueue(r)
  BY DEF Handle, Send, Exists, Snapshot, Insert, StoreJobID, Fetch, DeleteTask, Cancel
<1>5. \/ \E o \in Requests : Send(o) \/ Handle(o)
      \/ Crash
      \/ UNCHANGED pc
  BY DEF Next, Work, Fire, ReadSub, GetDeviceTokens, Finish, SendToToken, DeleteEvent,
     DeviceChange, handlers, vars
<1> QED BY <1>1, <1>2, <1>3, <1>4, <1>5

LEMMA NoReminderForgottenStep ==
    Core /\ NoReminderForgotten /\ [Next]_vars => NoReminderForgotten'
<1> SUFFICES ASSUME Core, NoReminderForgotten, [Next]_vars,
                    NEW s \in Pending', s \notin disturbed'
             PROVE  \E r \in Requests : Attends(s, r)'
  BY DEF NoReminderForgotten, Attends
<1>1. HandlersMove /\ RowsMove /\ ObserversGrow /\ s \in Requests
  BY HandlerStep, RowStep, RunStep DEF Core, Pending
<1>2. CASE s \notin Pending
  <2>1. status[s] # "pending" /\ status'[s] = "pending"
    BY <1>1, <1>2 DEF Pending
  <2>2. s \in got'[s] /\ (pc'[s] = "enqueue" \/ s \in disturbed')
    BY <1>1, <2>1 DEF RowsMove, Settles, InsertRow, Core, TypeOK
  <2> QED BY <1>1, <2>2 DEF Attends
<1>3. CASE s \in Pending
  <2>1. PICK r \in Requests : Attends(s, r)
    BY <1>1, <1>3 DEF NoReminderForgotten, Attends, ObserversGrow
  <2>2. got'[r] = got[r] /\ kind'[r] = kind[r] /\ s \in got[r]
    <3>1. pc[r] \in {"enqueue", "jobid", "delete", "cancel", "done"}
      BY <2>1 DEF Attends, Live, Core, TypeOK, TaskInv, HandlerInv, SubscribeStages
    <3> QED BY <1>1, <2>1, <3>1 DEF HandlersMove, HandlerMoves, Attends
  <2>3. CASE kind[r] = "unsubscribe"
    BY <2>2, <2>3 DEF Attends
  <2>4. CASE pc[r] = "enqueue"
    BY <1>1, <2>2, <2>4, EnqueueStep DEF Attends
  <2>5. CASE Live(r)
    <3>1. CASE Live(r)'
      BY <2>2, <3>1 DEF Attends
    <3>2. ASSUME NEW o \in Requests, kind[o] = "unsubscribe", s \in got[o], got' = got
          PROVE  Attends(s, o)'
      BY <1>1, <3>2 DEF Attends, HandlersMove
    <3> QED BY <1>3, <2>2, <2>5, <3>1, <3>2, LiveStep
  <2> QED BY <2>1, <2>3, <2>4, <2>5 DEF Attends
<1> QED BY <1>2, <1>3

\* A pending row has a task that will still run or a handler that is about to make
\* it, unless a fault hit the row or its user unsubscribed: in no order of handlers,
\* workers, retries and crashes does a reminder fall between the two databases.
THEOREM NoneForgotten == Spec => []NoReminderForgotten
<1>1. Init => NoReminderForgotten
  BY DEF Init, NoReminderForgotten, Pending
<1> QED BY <1>1, CoreHolds, NoReminderForgottenStep, PTL DEF Spec
-----------------------------------------------------------------------------
(* The service implements ReminderLifecycle.                               *)

AtWork(t) == worker[t].stage \in {"tokens", "send"}

\* Which rows are at work follows from the runs alone: their rows stay.
LEMMA RunningSame ==
    ASSUME Core, HandlersMove, \A t \in Requests : AtWork(t)' <=> AtWork(t)
    PROVE  Running' = Running
<1>1. \A t \in Requests : AtWork(t) => got'[t] = got[t]
  BY RunKeepsRow DEF AtWork
<1> QED BY <1>1 DEF Running, AtWork

\* Which rows users were told are gone follows from the answers alone.
LEMMA DismissedSame ==
    ASSUME Core, HandlersMove, \A r \in Requests : reply'[r] = "gone" <=> reply[r] = "gone"
    PROVE  Dismissed' = Dismissed
<1>1. \A r \in Requests : reply[r] = "gone" => before'[r] = before[r]
  BY DEF Core, HandlerInv, HandlersMove, HandlerMoves
<1> QED BY <1>1 DEF Dismissed

\* A step of a handler creates the one pending row, or tells its client that
\* there is none, or is not visible.
LEMMA HandlerRefines ==
    ASSUME Core, GoneInv, [Next]_vars, NEW r \in Requests, Send(r) \/ Handle(r)
    PROVE  [Lifecycle!Next]_(Lifecycle!lifecycleVars)
<1> USE DEF Core, TypeOK
<1>1. HandlersMove
  BY HandlerStep
<1>2. /\ UNCHANGED <<event, worker, notified, unreachable>>
      /\ \A o \in Requests \ {r} : reply'[o] = reply[o]
  BY DEF Handle, Send, Exists, Snapshot, Insert, InsertRow, Enqueue, StoreJobID,
     Fetch, DeleteTask, Cancel, Goto, Answer, rows, observers
<1>3. Running' = Running /\ Delivered' = Delivered
  BY <1>1, <1>2, RunningSame DEF AtWork, Delivered
<1>4. reply[r] # "gone"
  BY DEF HandlerInv, Handle, Send, Exists, Snapshot, Insert, Enqueue, StoreJobID,
     Fetch, DeleteTask, Cancel
<1>5. CASE reply'[r] # "gone"
  <2>1. Dismissed' = Dismissed
    BY <1>1, <1>2, <1>4, <1>5, DismissedSame
  <2>2. CASE UNCHANGED status
    BY <1>2, <1>3, <2>1, <2>2 DEF Lifecycle!lifecycleVars
  <2>3. CASE Insert(r) /\ event /\ Active = {} /\ InsertRow(r)
    <3>1. status[r] = "none"
      BY <2>3 DEF RowInv, Insert
    <3>2. Lifecycle!Subscribe(r)
      BY <1>2, <1>3, <2>1, <2>3, <3>1, ActiveIsPending
         DEF Lifecycle!Subscribe, Lifecycle!Pending, Pending, InsertRow
    <3> QED BY <3>2 DEF Lifecycle!Next
  <2>4. Cancel(r) => UNCHANGED status
    BY DEF Cancel, MarkSubscriptionStatus, Violates, StatusCancelled, AllowedStatuses
  <2> QED BY <2>2, <2>3, <2>4
          DEF Handle, Send, Exists, Snapshot, Insert, Enqueue, StoreJobID, Fetch,
              DeleteTask, rows
<1>6. CASE reply'[r] = "gone"
  <2>1. /\ Fetch(r) \/ Cancel(r)
        /\ UNCHANGED <<status, before>>
    <3>1. Fetch(r) \/ Cancel(r)
      BY <1>4, <1>6, GoneStep
    <3> QED BY <3>1 DEF Fetch, Cancel, MarkSubscriptionStatus, Violates,
                        StatusCancelled, AllowedStatuses, rows
  <2>2. before[r] \cap Lifecycle!Pending = {} /\ before[r] \in SUBSET Requests
    BY <1>6, <2>1, GoneInvStep
       DEF GoneInv, UnsubscribeNeverLies, Lifecycle!Pending
  <2>3. Dismissed' = Dismissed \cup before[r]
    BY <1>2, <1>4, <1>6, <2>1, <2>2 DEF Dismissed
  <2>4. Lifecycle!Unsubscribe(before[r])
    BY <1>2, <1>3, <2>1, <2>2, <2>3 DEF Lifecycle!Unsubscribe
  <2> QED BY <2>2, <2>4 DEF Lifecycle!Next
<1> QED BY <1>5, <1>6

\* A step of a run begins, tells, settles or abandons the one row it works on.
LEMMA WorkRefines ==
    ASSUME Core, SentInv, [Next]_vars, NEW t \in Requests, Work(t)
    PROVE  [Lifecycle!Next]_(Lifecycle!lifecycleVars)
<1> USE DEF Core, TypeOK
<1>1. /\ HandlersMove
      /\ UNCHANGED <<event, got, reply, before>>
      /\ \A u \in Requests \ {t} : worker'[u] = worker[u]
  <2>1. /\ UNCHANGED <<event, handlers, before>>
        /\ \A u \in Requests \ {t} : worker'[u] = worker[u]
    <3>1. CASE Fire(t)
      BY <3>1 DEF Fire, rows
    <3>2. CASE ReadSub(t)
      BY <3>2 DEF ReadSub, Retry, Return, rows
    <3>3. CASE GetDeviceTokens(t)
      BY <3>3 DEF GetDeviceTokens, Retry, rows
    <3>4. CASE Finish(t)
      BY <3>4 DEF Finish, Retry, Return
    <3>5. ASSUME NEW d \in Devices, SendToToken(t, d)
          PROVE  /\ UNCHANGED <<event, handlers, before>>
                 /\ \A u \in Requests \ {t} : worker'[u] = worker[u]
      BY <3>5 DEF SendToToken, rows
    <3> QED BY <3>1, <3>2, <3>3, <3>4, <3>5 DEF Work
  <2> QED BY <2>1, HandlerStep DEF handlers
<1>2. Dismissed' = Dismissed
  BY <1>1 DEF Dismissed
<1>3. ASSUME AtWork(t)' <=> AtWork(t)
      PROVE  Running' = Running
  BY <1>1, <1>3, RunningSame DEF AtWork
<1>4. ASSUME ~AtWork(t)', UNCHANGED status, Delivered' = Delivered
      PROVE  Lifecycle!Next
  <2>1. Running' \subseteq Running
    BY <1>1, <1>4 DEF Running, AtWork
  <2>2. Lifecycle!Abandon
    BY <1>1, <1>2, <1>4, <2>1 DEF Lifecycle!Abandon
  <2> QED BY <2>2 DEF Lifecycle!Next
<1>5. ASSUME AtWork(t), AtWork(t)', UNCHANGED status,
             Delivered' \in {Delivered, Delivered \cup got[t]}
      PROVE  [Lifecycle!Next]_(Lifecycle!lifecycleVars)
  <2>1. Running' = Running
    BY <1>3, <1>5
  <2>2. CASE Delivered' = Delivered
    BY <1>1, <1>2, <1>5, <2>1, <2>2 DEF Lifecycle!lifecycleVars
  <2>3. ASSUME NEW s \in got[t], Delivered' = Delivered \cup got[t]
        PROVE  Lifecycle!Next
    <3>1. got[t] = {s} /\ s \in Requests
      BY <2>3 DEF HandlerInv
    <3>2. s \in Running
      BY <1>5, <3>1 DEF Running, AtWork
    <3>3. Lifecycle!Tell(s)
      BY <1>1, <1>2, <1>5, <2>1, <2>3, <3>1, <3>2 DEF Lifecycle!Tell
    <3> QED BY <3>1, <3>3 DEF Lifecycle!Next
  <2>4. got[t] = {} => Delivered \cup got[t] = Delivered
    OBVIOUS
  <2> QED BY <1>5, <2>2, <2>3, <2>4
<1>6. CASE Fire(t)
  <2>1. worker[t].stage = "idle" /\ worker'[t].stage = "read"
    BY <1>6 DEF Fire, TaskInv
  <2>2. Running' = Running
    BY <1>3, <2>1 DEF AtWork
  <2>3. UNCHANGED <<status, notified, unreachable>>
    BY <1>6 DEF Fire, rows
  <2> QED BY <1>1, <1>2, <2>2, <2>3 DEF Delivered, Lifecycle!lifecycleVars
<1>7. CASE ReadSub(t)
  <2>1. /\ worker[t].stage = "read"
        /\ UNCHANGED <<status, notified, unreachable>>
    BY <1>7 DEF ReadSub, rows
  <2>2. Delivered' = Delivered
    BY <2>1 DEF Delivered
  <2>3. PICK s \in got[t] :
           \/ Retry(t) \/ Return(t)
           \/ /\ status[s] = "pending"
              /\ worker' = [worker EXCEPT ![t].stage = "tokens"]
    BY <1>7 DEF ReadSub
  <2>4. CASE Retry(t) \/ Return(t)
    <3>1. ~AtWork(t)'
      BY <2>4 DEF Retry, Return, Idle, AtWork
    <3> QED BY <1>4, <2>1, <2>2, <3>1
  <2>5. CASE /\ status[s] = "pending"
             /\ worker' = [worker EXCEPT ![t].stage = "tokens"]
    <3>1. got[t] = {s} /\ s \in Requests
      BY DEF HandlerInv
    <3>2. worker'[t].stage = "tokens"
      BY <2>5
    <3>3. Running' = Running \cup {s}
      BY <1>1, <2>1, <3>1, <3>2 DEF Running
    <3>4. Lifecycle!Begin(s)
      BY <1>1, <1>2, <2>1, <2>2, <2>5, <3>1, <3>3
         DEF Lifecycle!Begin, Lifecycle!Pending
    <3> QED BY <3>1, <3>4 DEF Lifecycle!Next
  <2> QED BY <2>3, <2>4, <2>5
<1>8. CASE GetDeviceTokens(t)
  <2>1. /\ AtWork(t)
        /\ UNCHANGED <<status, notified>>
    BY <1>8 DEF GetDeviceTokens, AtWork, rows
  <2>2. CASE Retry(t) /\ UNCHANGED unreachable
    <3>1. ~AtWork(t)'
      BY <2>2 DEF Retry, Idle, AtWork
    <3> QED BY <1>4, <2>1, <2>2, <3>1 DEF Delivered
  <2>3. CASE /\ worker'[t].stage = "send"
             /\ unreachable' \in {unreachable, unreachable \cup got[t]}
    BY <1>5, <2>1, <2>3 DEF Delivered, AtWork
  <2> QED BY <1>8, <2>2, <2>3 DEF GetDeviceTokens
<1>9. ASSUME NEW d \in Devices, SendToToken(t, d)
      PROVE  [Lifecycle!Next]_(Lifecycle!lifecycleVars)
  <2>1. /\ AtWork(t) /\ worker[t].stage = "send"
        /\ UNCHANGED <<status, unreachable>>
    BY <1>9 DEF SendToToken, AtWork, rows
  <2>2. worker'[t].stage = worker[t].stage
    <3>1. CASE worker' = [worker EXCEPT ![t].left = worker[t].left \ {d}, ![t].hit = TRUE]
      BY <3>1
    <3>2. CASE worker' = [worker EXCEPT ![t].left = worker[t].left \ {d}]
      BY <3>2
    <3> QED BY <1>9, <3>1, <3>2 DEF SendToToken
  <2>3. AtWork(t)'
    BY <2>1, <2>2 DEF AtWork
  <2>4. CASE notified' = notified \cup {<<s, d>> : s \in got[t]}
    <3>1. got[t] \subseteq Requests
      OBVIOUS
    <3>2. \A s \in Requests, e \in Devices :
             <<s, e>> \in notified' <=> <<s, e>> \in notified \/ (s \in got[t] /\ e = d)
      BY <2>4
    <3>3. Delivered' = Delivered \cup got[t]
      BY <2>1, <3>1, <3>2 DEF Delivered
    <3> QED BY <1>5, <2>1, <2>3, <3>3
  <2>5. CASE UNCHANGED notified
    BY <1>5, <2>1, <2>3, <2>5 DEF Delivered
  <2> QED BY <1>9, <2>4, <2>5 DEF SendToToken
<1>10. CASE Finish(t)
  <2>1. /\ AtWork(t) /\ worker[t].stage = "send"
        /\ UNCHANGED <<notified, unreachable>>
    BY <1>10 DEF Finish, AtWork
  <2>2. ~AtWork(t)' /\ Delivered' = Delivered
    BY <1>10, <2>1 DEF Finish, Retry, Return, Idle, AtWork, Delivered
  <2>3. CASE UNCHANGED status
    BY <1>4, <2>2, <2>3
  <2>4. ASSUME NEW s \in got[t], NEW new \in {"sent", "failed"}, status[s] = "pending",
               status' = [status EXCEPT ![s] = new],
               new = "sent" => (worker[t].found => worker[t].hit)
        PROVE  Lifecycle!Next
    <3>1. got[t] = {s} /\ s \in Requests
      BY <2>4 DEF HandlerInv
    <3>2. new = "sent" => s \in Delivered
      BY <2>1, <2>4, <3>1 DEF SentInv, Told, Delivered
    <3>3. s \in Running
      BY <2>1, <3>1 DEF Running, AtWork
    <3>4. Running' \in {Running, Running \ {s}}
      <4>1. Running' \subseteq Running
        BY <1>1, <2>2 DEF Running, AtWork
      <4>2. \A o \in Running \ {s} : o \in Running'
        BY <1>1, <3>1 DEF Running
      <4>3. s \in Running' => Running' = Running
        BY <3>3, <4>1, <4>2
      <4>4. s \notin Running' => Running' = Running \ {s}
        BY <4>1, <4>2
      <4> QED BY <4>3, <4>4
    <3>5. Lifecycle!Settle(s, new)
      BY <1>1, <1>2, <2>2, <2>4, <3>1, <3>2, <3>3, <3>4
         DEF Lifecycle!Settle, Lifecycle!Pending
    <3> QED BY <3>1, <3>5 DEF Lifecycle!Next
  <2>5. PICK s \in got[t] :
           \/ MarkSubscriptionStatus(s, IF worker[t].found /\ ~worker[t].hit
                                        THEN "failed" ELSE "sent")
           \/ UNCHANGED status
    BY <1>10 DEF Finish
  <2> QED BY <2>3, <2>4, <2>5 DEF MarkSubscriptionStatus
<1> QED BY <1>6, <1>7, <1>8, <1>9, <1>10 DEF Work

LEMMA StepRefines ==
    Core /\ GoneInv /\ SentInv /\ [Next]_vars
        => [Lifecycle!Next]_(Lifecycle!lifecycleVars)
<1> SUFFICES ASSUME Core, GoneInv, SentInv, [Next]_vars
             PROVE  [Lifecycle!Next]_(Lifecycle!lifecycleVars)
  OBVIOUS
<1>1. ASSUME UNCHANGED <<event, status, got, worker, notified, unreachable, reply, before>>
      PROVE  UNCHANGED Lifecycle!lifecycleVars
  BY <1>1 DEF Lifecycle!lifecycleVars, Running, Delivered, Dismissed
<1>2. CASE DeleteEvent
  <2>1. UNCHANGED <<Running, Delivered, Dismissed>>
    BY <1>2 DEF DeleteEvent, handlers, observers, Running, Delivered, Dismissed
  <2>2. Lifecycle!DeleteEvent
    BY <1>2, <2>1 DEF DeleteEvent, Lifecycle!DeleteEvent
  <2> QED BY <2>2 DEF Lifecycle!Next
<1>3. ASSUME NEW d \in Devices, DeviceChange(d) PROVE UNCHANGED Lifecycle!lifecycleVars
  BY <1>1, <1>3 DEF DeviceChange, rows, handlers, observers
<1>4. CASE Crash
  <2>1. UNCHANGED <<event, status, Delivered, Dismissed>>
    BY <1>4 DEF Crash, rows, Delivered, Dismissed
  <2>2. Running' = {}
    BY <1>4 DEF Crash, Running, Idle
  <2>3. Lifecycle!Abandon
    BY <2>1, <2>2 DEF Lifecycle!Abandon
  <2> QED BY <2>3 DEF Lifecycle!Next
<1>5. CASE UNCHANGED vars
  BY <1>1, <1>5 DEF vars, rows, handlers, observers
<1> QED BY <1>2, <1>3, <1>4, <1>5, HandlerRefines, WorkRefines DEF Next

\* PostgreSQL, Redis and FCM together, with retries, faults and crashes, implement
\* the life cycle of a reminder.
THEOREM Implements == Spec => ImplementsLifecycle
<1>1. Init => Lifecycle!Init
  BY DEF Init, Lifecycle!Init, Running, Delivered, Dismissed, Idle
<1>2. Init => GoneInv /\ SentInv
  BY DEF Init, GoneInv, UnsubscribeNeverLies, SentInv, SentTruth, Idle
<1>3. Spec => [](GoneInv /\ SentInv)
  BY <1>2, CoreHolds, GoneInvStep, SentInvStep, PTL DEF Spec
<1> QED BY <1>1, <1>3, CoreHolds, StepRefines, PTL
        DEF Spec, ImplementsLifecycle, Lifecycle!Spec
=============================================================================
