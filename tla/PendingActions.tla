--------------------------- MODULE PendingActions ---------------------------
(***************************************************************************)
(* The life of an agent-proposed calendar change in the chat service.      *)
(*                                                                         *)
(* The agent's calls to CalendarService are not executed: the gRPC         *)
(* interceptor stores them as pending actions (pkg/grpc/interceptor.go).   *)
(* The owner confirms or cancels them over HTTP, and a clean-up job could  *)
(* expire the old ones (internal/chat). Handlers run concurrently and      *)
(* share nothing but the MongoDB document of the action; each database or  *)
(* calendar call is a step of its own, so whatever a handler read may be   *)
(* stale when it writes. The only protection is the version that           *)
(* UpdatePendingActionStatus compares.                                     *)
(*                                                                         *)
(* Time is abstracted to the two verdicts the code takes from the clock:   *)
(* "lapsed" (now is after expires_at) and "valid" (the policy validator    *)
(* accepts the proposal, which stops being so once its start has passed).  *)
(***************************************************************************)
EXTENDS Naturals, FiniteSets

CONSTANTS
    Actions,            \* action ids
    Requests,           \* HTTP requests, each sent at most once
    Users,
    Owner,              \* Owner[a]: the user_id stored with action a
    MaxFaults,          \* bound on failed calls, late answers and crashes
    CleanupJobStarted   \* does the process start CleanupJob? main.go does not

ASSUME OwnerAssumption == Owner \in [Actions -> Users]
ASSUME MaxFaultsAssumption == MaxFaults \in Nat
ASSUME CleanupAssumption == CleanupJobStarted \in BOOLEAN

VARIABLES
    status, version,    \* the documents of the pending_actions collection
    lapsed, valid,      \* verdicts of the clock and of the policy validator
    call,               \* call[r]: what request r asks for
    pc,                 \* pc[r]: where the handler of r is
    ver,                \* ver[r]: the version r read
    reply,              \* reply[r]: what its client was told
    sweep,              \* <<a, v>>: read by the clean-up job, not yet updated
    applied,            \* requests whose calendar call has taken effect
    faults,
    \* Observers, read by the properties only:
    late,               \* requests sent when the action was no longer open
    disturbed           \* actions that saw overlapping requests or a fault

docs == <<status, version>>
clock == <<lapsed, valid>>
handlers == <<call, pc, ver, reply>>
vars == <<docs, clock, handlers, sweep, applied, faults, late, disturbed>>

Settled == {"confirmed", "cancelled", "expired", "failed"}
Stages == {"idle", "read", "check", "expire", "reject", "execute", "fail",
           "confirm", "cancel", "done"}
\* key: does the idempotency key match? A cancel request carries none.
Calls == [kind : {"confirm"}, user : Users, act : Actions, key : BOOLEAN]
    \cup [kind : {"cancel"}, user : Users, act : Actions, key : {FALSE}]

Init ==
    /\ status = [a \in Actions |-> "absent"]
    /\ version = [a \in Actions |-> 0]
    /\ lapsed = [a \in Actions |-> FALSE]
    /\ valid = [a \in Actions |-> TRUE]
    /\ call \in [Requests -> Calls]
    /\ pc = [r \in Requests |-> "idle"]
    /\ ver = [r \in Requests |-> 0]
    /\ reply = [r \in Requests |-> "none"]
    /\ sweep = {}
    /\ applied = {}
    /\ faults = 0
    /\ late = {}
    /\ disturbed = {}

Open(a) == status[a] \in {"absent", "pending"} /\ ~lapsed[a]
Target(r) == call[r].act
InFlight(a) == {r \in Requests : Target(r) = a /\ pc[r] \notin {"idle", "done"}}
Swept(a) == \E e \in sweep : e[1] = a

Goto(r, stage) == pc' = [pc EXCEPT ![r] = stage]
Answer(r, answer) ==
    /\ Goto(r, "done")
    /\ reply' = [reply EXCEPT ![r] = answer]
Fault ==
    /\ faults < MaxFaults
    /\ faults' = faults + 1
Disturb(S) == disturbed' = disturbed \cup S

-----------------------------------------------------------------------------
(* The agent, the clock and the clients.                                   *)

\* interceptMutatingOperation: store the call instead of executing it.
Propose(a) ==
    /\ status[a] = "absent"
    /\ status' = [status EXCEPT ![a] = "pending"]
    /\ \E verdict \in BOOLEAN : valid' = [valid EXCEPT ![a] = verdict]
    /\ UNCHANGED <<version, lapsed, handlers, sweep, applied, faults, late,
                   disturbed>>

\* expires_at passes.
Lapse(a) ==
    /\ status[a] # "absent"
    /\ ~lapsed[a]
    /\ lapsed' = [lapsed EXCEPT ![a] = TRUE]
    /\ UNCHANGED <<docs, valid, handlers, sweep, applied, faults, late,
                   disturbed>>

\* The proposed start is now more than an hour ago: "past_event".
StartPasses(a) ==
    /\ status[a] # "absent"
    /\ valid[a]
    /\ valid' = [valid EXCEPT ![a] = FALSE]
    /\ UNCHANGED <<docs, lapsed, handlers, sweep, applied, faults, late,
                   disturbed>>

Send(r) ==
    /\ pc[r] = "idle"
    /\ Goto(r, "read")
    /\ late' = IF Open(Target(r)) THEN late ELSE late \cup {r}
    /\ Disturb(IF InFlight(Target(r)) # {} \/ Swept(Target(r))
               THEN {Target(r)} ELSE {})
    /\ UNCHANGED <<docs, clock, call, ver, reply, sweep, applied, faults>>

-----------------------------------------------------------------------------
(* The handlers of POST /chat/actions/{action_id}/confirm and .../cancel.  *)

\* Mutants: the tests on owner and key, or on the status, are forgotten.
AdmittedFromAnyone(c) == status[c.act] = "pending"
AdmittedInAnyStatus(c) ==
    /\ status[c.act] # "absent"
    /\ Owner[c.act] = c.user
    /\ c.kind = "confirm" => c.key

\* The early returns that depend on the document as it was read.
Admitted(c) ==
    /\ status[c.act] = "pending"
    /\ Owner[c.act] = c.user
    /\ c.kind = "confirm" => c.key

Admit(r) ==
    /\ pc[r] = "read"
    /\ Admitted(call[r])
    /\ Goto(r, IF call[r].kind = "confirm" THEN "check" ELSE "cancel")
    /\ ver' = [ver EXCEPT ![r] = version[Target(r)]]
    /\ UNCHANGED <<docs, clock, call, reply, sweep, applied, faults, late,
                   disturbed>>

Refuse(r) ==
    /\ pc[r] = "read"
    /\ \/ ~Admitted(call[r]) /\ UNCHANGED <<faults, disturbed>>
       \/ Fault /\ Disturb({Target(r)})     \* the read itself fails
    /\ Answer(r, "refused")
    /\ UNCHANGED <<docs, clock, call, ver, sweep, applied, late>>

\* validateActionForConfirmation, after the tests on the document.
Check(r) ==
    /\ pc[r] = "check"
    /\ Goto(r, IF lapsed[Target(r)] THEN "expire"
               ELSE IF ~valid[Target(r)] THEN "reject" ELSE "execute")
    /\ UNCHANGED <<docs, clock, call, ver, reply, sweep, applied, faults, late,
                   disturbed>>

\* executeAction: the calendar does it, refuses, or does it and answers
\* after the deadline.
Execute(r) ==
    /\ pc[r] = "execute"
    /\ \/ /\ applied' = applied \cup {r}
          /\ Goto(r, "confirm")
          /\ UNCHANGED <<faults, disturbed>>
       \/ /\ Goto(r, "fail")
          /\ UNCHANGED <<applied, faults, disturbed>>
       \/ /\ applied' = applied \cup {r}
          /\ Goto(r, "fail")
          /\ Fault /\ Disturb({Target(r)})
    /\ UNCHANGED <<docs, clock, call, ver, reply, sweep, late>>

\* Mutant: the update filters by action_id alone.
MatchesById(a, v) == status[a] # "absent"

\* UpdatePendingActionStatus: compare the version, then set status and version.
Matches(a, v) == status[a] # "absent" /\ version[a] = v

UpdatePendingActionStatus(a, v, s) ==
    /\ status' = IF Matches(a, v) THEN [status EXCEPT ![a] = s] ELSE status
    /\ version' = IF Matches(a, v) THEN [version EXCEPT ![a] = v + 1] ELSE version

\* Every handler ends with one conditional update. It may fail before or after
\* it took effect; only the cancel handler tells its client.
Record(r, stage, s, answer) ==
    /\ pc[r] = stage
    /\ \/ /\ UpdatePendingActionStatus(Target(r), ver[r], s)
          /\ Answer(r, IF stage = "cancel" /\ ~Matches(Target(r), ver[r])
                       THEN "refused" ELSE answer)
          /\ UNCHANGED <<faults, disturbed>>
       \/ /\ UpdatePendingActionStatus(Target(r), ver[r], s) \/ UNCHANGED docs
          /\ Answer(r, IF stage = "cancel" THEN "refused" ELSE answer)
          /\ Fault /\ Disturb({Target(r)})
    /\ UNCHANGED <<clock, call, ver, sweep, applied, late>>

RecordExpired(r) == Record(r, "expire", "expired", "refused")
RecordInvalid(r) == Record(r, "reject", "failed", "refused")
\* Mutants: a failed call is recorded as a success; a success is answered but
\* not recorded; the status is spelt in another way.
RecordFailedAsConfirmed(r) == Record(r, "fail", "confirmed", "refused")
AnswerOnly(r) ==
    /\ pc[r] = "confirm"
    /\ Answer(r, "confirmed")
    /\ UNCHANGED <<docs, clock, call, ver, sweep, applied, faults, late,
                   disturbed>>

RecordFailed(r) == Record(r, "fail", "failed", "refused")
RecordConfirmed(r) == Record(r, "confirm", "confirmed", "confirmed")
RecordCancelled(r) == Record(r, "cancel", "cancelled", "cancelled")

-----------------------------------------------------------------------------
(* CleanupJob, and the process stopping.                                   *)

Expired == {a \in Actions : status[a] = "pending" /\ lapsed[a]}

\* GetExpiredActions. Nobody calls NewCleanupJob: with CleanupJobStarted the
\* specification says what the job would do to the handlers, without it what the
\* service does today.
SweepRead ==
    /\ CleanupJobStarted
    /\ sweep = {} /\ Expired # {}
    /\ sweep' = {<<a, version[a]>> : a \in Expired}
    /\ Disturb({a \in Expired : InFlight(a) # {}})
    /\ UNCHANGED <<docs, clock, handlers, applied, faults, late>>

\* One iteration of the loop of CleanupExpiredActions; an error is logged.
SweepUpdate(e) ==
    /\ e \in sweep
    /\ sweep' = sweep \ {e}
    /\ \/ UpdatePendingActionStatus(e[1], e[2], "expired") /\ UNCHANGED faults
       \/ /\ UpdatePendingActionStatus(e[1], e[2], "expired") \/ UNCHANGED docs
          /\ Fault
    /\ UNCHANGED <<clock, handlers, applied, late, disturbed>>

\* The process stops: what the handlers and the job had in memory is gone.
Crash ==
    /\ Fault
    /\ pc' = [r \in Requests |-> IF pc[r] = "idle" THEN "idle" ELSE "done"]
    /\ sweep' = {}
    /\ Disturb({a \in Actions : InFlight(a) # {}})
    /\ UNCHANGED <<docs, clock, call, ver, reply, applied, late>>

-----------------------------------------------------------------------------

Handle(r) ==
    \/ Admit(r) \/ Refuse(r) \/ Check(r) \/ Execute(r)
    \/ RecordExpired(r) \/ RecordInvalid(r) \/ RecordFailed(r)
    \/ RecordConfirmed(r) \/ RecordCancelled(r)

Next ==
    \/ \E a \in Actions : Propose(a) \/ Lapse(a) \/ StartPasses(a)
    \/ \E r \in Requests : Send(r) \/ Handle(r)
    \/ SweepRead
    \/ \E e \in sweep : SweepUpdate(e)
    \/ Crash

Spec == Init /\ [][Next]_vars

\* Goroutines are scheduled and every call has a deadline, so a handler that
\* was entered is left; the ticker of a CleanupJob that was started never
\* stops. Neither clients, nor the agent, nor the clock are obliged to do
\* anything.
Fairness ==
    /\ \A r \in Requests : WF_vars(Handle(r))
    /\ WF_vars(SweepRead)
    /\ WF_vars(\E e \in sweep : SweepUpdate(e))

FairSpec == Spec /\ Fairness
-----------------------------------------------------------------------------
(* Properties.                                                             *)

\* The documents and the handlers' memories hold the values the code gives
\* them.
TypeOK ==
    /\ status \in [Actions -> Settled \cup {"absent", "pending"}]
    /\ version \in [Actions -> Nat]
    /\ lapsed \in [Actions -> BOOLEAN]
    /\ valid \in [Actions -> BOOLEAN]
    /\ call \in [Requests -> Calls]
    /\ pc \in [Requests -> Stages]
    /\ ver \in [Requests -> Nat]
    /\ reply \in [Requests -> {"none", "refused", "confirmed", "cancelled"}]
    /\ sweep \subseteq Actions \X Nat
    /\ applied \subseteq Requests
    /\ faults \in Nat
    /\ late \subseteq Requests
    /\ disturbed \subseteq Actions

\* However confirmations, cancellations and the clean-up job race, the first
\* of them to update an action settles it: no later update, made from a stale
\* read, changes its status again (UpdatePendingActionStatus).
SettledForGood ==
    [][\A a \in Actions : status[a] \in Settled => status'[a] = status[a]]_vars

\* A client told that its action was cancelled will find it cancelled, at any
\* later time, and nobody else was told the same (handleCancelAction).
CancelHonoured ==
    /\ \A r \in Requests :
          reply[r] = "cancelled" => status[Target(r)] = "cancelled"
    /\ \A r, q \in Requests :
          /\ reply[r] = "cancelled" /\ reply[q] = "cancelled"
          /\ Target(r) = Target(q)
          => r = q

\* A confirmation sent after the action was settled or had expired never
\* reaches the calendar (validateActionForConfirmation).
NoLateEffect == applied \cap late = {}

\* The calendar is changed only for the owner of the action, with its
\* idempotency key: the agent alone, another user, or a cancel request never
\* changes it (ActionInterceptor and handleConfirmAction together).
OnlyOwnerConfirms ==
    \A r \in applied :
        /\ call[r].kind = "confirm"
        /\ call[r].user = Owner[Target(r)]
        /\ call[r].key

Effects(a) == {r \in applied : Target(r) = a}

\* When requests on an action did not overlap and no call failed, the recorded
\* status tells the truth: the action took effect exactly if it is recorded as
\* confirmed, and it took effect at most once.
UndisturbedTruth ==
    \A a \in Actions \ disturbed :
        InFlight(a) = {} =>
            /\ Effects(a) # {} <=> status[a] = "confirmed"
            /\ \A r, q \in Effects(a) : r = q

\* docs/SERVICE_ARCHITECTURE.md: idempotency keys prevent duplicate execution.
\* The key is compared, not recorded, and the status is updated only after the
\* calendar call (handleConfirmAction).
ExecutedAtMostOnce ==
    \A a \in Actions : \A r, q \in Effects(a) : r = q

\* docs/SERVICE_ARCHITECTURE.md: the clean-up job removes expired actions. No
\* code starts it (cmd/orbit-core/main.go), so one that nobody confirms or
\* cancels is pending for ever.
LapsedSettles ==
    \A a \in Actions :
        (status[a] = "pending" /\ lapsed[a]) ~> status[a] \in Settled

\* The service keeps the promises of ActionLifecycle: an attempt is a
\* confirmation between its admission and its calendar call.
Attempts == {<<Target(r), r>> : r \in {q \in Requests : pc[q] \in {"check", "execute"}}}
Taken == {<<Target(r), r>> : r \in applied}
Lifecycle == INSTANCE ActionLifecycle
    WITH state <- status, attempts <- Attempts, effects <- Taken
ImplementsLifecycle == Lifecycle!Spec
=============================================================================
