------------------------ MODULE PendingActionsProofs ------------------------
(***************************************************************************)
(* Proofs about PendingActions, for any number of actions, requests and    *)
(* users.                                                                  *)
(*                                                                         *)
(* Everything rests on one observation: an action is only ever updated by  *)
(* someone who read it as pending, so every version held in memory is 0,   *)
(* and the version of a document is 0 exactly as long as it has not been   *)
(* settled. A matching update therefore finds the action still pending.    *)
(***************************************************************************)
EXTENDS PendingActions, TLAPS

ConfirmStages == {"check", "expire", "reject", "execute", "fail", "confirm"}
HoldingStages == ConfirmStages \cup {"cancel"}

\* The document: its version is 0 until it is settled, and never again.
VersionInv ==
    \A a \in Actions : status[a] \in Settled <=> version[a] # 0

\* What a handler knows once it has admitted its request.
HandlerInv ==
    \A r \in Requests :
        /\ pc[r] \in HoldingStages => ver[r] = 0 /\ status[Target(r)] # "absent"
        /\ pc[r] \in ConfirmStages =>
              /\ call[r].kind = "confirm"
              /\ call[r].user = Owner[Target(r)]
              /\ call[r].key
        /\ pc[r] = "confirm" => r \in applied

\* What the clean-up job holds.
SweepInv == \A e \in sweep : e[2] = 0 /\ status[e[1]] # "absent"

\* Who may have changed the calendar.
EffectInv == \A r \in applied : pc[r] \in {"confirm", "fail", "done"}

\* A late request finds the action closed, and is past its last test only if
\* that test refused it.
LateInv ==
    \A r \in late :
        /\ ~Open(Target(r))
        /\ pc[r] = "check" => lapsed[Target(r)]
        /\ pc[r] \notin {"execute", "confirm", "fail"}

IInv ==
    /\ TypeOK
    /\ VersionInv
    /\ HandlerInv
    /\ SweepInv
    /\ EffectInv
    /\ LateInv
    /\ OnlyOwnerConfirms
    /\ NoLateEffect
    /\ CancelHonoured

\* A request names an action.
LEMMA TargetIsAction ==
    ASSUME TypeOK, NEW r \in Requests
    PROVE  Target(r) \in Actions
BY DEF TypeOK, Calls, Target

\* Every step of a handler, of the job or of the environment keeps the types.
LEMMA TypeStep == TypeOK /\ [Next]_vars => TypeOK'
<1> SUFFICES ASSUME TypeOK, [Next]_vars PROVE TypeOK'
  OBVIOUS
<1> USE TargetIsAction DEF TypeOK, docs, clock, handlers
<1>1. ASSUME NEW a \in Actions, Propose(a) PROVE TypeOK'
  BY <1>1 DEF Propose
<1>2. ASSUME NEW a \in Actions, Lapse(a) PROVE TypeOK'
  BY <1>2 DEF Lapse
<1>3. ASSUME NEW a \in Actions, StartPasses(a) PROVE TypeOK'
  BY <1>3 DEF StartPasses
<1>4. ASSUME NEW r \in Requests, Send(r) PROVE TypeOK'
  BY <1>4 DEF Send, Goto, Disturb, Stages
<1>5. ASSUME NEW r \in Requests, Admit(r) PROVE TypeOK'
  BY <1>5 DEF Admit, Goto, Stages
<1>6. ASSUME NEW r \in Requests, Refuse(r) PROVE TypeOK'
  BY <1>6 DEF Refuse, Answer, Goto, Fault, Disturb, Stages
<1>7. ASSUME NEW r \in Requests, Check(r) PROVE TypeOK'
  BY <1>7 DEF Check, Goto, Stages
<1>8. ASSUME NEW r \in Requests, Execute(r) PROVE TypeOK'
  <2>1. /\ applied' \subseteq Requests
        /\ pc' \in [Requests -> Stages]
    BY <1>8 DEF Execute, Goto, Stages
  <2>2. faults' \in Nat /\ disturbed' \subseteq Actions
    BY <1>8 DEF Execute, Fault, Disturb
  <2>3. QED
    BY <1>8, <2>1, <2>2 DEF Execute
<1>9. ASSUME NEW r \in Requests, NEW stage, NEW s \in Settled,
             NEW answer \in {"refused", "confirmed", "cancelled"},
             Record(r, stage, s, answer)
      PROVE  TypeOK'
  BY <1>9 DEF Record, UpdatePendingActionStatus, Answer, Goto, Fault,
              Disturb, Stages
<1>10. CASE SweepRead
  BY <1>10 DEF SweepRead, Disturb, Expired
<1>11. ASSUME NEW e \in sweep, SweepUpdate(e) PROVE TypeOK'
  BY <1>11 DEF SweepUpdate, UpdatePendingActionStatus, Fault, Settled
<1>12. CASE Crash
  BY <1>12 DEF Crash, Fault, Disturb, Stages
<1>13. CASE UNCHANGED vars
  BY <1>13 DEF vars
<1>14. QED
  BY <1>1, <1>2, <1>3, <1>4, <1>5, <1>6, <1>7, <1>8, <1>9, <1>10, <1>11,
     <1>12, <1>13
  DEF Next, Handle, RecordExpired, RecordInvalid, RecordFailed,
      RecordConfirmed, RecordCancelled, Settled

\* The documents, the handlers and the job hold values of their types.
THEOREM TypeCorrect == Spec => []TypeOK
<1>1. Init => TypeOK
  BY DEF Init, TypeOK, Stages, Settled
<1>2. QED
  BY <1>1, TypeStep, PTL DEF Spec

-----------------------------------------------------------------------------
(* The update at the end of a handler or of a sweep.                       *)

\* An update with version 0 either finds the action pending and settles it, or
\* changes nothing at all.
LEMMA UpdateSettlesPending ==
    ASSUME TypeOK, VersionInv, NEW a \in Actions, NEW s \in Settled,
           status[a] # "absent", UpdatePendingActionStatus(a, 0, s)
    PROVE  \/ /\ Matches(a, 0)
              /\ status[a] = "pending"
              /\ status' = [status EXCEPT ![a] = s]
              /\ version' = [version EXCEPT ![a] = 1]
           \/ ~Matches(a, 0) /\ UNCHANGED docs
<1>1. CASE Matches(a, 0)
  <2>1. status[a] = "pending"
    BY <1>1 DEF Matches, VersionInv, TypeOK
  <2>2. QED
    BY <1>1, <2>1 DEF UpdatePendingActionStatus
<1>2. CASE ~Matches(a, 0)
  BY <1>2 DEF UpdatePendingActionStatus, docs
<1>3. QED
  BY <1>1, <1>2

\* What the end of a handler amounts to: r leaves its stage with an answer, and
\* its action is either settled from pending or left alone. Only a cancellation
\* that settled the action answers "cancelled".
HandlerEnds(r, stage, s) ==
    /\ pc[r] = stage
    /\ pc' = [pc EXCEPT ![r] = "done"]
    /\ UNCHANGED <<clock, call, ver, sweep, applied, late>>
    /\ s = "confirmed" => stage = "confirm"
    /\ \/ /\ status[Target(r)] = "pending"
          /\ status' = [status EXCEPT ![Target(r)] = s]
          /\ version' = [version EXCEPT ![Target(r)] = 1]
       \/ UNCHANGED docs
    /\ \/ \E other \in {"refused", "confirmed"} :
             reply' = [reply EXCEPT ![r] = other]
       \/ /\ reply' = [reply EXCEPT ![r] = "cancelled"]
          /\ status[Target(r)] = "pending"
          /\ s = "cancelled"
          /\ status' = [status EXCEPT ![Target(r)] = s]

\* The last step of a handler settles its action, or leaves it alone.
LEMMA RecordEffect ==
    ASSUME IInv, NEW r \in Requests, NEW stage \in HoldingStages \ {"check", "execute"},
           NEW s \in Settled, NEW answer \in {"refused", "confirmed", "cancelled"},
           answer = "cancelled" => stage = "cancel" /\ s = "cancelled",
           s = "confirmed" => stage = "confirm",
           Record(r, stage, s, answer)
    PROVE  HandlerEnds(r, stage, s)
<1> USE DEF HandlerEnds
<1> DEFINE a == Target(r)
<1>1. a \in Actions
  BY TargetIsAction DEF IInv
<1>2. pc[r] = stage /\ pc' = [pc EXCEPT ![r] = "done"]
  BY DEF Record, Answer, Goto
<1>3. ver[r] = 0 /\ status[a] # "absent"
  BY <1>2 DEF IInv, HandlerInv
<1>4. UpdatePendingActionStatus(a, 0, s) =>
         \/ /\ Matches(a, 0)
            /\ status[a] = "pending"
            /\ status' = [status EXCEPT ![a] = s]
            /\ version' = [version EXCEPT ![a] = 1]
         \/ ~Matches(a, 0) /\ UNCHANGED docs
  BY <1>1, <1>3, UpdateSettlesPending DEF IInv
<1>5. CASE \* the update is made and answered
           /\ UpdatePendingActionStatus(a, 0, s)
           /\ reply' = [reply EXCEPT ![r] =
                  IF stage = "cancel" /\ ~Matches(a, 0) THEN "refused" ELSE answer]
  <2>1. CASE stage = "cancel" /\ ~Matches(a, 0)
    BY <1>2, <1>4, <1>5, <2>1 DEF Record
  <2>2. CASE answer = "cancelled" /\ Matches(a, 0)
    BY <1>2, <1>4, <1>5, <2>2 DEF Record
  <2>3. CASE answer # "cancelled" /\ ~(stage = "cancel" /\ ~Matches(a, 0))
    BY <1>2, <1>4, <1>5, <2>3 DEF Record
  <2>4. QED
    BY <2>1, <2>2, <2>3
<1>6. CASE \* the call fails: nobody is told of a cancellation
           /\ UpdatePendingActionStatus(a, 0, s) \/ UNCHANGED docs
           /\ reply' = [reply EXCEPT ![r] =
                  IF stage = "cancel" THEN "refused" ELSE answer]
  BY <1>2, <1>4, <1>6 DEF Record
<1>7. QED
  BY <1>3, <1>5, <1>6 DEF Record, Answer

\* Each of the five last steps is one such step, with its stage and status.
LEMMA RecordCases ==
    ASSUME IInv, NEW r \in Requests,
           RecordExpired(r) \/ RecordInvalid(r) \/ RecordFailed(r)
             \/ RecordConfirmed(r) \/ RecordCancelled(r)
    PROVE  \E stage \in {"expire", "reject", "fail", "confirm", "cancel"},
              s \in Settled : HandlerEnds(r, stage, s)
<1> USE RecordEffect DEF Settled, HoldingStages, ConfirmStages
<1>1. CASE RecordExpired(r)
  BY <1>1 DEF RecordExpired
<1>2. CASE RecordInvalid(r)
  BY <1>2 DEF RecordInvalid
<1>3. CASE RecordFailed(r)
  BY <1>3 DEF RecordFailed
<1>4. CASE RecordConfirmed(r)
  BY <1>4 DEF RecordConfirmed
<1>5. CASE RecordCancelled(r)
  BY <1>5 DEF RecordCancelled
<1>6. QED
  BY <1>1, <1>2, <1>3, <1>4, <1>5

-----------------------------------------------------------------------------
(* The inductive invariant.                                                *)

\* Before anything is proposed there is nothing to be violated.
LEMMA InitIInv == Init => IInv
BY DEF Init, IInv, TypeOK, VersionInv, HandlerInv, SweepInv, EffectInv, LateInv,
       OnlyOwnerConfirms, NoLateEffect, CancelHonoured, Stages, Settled,
       HoldingStages, ConfirmStages

\* Every step keeps the invariant: one step of the proof per action of Next.
LEMMA NextIInv == IInv /\ [Next]_vars => IInv'
<1> SUFFICES ASSUME IInv, [Next]_vars PROVE IInv'
  OBVIOUS
<1> USE DEF docs, clock, handlers
<1>1. TypeOK /\ TypeOK'
  BY TypeStep DEF IInv
<1>2. \A r \in Requests : Target(r) \in Actions
  BY <1>1, TargetIsAction
<1> DEFINE Rest == /\ VersionInv /\ HandlerInv /\ SweepInv /\ EffectInv
                   /\ LateInv /\ OnlyOwnerConfirms /\ NoLateEffect
                   /\ CancelHonoured
<1> SUFFICES Rest'
  BY <1>1 DEF IInv
<1> USE <1>1, <1>2 DEF IInv
<1>3. ASSUME NEW a \in Actions, Propose(a) PROVE Rest'
  BY <1>3 DEF Propose, TypeOK, VersionInv, HandlerInv, SweepInv, EffectInv,
     LateInv, OnlyOwnerConfirms, NoLateEffect, CancelHonoured, Open, Target, Settled
<1>4. ASSUME NEW a \in Actions, Lapse(a) PROVE Rest'
  BY <1>4 DEF Lapse, TypeOK, VersionInv, HandlerInv, SweepInv, EffectInv,
     LateInv, OnlyOwnerConfirms, NoLateEffect, CancelHonoured, Open, Target
<1>5. ASSUME NEW a \in Actions, StartPasses(a) PROVE Rest'
  BY <1>5 DEF StartPasses, TypeOK, VersionInv, HandlerInv, SweepInv, EffectInv,
     LateInv, OnlyOwnerConfirms, NoLateEffect, CancelHonoured, Open, Target
<1>6. ASSUME NEW r \in Requests, Send(r) PROVE Rest'
  BY <1>6 DEF Send, Goto, TypeOK, VersionInv, HandlerInv, SweepInv, EffectInv,
     LateInv, OnlyOwnerConfirms, NoLateEffect, CancelHonoured, Open, Target,
     HoldingStages, ConfirmStages
<1>7. ASSUME NEW r \in Requests, Admit(r) PROVE Rest'
  <2>1. /\ pc[r] = "read"
        /\ status[Target(r)] = "pending" /\ version[Target(r)] = 0
        /\ Owner[Target(r)] = call[r].user
        /\ ver' = [ver EXCEPT ![r] = 0]
        /\ UNCHANGED <<docs, clock, call, reply, sweep, applied, late>>
    BY <1>7 DEF Admit, Admitted, VersionInv, TypeOK, Settled, Target
  <2>2. \/ /\ call[r].kind = "confirm" /\ call[r].key
           /\ pc' = [pc EXCEPT ![r] = "check"]
        \/ pc' = [pc EXCEPT ![r] = "cancel"]
    BY <1>7 DEF Admit, Admitted, Goto
  <2>3. HandlerInv'
    BY <2>1, <2>2 DEF HandlerInv, TypeOK, Target, HoldingStages, ConfirmStages
  <2>4. EffectInv' /\ LateInv'
    BY <2>1, <2>2 DEF EffectInv, LateInv, Open, TypeOK, Target
  <2>5. VersionInv' /\ SweepInv' /\ OnlyOwnerConfirms' /\ NoLateEffect'
        /\ CancelHonoured'
    BY <2>1 DEF VersionInv, SweepInv, OnlyOwnerConfirms, NoLateEffect,
       CancelHonoured, Target
  <2>6. QED
    BY <2>3, <2>4, <2>5
<1>8. ASSUME NEW r \in Requests, Refuse(r) PROVE Rest'
  BY <1>8 DEF Refuse, Answer, Goto, TypeOK, VersionInv, HandlerInv, SweepInv, EffectInv,
     LateInv, OnlyOwnerConfirms, NoLateEffect, CancelHonoured, Open, Target,
     HoldingStages, ConfirmStages
<1>9. ASSUME NEW r \in Requests, Check(r) PROVE Rest'
  BY <1>9 DEF Check, Goto, TypeOK, VersionInv, HandlerInv, SweepInv, EffectInv,
     LateInv, OnlyOwnerConfirms, NoLateEffect, CancelHonoured, Open, Target,
     HoldingStages, ConfirmStages
<1>10. ASSUME NEW r \in Requests, Execute(r) PROVE Rest'
  BY <1>10 DEF Execute, Goto, TypeOK, VersionInv, HandlerInv, SweepInv, EffectInv,
     LateInv, OnlyOwnerConfirms, NoLateEffect, CancelHonoured, Open, Target,
     HoldingStages, ConfirmStages
<1>11. ASSUME NEW r \in Requests,
              RecordExpired(r) \/ RecordInvalid(r) \/ RecordFailed(r)
                \/ RecordConfirmed(r) \/ RecordCancelled(r)
       PROVE  Rest'
  <2>1. PICK stage \in {"expire", "reject", "fail", "confirm", "cancel"},
             s \in Settled : HandlerEnds(r, stage, s)
    BY <1>11, RecordCases
  <2> USE DEF HandlerEnds
  <2>2. VersionInv' /\ SweepInv'
    BY <2>1 DEF VersionInv, SweepInv, TypeOK, Settled
  <2>3. HandlerInv'
    BY <2>1 DEF HandlerInv, TypeOK, Target, HoldingStages, ConfirmStages, Settled
  <2>4. EffectInv' /\ OnlyOwnerConfirms' /\ NoLateEffect'
    BY <2>1 DEF EffectInv, OnlyOwnerConfirms, NoLateEffect, TypeOK, Target
  <2>5. LateInv'
    BY <2>1 DEF LateInv, Open, TypeOK, Target, Settled
  <2>6. CancelHonoured'
    <3>1. CASE reply' = [reply EXCEPT ![r] = "cancelled"]
      BY <2>1, <3>1 DEF CancelHonoured, TypeOK, Target
    <3>2. CASE \E other \in {"refused", "confirmed"} :
                  reply' = [reply EXCEPT ![r] = other]
      BY <2>1, <3>2 DEF CancelHonoured, TypeOK, Target
    <3>3. QED
      BY <2>1, <3>1, <3>2
  <2>7. QED
    BY <2>2, <2>3, <2>4, <2>5, <2>6
<1>12. CASE SweepRead
  BY <1>12 DEF SweepRead, Expired, TypeOK, VersionInv, HandlerInv, SweepInv, EffectInv,
     LateInv, OnlyOwnerConfirms, NoLateEffect, CancelHonoured, Open, Target, Settled
<1>13. ASSUME NEW e \in sweep, SweepUpdate(e) PROVE Rest'
  <2>1. e[1] \in Actions /\ e[2] = 0 /\ status[e[1]] # "absent"
    BY DEF TypeOK, SweepInv
  <2>2. \/ /\ status[e[1]] = "pending"
           /\ status' = [status EXCEPT ![e[1]] = "expired"]
           /\ version' = [version EXCEPT ![e[1]] = 1]
        \/ UNCHANGED docs
    BY <1>13, <2>1, UpdateSettlesPending DEF SweepUpdate, Settled
  <2>3. UNCHANGED <<clock, handlers, applied, late>> /\ sweep' \subseteq sweep
    BY <1>13 DEF SweepUpdate
  <2>4. VersionInv' /\ SweepInv'
    BY <2>2, <2>3 DEF VersionInv, SweepInv, TypeOK, Settled
  <2>5. HandlerInv' /\ EffectInv' /\ LateInv' /\ OnlyOwnerConfirms'
        /\ NoLateEffect'
    BY <2>2, <2>3 DEF HandlerInv, EffectInv, LateInv, OnlyOwnerConfirms,
       NoLateEffect, Open, TypeOK, Target
  <2>6. CancelHonoured'
    BY <2>2, <2>3 DEF CancelHonoured, TypeOK, Target
  <2>7. QED
    BY <2>4, <2>5, <2>6
<1>14. CASE Crash
  BY <1>14 DEF Crash, TypeOK, VersionInv, HandlerInv, SweepInv, EffectInv,
     LateInv, OnlyOwnerConfirms, NoLateEffect, CancelHonoured, Open, Target,
     HoldingStages, ConfirmStages
<1>15. CASE UNCHANGED vars
  BY <1>15 DEF vars, TypeOK, VersionInv, HandlerInv, SweepInv, EffectInv,
     LateInv, OnlyOwnerConfirms, NoLateEffect, CancelHonoured, Open, Target
<1>16. QED
  BY <1>3, <1>4, <1>5, <1>6, <1>7, <1>8, <1>9, <1>10, <1>11, <1>12, <1>13,
     <1>14, <1>15 DEF Next, Handle

\* The inductive invariant holds in every reachable state.
THEOREM Inductive == Spec => []IInv
BY InitIInv, NextIInv, PTL DEF Spec

-----------------------------------------------------------------------------
(* What follows from it.                                                   *)

\* A successful cancellation is final and has one author, in every system.
THEOREM CancelIsHonoured == Spec => []CancelHonoured
BY Inductive, PTL DEF IInv

\* No request that comes after the action was settled or expired has an effect.
THEOREM LateRequestsAreHarmless == Spec => []NoLateEffect
BY Inductive, PTL DEF IInv

\* No change of the calendar without the owner's confirmation.
THEOREM OwnerMustConfirm == Spec => []OnlyOwnerConfirms
BY Inductive, PTL DEF IInv

-----------------------------------------------------------------------------
(* The record tells the truth where nothing overlapped and nothing failed. *)

Busy(r) == pc[r] \notin {"idle", "done"}

\* Of an undisturbed action: one request at a time, none while the job holds it,
\* so it is still pending after it was admitted; what took effect is recorded,
\* or about to be by the very request.
TruthOf(a) ==
    /\ \A r, q \in Requests :
          Target(r) = a /\ Target(q) = a /\ Busy(r) /\ Busy(q) => r = q
    /\ \A r \in Requests :
          Target(r) = a =>
             /\ Busy(r) => ~Swept(a)
             /\ pc[r] \in HoldingStages => status[a] = "pending"
             /\ r \in applied => pc[r] = "confirm" \/ status[a] = "confirmed"
    /\ \A r, q \in applied : Target(r) = a /\ Target(q) = a => r = q
    /\ status[a] = "confirmed" => \E r \in applied : Target(r) = a
TruthInv == \A a \in Actions \ disturbed : TruthOf(a)

\* Steps on other actions leave it so.
LEMMA TruthFrame ==
    ASSUME TypeOK, TypeOK', NEW a \in Actions, TruthOf(a), UNCHANGED call,
           \A r \in Requests : Target(r) = a =>
                pc'[r] = pc[r] /\ (r \in applied' <=> r \in applied),
           status'[a] = status[a] \/ (status[a] = "absent" /\ status'[a] = "pending"),
           Swept(a)' => Swept(a)
    PROVE  TruthOf(a)'
<1>1. \A r \in Requests : Target(r)' = Target(r)
  BY DEF Target
<1>2. /\ \A r \in applied' : r \in Requests
      /\ \A r \in applied : r \in Requests
  BY DEF TypeOK
<1> QED BY <1>1, <1>2 DEF TruthOf, Busy

\* A handler that moves on without changing its document keeps it so.
LEMMA TruthMove ==
    ASSUME TypeOK, TypeOK', NEW r \in Requests,
           NEW a \in Actions, Target(r) = a, TruthOf(a), Busy(r),
           NEW stage \in Stages, Goto(r, stage), stage # "idle",
           UNCHANGED <<call, status, applied, sweep>>,
           stage \in HoldingStages => status[a] = "pending",
           r \in applied => stage = "confirm"
    PROVE  TruthOf(a)'
<1>1. \A q \in Requests : Target(q)' = Target(q)
  BY DEF Target
<1>2. pc'[r] = stage /\ \A q \in Requests \ {r} : pc'[q] = pc[q]
  BY DEF Goto, TypeOK
<1>3. Swept(a)' = Swept(a)
  BY DEF Swept, Target
<1>4. \A q \in applied : q \in Requests
  BY DEF TypeOK
<1>5. \A q \in Requests : Busy(q)' /\ Target(q) = a => Busy(q)
  BY <1>2 DEF Busy
<1> QED BY <1>1, <1>2, <1>3, <1>4, <1>5 DEF TruthOf

\* In the beginning nothing was proposed.
LEMMA InitTruth == Init => TruthInv
BY DEF Init, TruthInv, TruthOf, Busy, Swept, HoldingStages, ConfirmStages

\* Every step keeps it, or disturbs the action it is about.
LEMMA TruthStep == IInv /\ TruthInv /\ [Next]_vars => TruthInv'
<1> SUFFICES ASSUME IInv, TruthInv, [Next]_vars, NEW a \in Actions, a \notin disturbed'
             PROVE  TruthOf(a)'
  BY DEF TruthInv
<1> USE DEF docs, clock, handlers
<1>1. TypeOK /\ TypeOK' /\ IInv'
  BY TypeStep, NextIInv DEF IInv
<1>2. \A r \in Requests : Target(r) \in Actions
  BY <1>1, TargetIsAction
<1>3. ASSUME a \notin disturbed PROVE TruthOf(a)
  BY <1>3 DEF TruthInv
<1>4. ASSUME NEW b \in Actions, Propose(b) \/ Lapse(b) \/ StartPasses(b)
      PROVE  TruthOf(a)'
  <2>1. UNCHANGED <<call, pc, applied, sweep, disturbed>>
    BY <1>4 DEF Propose, Lapse, StartPasses
  <2>2. status'[a] = status[a] \/ (status[a] = "absent" /\ status'[a] = "pending")
    BY <1>1, <1>4 DEF Propose, Lapse, StartPasses, TypeOK
  <2> QED BY <1>1, <1>3, <2>1, <2>2, TruthFrame DEF Swept
<1>5. ASSUME NEW r \in Requests, Send(r) PROVE TruthOf(a)'
  <2>1. /\ pc[r] = "idle" /\ Goto(r, "read") /\ a \notin disturbed
        /\ UNCHANGED <<call, status, applied, sweep>>
    BY <1>5 DEF Send, Disturb
  <2>2. CASE Target(r) # a
    <3>1. \A q \in Requests : Target(q) = a => pc'[q] = pc[q]
      BY <1>1, <2>1, <2>2 DEF Goto, TypeOK
    <3> QED BY <1>1, <1>3, <2>1, <3>1, TruthFrame DEF Swept
  <2>3. CASE Target(r) = a
    <3>1. InFlight(a) = {} /\ ~Swept(a)
      BY <1>5, <2>3 DEF Send, Disturb
    <3>2. \A q \in Requests : Target(q) = a => ~Busy(q)
      BY <3>1 DEF InFlight, Busy
    <3>3. pc'[r] = "read" /\ \A q \in Requests \ {r} : pc'[q] = pc[q]
      BY <1>1, <2>1 DEF Goto, TypeOK
    <3>4. \A q \in Requests : Target(q)' = Target(q)
      BY <2>1 DEF Target
    <3>5. r \notin applied /\ \A q \in applied : q \in Requests
      BY <1>1, <2>1 DEF IInv, EffectInv, TypeOK
    <3>6. ~Swept(a)'
      BY <2>1, <3>1 DEF Swept
    <3>7. \A q \in Requests : Target(q) = a /\ Busy(q)' => q = r
      BY <3>2, <3>3 DEF Busy
    <3> QED
      BY <1>3, <2>1, <3>3, <3>4, <3>5, <3>6, <3>7
      DEF TruthOf, HoldingStages, ConfirmStages
  <2> QED BY <2>2, <2>3
<1>6. ASSUME NEW r \in Requests, Target(r) # a, Handle(r) PROVE TruthOf(a)'
  <2>1. /\ UNCHANGED <<call, sweep>> /\ disturbed \subseteq disturbed'
        /\ \A q \in Requests \ {r} : pc'[q] = pc[q] /\ (q \in applied' <=> q \in applied)
    <3>1. CASE Admit(r) \/ Check(r)
      BY <1>1, <3>1 DEF Admit, Check, Goto, TypeOK
    <3>2. CASE Refuse(r) \/ Execute(r)
      BY <1>1, <3>2 DEF Refuse, Execute, Answer, Goto, Disturb, TypeOK
    <3>3. CASE \/ RecordExpired(r) \/ RecordInvalid(r) \/ RecordFailed(r)
               \/ RecordConfirmed(r) \/ RecordCancelled(r)
      BY <1>1, <3>3 DEF RecordExpired, RecordInvalid, RecordFailed, RecordConfirmed,
         RecordCancelled, Record, Answer, Goto, Disturb, TypeOK
    <3> QED BY <1>6, <3>1, <3>2, <3>3 DEF Handle
  <2>2. status'[a] = status[a]
    <3>1. CASE Admit(r) \/ Check(r) \/ Refuse(r) \/ Execute(r)
      BY <3>1 DEF Admit, Check, Refuse, Execute
    <3>2. CASE \/ RecordExpired(r) \/ RecordInvalid(r) \/ RecordFailed(r)
               \/ RecordConfirmed(r) \/ RecordCancelled(r)
      BY <1>1, <1>2, <1>6, <3>2, RecordCases DEF HandlerEnds, TypeOK
    <3> QED BY <1>6, <3>1, <3>2 DEF Handle
  <2> QED BY <1>1, <1>3, <1>6, <2>1, <2>2, TruthFrame DEF Swept
<1>7. ASSUME NEW r \in Requests, Target(r) = a,
             Admit(r) \/ Refuse(r) \/ Check(r)
      PROVE  TruthOf(a)'
  <2>1. /\ UNCHANGED <<call, status, applied, sweep>>
        /\ pc[r] \in {"read", "check"} /\ a \notin disturbed
    BY <1>7 DEF Admit, Refuse, Check, Disturb
  <2>2. r \notin applied
    BY <2>1 DEF IInv, EffectInv
  <2>3. PICK stage \in Stages \ {"idle"} :
           /\ Goto(r, stage)
           /\ stage \in HoldingStages => status[a] = "pending"
    <3>1. CASE Admit(r)
      BY <1>7, <3>1 DEF Admit, Admitted, Target, Stages
    <3>2. CASE Refuse(r)
      BY <3>2 DEF Refuse, Answer, Stages, HoldingStages, ConfirmStages
    <3>3. CASE Check(r)
      <4>1. status[a] = "pending"
        BY <1>3, <1>7, <2>1, <3>3 DEF Check, TruthOf, HoldingStages, ConfirmStages
      <4> QED BY <3>3, <4>1 DEF Check, Stages
    <3> QED BY <1>7, <3>1, <3>2, <3>3
  <2> QED BY <1>1, <1>3, <1>7, <2>1, <2>2, <2>3, TruthMove DEF Busy
<1>8. ASSUME NEW r \in Requests, Target(r) = a, Execute(r) PROVE TruthOf(a)'
  <2>1. /\ UNCHANGED <<call, status, sweep>> /\ pc[r] = "execute" /\ a \notin disturbed
        /\ \/ applied' = applied \cup {r} /\ Goto(r, "confirm")
           \/ applied' = applied /\ Goto(r, "fail")
    BY <1>8 DEF Execute, Disturb
  <2>2. status[a] = "pending" /\ Busy(r)
    BY <1>3, <1>8, <2>1 DEF TruthOf, Busy, HoldingStages, ConfirmStages
  <2>3. r \notin applied /\ \A q \in applied : q \in Requests
    BY <1>1, <2>1 DEF IInv, EffectInv, TypeOK
  <2>4. CASE applied' = applied /\ Goto(r, "fail")
    BY <1>1, <1>3, <1>8, <2>1, <2>2, <2>3, <2>4, TruthMove DEF Stages
  <2>5. CASE applied' = applied \cup {r} /\ Goto(r, "confirm")
    <3>1. \A q \in applied : Target(q) # a
      BY <1>3, <1>8, <2>1, <2>2, <2>3 DEF TruthOf, Busy
    <3>2. pc'[r] = "confirm" /\ \A q \in Requests \ {r} : pc'[q] = pc[q]
      BY <1>1, <2>5 DEF Goto, TypeOK
    <3>3. \A q \in Requests : Target(q)' = Target(q) /\ (Busy(q)' <=> Busy(q))
      BY <2>1, <2>2, <3>2 DEF Target, Busy
    <3>4. Swept(a)' = Swept(a)
      BY <2>1 DEF Swept
    <3> QED BY <1>3, <1>8, <2>1, <2>2, <2>3, <2>5, <3>1, <3>2, <3>3, <3>4 DEF TruthOf
  <2> QED BY <2>1, <2>4, <2>5
<1>9. ASSUME NEW r \in Requests, Target(r) = a,
             \/ RecordExpired(r) \/ RecordInvalid(r) \/ RecordFailed(r)
             \/ RecordConfirmed(r) \/ RecordCancelled(r)
      PROVE  TruthOf(a)'
  <2>1. PICK stage \in {"expire", "reject", "fail", "confirm", "cancel"}, s \in Settled :
           /\ pc[r] = stage /\ Goto(r, "done")
           /\ UpdatePendingActionStatus(a, ver[r], s)
           /\ s = "confirmed" <=> stage = "confirm"
           /\ UNCHANGED <<call, sweep, applied, disturbed>>
    BY <1>9 DEF RecordExpired, RecordInvalid, RecordFailed, RecordConfirmed,
       RecordCancelled, Record, Answer, Disturb, Settled
  <2>2. TruthOf(a) /\ Busy(r) /\ status[a] = "pending" /\ ver[r] = 0
    BY <1>3, <1>9, <2>1 DEF TruthOf, Busy, IInv, HandlerInv, HoldingStages, ConfirmStages
  <2>3. version[a] = 0
    BY <2>2 DEF IInv, VersionInv, Settled
  <2>4. status'[a] = s
    BY <1>1, <2>1, <2>2, <2>3 DEF UpdatePendingActionStatus, Matches, TypeOK
  <2>5. pc'[r] = "done" /\ \A q \in Requests \ {r} : pc'[q] = pc[q]
    BY <1>1, <2>1 DEF Goto, TypeOK
  <2>6. \A q \in applied : q \in Requests
    BY <1>1 DEF TypeOK
  <2>7. \A q \in Requests : Target(q)' = Target(q)
    BY <2>1 DEF Target
  <2>8. Swept(a)' = Swept(a)
    BY <2>1 DEF Swept
  <2>9. \A q \in Requests : Target(q) = a => ~Busy(q)'
    BY <1>9, <2>2, <2>5 DEF TruthOf, Busy
  <2>10. \A q \in applied : Target(q) = a => q = r /\ stage = "confirm"
    BY <1>9, <2>1, <2>2, <2>6 DEF TruthOf, Busy
  <2>11. s = "confirmed" => r \in applied
    BY <2>1 DEF IInv, HandlerInv
  <2>12. \A q \in Requests : Target(q) = a => pc'[q] \notin HoldingStages
    BY <2>9 DEF Busy, HoldingStages, ConfirmStages
  <2> QED
    BY <1>9, <2>1, <2>4, <2>6, <2>7, <2>9, <2>10, <2>11, <2>12 DEF TruthOf
<1>10. CASE SweepRead
  <2>1. UNCHANGED <<call, pc, applied, status>> /\ a \notin disturbed
        /\ sweep' = {<<b, version[b]>> : b \in Expired}
    BY <1>10 DEF SweepRead, Disturb
  <2>2. CASE ~Swept(a)'
    BY <1>1, <1>3, <2>1, <2>2, TruthFrame
  <2>3. CASE Swept(a)'
    <3>1. a \in Expired
      BY <2>1, <2>3 DEF Swept
    <3>2. InFlight(a) = {}
      BY <1>10, <3>1 DEF SweepRead, Disturb, Expired
    <3>3. \A q \in Requests : Target(q) = a => ~Busy(q)
      BY <3>2 DEF InFlight, Busy
    <3>4. \A q \in Requests : Target(q)' = Target(q) /\ (Busy(q)' <=> Busy(q))
      BY <2>1 DEF Target, Busy
    <3>5. \A q \in applied : q \in Requests
      BY <1>1 DEF TypeOK
    <3> QED BY <1>3, <2>1, <3>3, <3>4, <3>5 DEF TruthOf
  <2> QED BY <2>2, <2>3
<1>11. ASSUME NEW e \in sweep, SweepUpdate(e) PROVE TruthOf(a)'
  <2>1. UNCHANGED <<call, pc, applied>> /\ a \notin disturbed /\ sweep' \subseteq sweep
    BY <1>11 DEF SweepUpdate
  <2>2. e[1] \in Actions /\ e[2] = 0 /\ status[e[1]] # "absent"
    BY <1>1 DEF TypeOK, IInv, SweepInv
  <2>3. \/ status[e[1]] = "pending" /\ status' = [status EXCEPT ![e[1]] = "expired"]
        \/ UNCHANGED status
    BY <1>11, <2>2, UpdateSettlesPending DEF SweepUpdate, Settled, IInv
  <2>4. Swept(a)' => Swept(a)
    BY <2>1 DEF Swept
  <2>5. CASE status'[a] = status[a]
    BY <1>1, <1>3, <2>1, <2>4, <2>5, TruthFrame
  <2>6. CASE e[1] = a /\ status[a] = "pending" /\ status'[a] = "expired"
    <3>1. Swept(a)
      BY <2>6 DEF Swept
    <3>2. \A q \in Requests : Target(q) = a => ~Busy(q)
      BY <1>3, <2>1, <3>1 DEF TruthOf
    <3>3. \A q \in applied : q \in Requests /\ Target(q) # a
      BY <1>1, <1>3, <2>1, <2>6, <3>2 DEF TruthOf, TypeOK, Busy
    <3>4. \A q \in Requests : /\ Target(q)' = Target(q) /\ (Busy(q)' <=> Busy(q))
                              /\ Target(q) = a => pc'[q] \notin HoldingStages
      BY <2>1, <3>2 DEF Target, Busy, HoldingStages, ConfirmStages
    <3> QED BY <2>1, <2>6, <3>2, <3>3, <3>4 DEF TruthOf
  <2> QED BY <1>1, <2>2, <2>3, <2>5, <2>6 DEF TypeOK
<1>12. CASE Crash
  <2>1. /\ UNCHANGED <<call, applied, status>> /\ a \notin disturbed /\ sweep' = {}
        /\ InFlight(a) = {}
    BY <1>12 DEF Crash, Disturb
  <2>2. \A q \in Requests : Target(q) = a => pc[q] \in {"idle", "done"}
    BY <2>1 DEF InFlight
  <2>3. \A q \in Requests : Target(q) = a => pc'[q] = pc[q]
    BY <1>12, <2>2 DEF Crash
  <2>4. ~Swept(a)'
    BY <2>1 DEF Swept
  <2> QED BY <1>1, <1>3, <2>1, <2>3, <2>4, TruthFrame
<1>13. CASE UNCHANGED vars
  BY <1>1, <1>3, <1>13, TruthFrame DEF vars, Swept
<1> QED
  BY <1>4, <1>5, <1>6, <1>7, <1>8, <1>9, <1>10, <1>11, <1>12, <1>13 DEF Next, Handle

\* For any number of requests: where those on an action did not overlap and no
\* call failed, it took effect, once, if and only if it is recorded as confirmed.
THEOREM RecordsTellTheTruth == Spec => []UndisturbedTruth
<1>1. IInv /\ TruthInv => UndisturbedTruth
  <2> SUFFICES ASSUME IInv, TruthInv, NEW a \in Actions \ disturbed, InFlight(a) = {}
               PROVE  /\ Effects(a) # {} <=> status[a] = "confirmed"
                      /\ \A r, q \in Effects(a) : r = q
    BY DEF UndisturbedTruth
  <2>1. TruthOf(a)
    BY DEF TruthInv
  <2>2. \A r \in applied : r \in Requests
    BY DEF IInv, TypeOK
  <2>3. \A r \in applied : Target(r) = a => pc[r] # "confirm"
    BY <2>2 DEF InFlight
  <2> QED BY <2>1, <2>2, <2>3 DEF TruthOf, Effects
<1> QED BY <1>1, InitTruth, TruthStep, Inductive, PTL DEF Spec

-----------------------------------------------------------------------------
(* The service implements ActionLifecycle.                                 *)

\* Nothing has been proposed, attempted or executed in the beginning.
LEMMA InitRefines == Init => Lifecycle!Init
BY DEF Init, Lifecycle!Init, Attempts, Taken

\* Moving the handler of r leaves the attempts of the others alone.
LEMMA AttemptsOf ==
    ASSUME TypeOK, NEW r \in Requests, NEW stage \in Stages, Goto(r, stage),
           UNCHANGED call
    PROVE  Attempts' = IF stage \in {"check", "execute"}
                       THEN Attempts \cup {<<Target(r), r>>}
                       ELSE Attempts \ {<<Target(r), r>>}
BY DEF TypeOK, Goto, Attempts, Target

\* Which pairs are attempts, and which are effects.
LEMMA PairMembership ==
    ASSUME NEW r \in Requests, applied \subseteq Requests
    PROVE  /\ <<Target(r), r>> \in Attempts <=> pc[r] \in {"check", "execute"}
           /\ <<Target(r), r>> \in Taken <=> r \in applied
BY DEF Attempts, Taken

\* Every step of the service is a step of ActionLifecycle, or changes nothing
\* there: the clock, the clients, the reads of the handlers and of the job.
LEMMA StepRefines ==
    IInv /\ [Next]_vars => [Lifecycle!Next]_(Lifecycle!lifecycleVars)
<1> SUFFICES ASSUME IInv, [Next]_vars
             PROVE  Lifecycle!Next \/ UNCHANGED <<status, Attempts, Taken>>
  BY DEF Lifecycle!lifecycleVars
<1> USE DEF docs, clock, handlers
<1>1. TypeOK /\ \A r \in Requests : Target(r) \in Actions
  BY TargetIsAction DEF IInv
<1>2. UNCHANGED <<call, pc, applied, status>> => UNCHANGED <<status, Attempts, Taken>>
  BY DEF Attempts, Taken, Target
<1>3. ASSUME NEW a \in Actions, Propose(a) PROVE Lifecycle!Propose(a)
  BY <1>3 DEF Propose, Lifecycle!Propose, Attempts, Taken, Target
<1>4. ASSUME NEW a \in Actions, Lapse(a) \/ StartPasses(a)
      PROVE  UNCHANGED <<status, Attempts, Taken>>
  BY <1>2, <1>4 DEF Lapse, StartPasses
<1>5. ASSUME NEW r \in Requests, Send(r) \/ Refuse(r)
      PROVE  UNCHANGED <<status, Attempts, Taken>>
  <2>1. pc[r] \notin {"check", "execute"}
    BY <1>5 DEF Send, Refuse
  <2>2. (Goto(r, "read") \/ Goto(r, "done")) /\ UNCHANGED <<status, call, applied>>
    BY <1>5 DEF Send, Refuse, Answer
  <2>3. UNCHANGED Attempts
    <3>1. <<Target(r), r>> \notin Attempts
      BY <1>1, <2>1, PairMembership DEF TypeOK
    <3>2. Attempts' = Attempts \ {<<Target(r), r>>}
      BY <1>1, <2>2, AttemptsOf DEF Stages
    <3>3. QED
      BY <3>1, <3>2
  <2>4. QED
    BY <2>2, <2>3 DEF Taken, Target
<1>6. ASSUME NEW r \in Requests, Admit(r)
      PROVE  Lifecycle!Attempt(Target(r), r) \/ UNCHANGED <<status, Attempts, Taken>>
  <2>1. pc[r] = "read" /\ status[Target(r)] = "pending" /\ r \notin applied
    BY <1>6 DEF Admit, Admitted, Target, IInv, EffectInv
  <2>2. UNCHANGED <<status, call, applied>>
    BY <1>6 DEF Admit
  <2>3. UNCHANGED Taken
    BY <2>2 DEF Taken, Target
  <2>4. CASE Goto(r, "check")
    <3>1. Attempts' = Attempts \cup {<<Target(r), r>>}
      BY <1>1, <2>2, <2>4, AttemptsOf DEF Stages
    <3>2. QED
      BY <1>1, <2>1, <2>2, <2>3, <3>1, PairMembership DEF Lifecycle!Attempt, TypeOK
  <2>5. CASE Goto(r, "cancel")
    <3>1. Attempts' = Attempts \ {<<Target(r), r>>}
      BY <1>1, <2>2, <2>5, AttemptsOf DEF Stages
    <3>2. QED
      BY <1>1, <2>1, <2>2, <2>3, <3>1, PairMembership DEF TypeOK
  <2>6. QED
    BY <1>6, <2>4, <2>5 DEF Admit
<1>7. ASSUME NEW r \in Requests, Check(r) PROVE Lifecycle!Abandon
  <2>1. pc[r] = "check" /\ UNCHANGED <<status, call, applied>>
    BY <1>7 DEF Check
  <2>2. PICK stage \in {"expire", "reject", "execute"} : Goto(r, stage)
    BY <1>7 DEF Check
  <2>3. Attempts' \in SUBSET Attempts
    BY <1>1, <2>1, <2>2, AttemptsOf, PairMembership DEF TypeOK, Stages
  <2>4. QED
    BY <2>1, <2>3 DEF Lifecycle!Abandon, Taken, Target
<1>8. ASSUME NEW r \in Requests, Execute(r)
      PROVE  Lifecycle!TakeEffect(Target(r), r) \/ Lifecycle!Abandon
  <2>1. pc[r] = "execute" /\ UNCHANGED <<status, call>>
    BY <1>8 DEF Execute
  <2>2. <<Target(r), r>> \in Attempts
    BY <1>1, <2>1, PairMembership DEF TypeOK
  <2>3. Goto(r, "confirm") \/ Goto(r, "fail")
    BY <1>8 DEF Execute
  <2>4. Attempts' = Attempts \ {<<Target(r), r>>}
    BY <1>1, <2>1, <2>3, AttemptsOf DEF Stages
  <2>5. CASE applied' = applied \cup {r}
    <3>1. Taken' = Taken \cup {<<Target(r), r>>}
      BY <2>1, <2>5 DEF Taken, Target
    <3>2. QED
      BY <2>1, <2>2, <2>4, <3>1 DEF Lifecycle!TakeEffect
  <2>6. CASE applied' = applied
    BY <2>1, <2>4, <2>6 DEF Lifecycle!Abandon, Taken, Target
  <2>7. QED
    BY <1>8, <2>5, <2>6 DEF Execute
<1>9. ASSUME NEW r \in Requests,
             RecordExpired(r) \/ RecordInvalid(r) \/ RecordFailed(r)
               \/ RecordConfirmed(r) \/ RecordCancelled(r)
      PROVE  \/ \E s \in Settled : Lifecycle!Settle(Target(r), s)
             \/ UNCHANGED <<status, Attempts, Taken>>
  <2>1. PICK stage \in {"expire", "reject", "fail", "confirm", "cancel"},
             s \in Settled : HandlerEnds(r, stage, s)
    BY <1>9, RecordCases
  <2>2. Goto(r, "done") /\ UNCHANGED <<call, applied>> /\ pc[r] = stage
    BY <2>1 DEF HandlerEnds, Goto
  <2>3. UNCHANGED Attempts
    <3>1. <<Target(r), r>> \notin Attempts
      BY <1>1, <2>2, PairMembership DEF TypeOK
    <3>2. Attempts' = Attempts \ {<<Target(r), r>>}
      BY <1>1, <2>2, AttemptsOf DEF Stages
    <3>3. QED
      BY <3>1, <3>2
  <2>4. UNCHANGED Taken
    BY <2>2 DEF Taken, Target
  <2>5. s = "confirmed" => <<Target(r), r>> \in Taken
    BY <1>1, <2>1, <2>2, PairMembership DEF HandlerEnds, IInv, HandlerInv, TypeOK
  <2>6. QED
    BY <2>1, <2>3, <2>4, <2>5 DEF HandlerEnds, Lifecycle!Settle
<1>10. CASE SweepRead
  BY <1>2, <1>10 DEF SweepRead
<1>11. ASSUME NEW e \in sweep, SweepUpdate(e)
       PROVE  \/ Lifecycle!Settle(e[1], "expired")
              \/ UNCHANGED <<status, Attempts, Taken>>
  <2>1. e[1] \in Actions /\ e[2] = 0 /\ status[e[1]] # "absent"
    BY <1>1 DEF TypeOK, IInv, SweepInv
  <2>2. \/ status[e[1]] = "pending" /\ status' = [status EXCEPT ![e[1]] = "expired"]
        \/ UNCHANGED docs
    BY <1>11, <2>1, UpdateSettlesPending DEF SweepUpdate, Settled, IInv
  <2>3. UNCHANGED <<Attempts, Taken>>
    BY <1>11 DEF SweepUpdate, Attempts, Taken, Target
  <2>4. QED
    BY <2>2, <2>3 DEF Lifecycle!Settle
<1>12. ASSUME Crash PROVE Lifecycle!Abandon
  BY <1>1, <1>12 DEF Crash, Lifecycle!Abandon, TypeOK, Attempts, Taken, Target
<1>13. CASE UNCHANGED vars
  BY <1>2, <1>13 DEF vars
<1>14. QED
  BY <1>1, <1>3, <1>4, <1>5, <1>6, <1>7, <1>8, <1>9, <1>10, <1>11, <1>12, <1>13
  DEF Next, Handle, Lifecycle!Next, Lifecycle!Settled, Settled, TypeOK

\* Every behaviour of the service is one that ActionLifecycle allows.
THEOREM Implements == Spec => ImplementsLifecycle
<1>1. Init => Lifecycle!Init
  BY InitRefines
<1>2. IInv /\ [Next]_vars => [Lifecycle!Next]_(Lifecycle!lifecycleVars)
  BY StepRefines
<1>3. QED
  BY <1>1, <1>2, Inductive, PTL DEF Spec, ImplementsLifecycle, Lifecycle!Spec

\* Once settled, an action keeps its status, whoever writes to it and however
\* stale what they read.
THEOREM SettledStaysSettled == Spec => SettledForGood
<1>1. TypeOK /\ [Lifecycle!Next]_(Lifecycle!lifecycleVars) =>
        [\A a \in Actions : status[a] \in Settled => status'[a] = status[a]]_vars
  BY DEF Lifecycle!Next, Lifecycle!lifecycleVars, Lifecycle!Propose,
         Lifecycle!Attempt, Lifecycle!TakeEffect, Lifecycle!Abandon,
         Lifecycle!Settle, Settled, TypeOK
<1>2. QED
  BY <1>1, StepRefines, TypeCorrect, Inductive, PTL DEF Spec, SettledForGood
=============================================================================
