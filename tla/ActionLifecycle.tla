-------------------------- MODULE ActionLifecycle --------------------------
(***************************************************************************)
(* What the chat service promises about the actions an agent proposes:     *)
(* a proposal is settled once and for good, the calendar is only changed   *)
(* by a confirmation attempt that was opened while the action was pending, *)
(* each attempt changes it at most once, and an action is never recorded   *)
(* as confirmed without a change.                                          *)
(*                                                                         *)
(* It does not promise that an action takes effect at most once, nor that  *)
(* a cancelled action has no effect: the code does not keep those          *)
(* promises (see MCPendingActions).                                        *)
(***************************************************************************)
CONSTANTS Actions,    \* the action ids
          Requests    \* the requests that may attempt to confirm one

VARIABLES state,      \* the recorded status of each action
          attempts,   \* <<a, r>>: r is trying to carry out a
          effects     \* <<a, r>>: r has changed the calendar as a asks

lifecycleVars == <<state, attempts, effects>>

Settled == {"confirmed", "cancelled", "expired", "failed"}

Init ==
    /\ state = [a \in Actions |-> "absent"]
    /\ attempts = {}
    /\ effects = {}

Propose(a) ==
    /\ state[a] = "absent"
    /\ state' = [state EXCEPT ![a] = "pending"]
    /\ UNCHANGED <<attempts, effects>>

Attempt(a, r) ==
    /\ state[a] = "pending"
    /\ <<a, r>> \notin effects
    /\ attempts' = attempts \cup {<<a, r>>}
    /\ UNCHANGED <<state, effects>>

TakeEffect(a, r) ==
    /\ <<a, r>> \in attempts
    /\ attempts' = attempts \ {<<a, r>>}
    /\ effects' = effects \cup {<<a, r>>}
    /\ UNCHANGED state

Abandon ==
    /\ attempts' \in SUBSET attempts
    /\ UNCHANGED <<state, effects>>

Settle(a, s) ==
    /\ state[a] = "pending"
    /\ s = "confirmed" => \E r \in Requests : <<a, r>> \in effects
    /\ state' = [state EXCEPT ![a] = s]
    /\ UNCHANGED <<attempts, effects>>

Next ==
    \/ \E a \in Actions : Propose(a)
    \/ \E a \in Actions, r \in Requests : Attempt(a, r) \/ TakeEffect(a, r)
    \/ Abandon
    \/ \E a \in Actions, s \in Settled : Settle(a, s)

Spec == Init /\ [][Next]_lifecycleVars
=============================================================================
