------------------------------- MODULE Metrics -------------------------------
(***************************************************************************)
(* The counters of pkg/metrics and the RWMutex over them.  Handlers of the *)
(* chat service add to a counter under the write lock; GET /chat/metrics   *)
(* takes the read lock for a snapshot, and GetConfirmationRate and         *)
(* GetSuccessRate, which GetSnapshot calls, take it once more.             *)
(*                                                                         *)
(* sync.RWMutex (external): Lock first shuts out new readers, then waits   *)
(* for those that are in; RLock waits while a writer waits or writes.      *)
(***************************************************************************)
EXTENDS Naturals

CONSTANTS Snapshots, Increments     \* goroutines that read and that write

VARIABLES
  held,       \* per goroutine, the read locks it holds
  writing,    \* goroutines inside the write lock
  waiting,    \* goroutines that wait for the write lock
  confirmed,  \* TotalConfirmedActions
  pc

vars == <<held, writing, waiting, confirmed, pc>>

Init ==
  /\ held = [s \in Snapshots |-> 0]
  /\ writing = {} /\ waiting = {}
  /\ confirmed = 0
  /\ pc = [g \in Snapshots \cup Increments |-> "start"]

Goto(g, label) == pc' = [pc EXCEPT ![g] = label]

RLock(s) ==
  /\ waiting = {} /\ writing = {}
  /\ held' = [held EXCEPT ![s] = @ + 1]
RUnlock(s) == held' = [held EXCEPT ![s] = @ - 1]

-----------------------------------------------------------------------------
(* IncrementConfirmedActions and its siblings *)

Lock(g) ==
  /\ pc[g] = "start"
  /\ waiting' = waiting \cup {g}
  /\ Goto(g, "lock")
  /\ UNCHANGED <<held, writing, confirmed>>

Locked(g) ==
  /\ pc[g] = "lock"
  /\ writing = {} /\ \A s \in Snapshots : held[s] = 0
  /\ writing' = {g} /\ waiting' = waiting \ {g}
  /\ Goto(g, "add")
  /\ UNCHANGED <<held, confirmed>>

Increment(g) ==
  /\ pc[g] = "add"
  /\ confirmed' = confirmed + 1
  /\ writing' = {}
  /\ Goto(g, "done")
  /\ UNCHANGED <<held, waiting>>

-----------------------------------------------------------------------------
(* GetSnapshot *)

GetSnapshot(s) ==
  /\ pc[s] = "start"
  /\ RLock(s)
  /\ Goto(s, "confirmation rate")
  /\ UNCHANGED <<writing, waiting, confirmed>>

\* Takes the read lock the goroutine holds already, and gives it back.
Rate(s, from, inside, to) ==
  \/ /\ pc[s] = from /\ RLock(s)
     /\ Goto(s, inside)
     /\ UNCHANGED <<writing, waiting, confirmed>>
  \/ /\ pc[s] = inside /\ RUnlock(s)
     /\ Goto(s, to)
     /\ UNCHANGED <<writing, waiting, confirmed>>

GetConfirmationRate(s) == Rate(s, "confirmation rate", "in confirmation rate", "success rate")
GetSuccessRate(s) == Rate(s, "success rate", "in success rate", "return")

Return(s) ==
  /\ pc[s] = "return" /\ RUnlock(s)
  /\ Goto(s, "done")
  /\ UNCHANGED <<writing, waiting, confirmed>>

-----------------------------------------------------------------------------

Snapshot(s) == GetSnapshot(s) \/ GetConfirmationRate(s) \/ GetSuccessRate(s) \/ Return(s)
Next ==
  \/ \E g \in Increments : Lock(g) \/ Locked(g) \/ Increment(g)
  \/ \E s \in Snapshots : Snapshot(s)

\* The Go scheduler runs every goroutine that is not blocked.
FairSpec ==
  /\ Init /\ [][Next]_vars
  /\ \A g \in Increments : WF_vars(Locked(g) \/ Increment(g))
  /\ \A s \in Snapshots : SF_vars(Snapshot(s))

\* "GetSnapshot returns a snapshot of current metrics": one that was begun is
\* returned, whatever is counted meanwhile.
SnapshotReturns == \A s \in Snapshots : pc[s] # "start" ~> pc[s] = "done"
=============================================================================
