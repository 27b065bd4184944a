----------------------------- MODULE HabitsProofs -----------------------------
(***************************************************************************)
(* Proofs about Habits, for any number of saves, requests and faults.      *)
(*                                                                         *)
(* Lost updates only undercount: no copy of the frequency row, stale or    *)
(* not, counts more saves than there are trackers past their count.  Who   *)
(* finds the threshold reached has therefore that many saves behind him.   *)
(* When nothing overlaps or fails, nothing is lost: a suggestion is booked *)
(* once, and every cycle has its suggestion.                               *)
(***************************************************************************)
EXTENDS Habits, FiniteSetTheorems, TLAPS

\* The trackers that have counted their save, or have given up.
Past == {t \in Saves : pc[t] \in {"suggest", "mark", "shown", "done"}}
Total == Cardinality(Past)

\* No copy of the row is ahead.
CountInv == freq.count <= Total /\ \A a \in Actors : copy[a].count <= Total

\* A tracker about to suggest, a suggestion, and a request about one are
\* founded on enough saves.
FoundedInv ==
    \/ Threshold <= Total
    \/ /\ \A t \in Saves : pc[t] # "suggest" /\ suggestion[t] = "none"
       /\ \A r \in Requests : pc[r] = "idle"

EarnedInv == TypeOK /\ CountInv /\ FoundedInv

\* Only a rejection settles a suggestion without the occurrences.
CompleteInv ==
    /\ TypeOK
    /\ \A r \in Requests : pc[r] = "settle" => kind[r] = "reject"
    /\ AcceptedIsComplete

-----------------------------------------------------------------------------
(* Types.                                                                  *)

\* What a tracker makes of a row is a row.
LEMMA RowFields ==
    ASSUME NEW row \in Row
    PROVE  /\ row.count \in Nat
           /\ row.exists \in BOOLEAN /\ row.shown \in BOOLEAN /\ row.accepted \in BOOLEAN
           /\ \A n \in Nat : [row EXCEPT !.count = n] \in Row
           /\ [row EXCEPT !.shown = TRUE] \in Row
           /\ [row EXCEPT !.accepted = TRUE] \in Row
           /\ NewRow \in Row /\ NoRow \in Row
BY DEF Row, NewRow, NoRow

LEMMA CountedType ==
    ASSUME NEW row \in Row
    PROVE  Counted(row) \in Row /\ Upserted(row) \in Row
<1>1. row.count + 1 \in Nat
  <2>1. row.count \in Nat
    BY DEF Row
  <2> QED BY <2>1
<1>2. [row EXCEPT !.count = row.count + 1] \in Row /\ NewRow \in Row
  BY <1>1 DEF Row, NewRow
<1> QED BY <1>2, Zenon DEF Counted, Upserted

\* The faults are bounded and the observer is a Boolean.
LEMMA FaultStep ==
    ASSUME TypeOK, [Next]_vars
    PROVE  faults' \in 0 .. MaxFaults /\ disturbed' \in BOOLEAN
<1>1. \/ Fault
      \/ faults' = faults /\ disturbed' = disturbed
      \/ faults' = faults /\ disturbed' = (disturbed \/ ~Quiet)
  BY DEF Next, vars, Create, Edit, Track, Begin, NoFault, GetFrequency, Upsert,
      Update, Suggest, MarkEventsAsRecurring, MarkShown, Send, Handle,
      ReadSuggestion, CreateOccurrence, UpdateSuggestionStatus, RereadFrequency,
      MarkAccepted, Crash
<1>2. faults' \in 0 .. MaxFaults
  BY <1>1, CountsAssumption DEF TypeOK, Fault
<1>3. disturbed' \in BOOLEAN
  BY <1>1, Zenon DEF TypeOK, Fault
<1> QED BY <1>2, <1>3

\* Every step moves one actor to a stage, or is a crash.
LEMMA StageStep ==
    ASSUME TypeOK, [Next]_vars
    PROVE  pc' \in [Actors -> Stages]
<1>1. \/ pc' = pc
      \/ \E a \in Actors, stage \in Stages : pc' = [pc EXCEPT ![a] = stage]
      \/ pc' = [a \in Actors |-> IF pc[a] = "idle" THEN "idle" ELSE "done"]
  BY DEF Next, vars, Create, Edit, Track, Begin, GetFrequency, Upsert,
      Update, Suggest, MarkEventsAsRecurring, MarkShown, Send, Handle,
      ReadSuggestion, CreateOccurrence, UpdateSuggestionStatus, RereadFrequency,
      MarkAccepted, Crash, Goto, Actors, Stages
<1> QED BY <1>1 DEF TypeOK, Stages

\* Every step writes rows.
LEMMA RowStep ==
    ASSUME TypeOK, [Next]_vars
    PROVE  freq' \in Row /\ copy' \in [Actors -> Row]
<1>1. \/ UNCHANGED <<freq, copy>>
      \/ \E a \in Actors : freq' = freq /\ copy' = [copy EXCEPT ![a] = freq]
      \/ freq' = Upserted(freq) /\ copy' = copy
      \/ \E a \in Actors : freq' \in {freq, Counted(copy[a])}
           /\ copy' \in {copy, [copy EXCEPT ![a] = Counted(copy[a])]}
      \/ \E a \in Actors : copy' = copy
           /\ freq' \in {[copy[a] EXCEPT !.shown = TRUE], [copy[a] EXCEPT !.accepted = TRUE]}
  BY DEF Next, vars, Create, Edit, Track, GetFrequency, Upsert,
      Update, Suggest, MarkEventsAsRecurring, MarkShown, Send, Handle,
      ReadSuggestion, CreateOccurrence, UpdateSuggestionStatus, RereadFrequency,
      MarkAccepted, Crash, Actors
<1>2. freq \in Row /\ Upserted(freq) \in Row
      /\ \A a \in Actors : /\ copy[a] \in Row /\ Counted(copy[a]) \in Row
                           /\ [copy[a] EXCEPT !.shown = TRUE] \in Row
                           /\ [copy[a] EXCEPT !.accepted = TRUE] \in Row
  BY RowFields, CountedType DEF TypeOK
<1>3. \A a \in Actors, row \in Row : [copy EXCEPT ![a] = row] \in [Actors -> Row]
  BY DEF TypeOK
<1> QED BY <1>1, <1>2, <1>3 DEF TypeOK

\* Every step keeps the types of events, suggestions and requests.
LEMMA ContentStep ==
    ASSUME TypeOK, [Next]_vars
    PROVE  /\ event' \in [Saves -> {"none", "single", "recurring"}]
           /\ suggestion' \in [Saves -> {"none", "pending", "accepted", "rejected"}]
           /\ target' \in [Requests -> Saves]
           /\ kind' \in [Requests -> {"accept", "reject"}]
           /\ made' \in [Requests -> 0 .. Weeks]
<1> DEFINE Status == {"pending", "accepted", "rejected"}
<1>1. /\ target' = target /\ kind' = kind
      /\ \/ event' = event
         \/ \E u \in Saves : event' = [event EXCEPT ![u] = "single"]
         \/ event' = [u \in Saves |-> IF event[u] = "none" THEN "none" ELSE "recurring"]
  BY DEF Next, vars, Create, Edit, Track, GetFrequency, Upsert,
      Update, Suggest, MarkEventsAsRecurring, MarkShown, Send, Handle,
      ReadSuggestion, CreateOccurrence, UpdateSuggestionStatus, RereadFrequency,
      MarkAccepted, Crash
<1>2. \/ suggestion' = suggestion
      \/ \E t \in Saves, s \in Status : suggestion' = [suggestion EXCEPT ![t] = s]
  BY DEF TypeOK, Next, vars, Create, Edit, Track, GetFrequency, Upsert,
      Update, Suggest, MarkEventsAsRecurring, MarkShown, Send, Handle,
      ReadSuggestion, CreateOccurrence, UpdateSuggestionStatus, RereadFrequency,
      MarkAccepted, Crash, Settled
<1>3. \/ made' = made
      \/ \E r \in Requests : made[r] < Weeks /\ made' = [made EXCEPT ![r] = made[r] + 1]
  BY DEF Next, vars, Create, Edit, Track, GetFrequency, Upsert,
      Update, Suggest, MarkEventsAsRecurring, MarkShown, Send, Handle,
      ReadSuggestion, CreateOccurrence, UpdateSuggestionStatus, RereadFrequency,
      MarkAccepted, Crash
<1>4. event' \in [Saves -> {"none", "single", "recurring"}]
  BY <1>1 DEF TypeOK
<1>5. suggestion' \in [Saves -> {"none", "pending", "accepted", "rejected"}]
  BY <1>2 DEF TypeOK
<1>6. made' \in [Requests -> 0 .. Weeks]
  BY <1>3, CountsAssumption DEF TypeOK
<1> QED BY <1>1, <1>4, <1>5, <1>6 DEF TypeOK

LEMMA TypeStep == TypeOK /\ [Next]_vars => TypeOK'
BY FaultStep, StageStep, RowStep, ContentStep DEF TypeOK

LEMMA TypeInit == Init => TypeOK
<1> SUFFICES ASSUME Init PROVE TypeOK
  OBVIOUS
<1>1. NoRow \in Row
  BY DEF NoRow, Row
<1>2. freq \in Row /\ copy \in [Actors -> Row]
  BY <1>1, Zenon DEF Init
<1>3. disturbed \in BOOLEAN
  BY DEF Init
<1>4. /\ event \in [Saves -> {"none", "single", "recurring"}]
      /\ suggestion \in [Saves -> {"none", "pending", "accepted", "rejected"}]
      /\ pc \in [Actors -> Stages]
  BY DEF Init, Stages
<1>5. /\ made \in [Requests -> 0 .. Weeks] /\ faults \in 0 .. MaxFaults
      /\ target \in [Requests -> Saves] /\ kind \in [Requests -> {"accept", "reject"}]
  BY CountsAssumption DEF Init
<1> QED BY <1>2, <1>3, <1>4, <1>5 DEF TypeOK

\* The rows and the copies of them hold values of their types.
THEOREM TypeCorrect == Spec => []TypeOK
BY TypeInit, TypeStep, PTL DEF Spec

-----------------------------------------------------------------------------
(* Trackers past their count only become more.                             *)

LEMMA TotalType == Total \in Nat /\ IsFiniteSet(Past) /\ IsFiniteSet(Past')
                   /\ Total' \in Nat
<1>1. Past \in SUBSET Saves /\ Past' \in SUBSET Saves
  BY DEF Past
<1>2. IsFiniteSet(Past) /\ IsFiniteSet(Past')
  BY <1>1, ActorsAssumption, FS_Subset
<1>3. Cardinality(Past) \in Nat /\ Cardinality(Past') \in Nat
  BY <1>2, FS_CardinalityType
<1> QED BY <1>2, <1>3 DEF Total

LEMMA PastGrows == TypeOK /\ [Next]_vars => Past \subseteq Past'
<1> SUFFICES ASSUME TypeOK, [Next]_vars, NEW t \in Saves,
                    pc[t] \in {"suggest", "mark", "shown", "done"}
             PROVE  pc'[t] \in {"suggest", "mark", "shown", "done"}
  BY DEF Past
<1> USE ActorsAssumption DEF TypeOK, Goto, Actors
<1>1. ASSUME NEW s \in Saves,
             Create(s) \/ (\E u \in Saves : Edit(s, u)) \/ Track(s)
      PROVE  pc'[t] \in {"suggest", "mark", "shown", "done"}
  BY <1>1 DEF Create, Edit, Begin, Track, GetFrequency, Upsert, Update,
              Suggest, MarkEventsAsRecurring, MarkShown
<1>2. ASSUME NEW r \in Requests, Send(r) \/ Handle(r)
      PROVE  pc'[t] = pc[t]
  <2>1. t # r
    OBVIOUS
  <2> QED BY <1>2, <2>1 DEF Send, Begin, Handle, ReadSuggestion, CreateOccurrence,
             UpdateSuggestionStatus, RereadFrequency, MarkAccepted
<1>3. CASE Crash
  BY <1>3 DEF Crash
<1>4. CASE UNCHANGED vars
  BY <1>4 DEF vars
<1> QED BY <1>1, <1>2, <1>3, <1>4 DEF Next

\* The total grows, and by one at least when a tracker joins.
LEMMA TotalGrows ==
    ASSUME TypeOK, [Next]_vars
    PROVE  /\ Total <= Total'
           /\ \A t \in Past' : t \notin Past => Total + 1 <= Total'
<1>1. Past \in SUBSET (Past')
  BY PastGrows
<1>2. Total <= Total'
  BY <1>1, TotalType, FS_Subset DEF Total
<1>3. ASSUME NEW t \in Past', t \notin Past PROVE Total + 1 <= Total'
  <2>1. Past \cup {t} \in SUBSET (Past')
    BY <1>1, <1>3
  <2>2. Cardinality(Past \cup {t}) = Total + 1
    BY <1>3, TotalType, FS_AddElement DEF Total
  <2>3. Cardinality(Past \cup {t}) <= Cardinality(Past')
    BY <2>1, TotalType, FS_Subset
  <2> QED BY <2>2, <2>3 DEF Total
<1> QED BY <1>2, <1>3

-----------------------------------------------------------------------------
(* SuggestionsAreEarned.                                                   *)

\* A row that a tracker writes or reads is within the new total.
LEMMA CountStep ==
    ASSUME TypeOK, CountInv, [Next]_vars
    PROVE  CountInv'
<1> DEFINE Within(row) == row.count <= Total'
<1>1. Total \in Nat /\ Total' \in Nat /\ Total <= Total'
  BY TotalType, TotalGrows
<1>2. freq \in Row /\ \A a \in Actors : copy[a] \in Row
  BY DEF TypeOK
<1>3. Within(freq) /\ \A a \in Actors : Within(copy[a])
  BY <1>1, <1>2 DEF CountInv, Row
<1>4. ASSUME NEW row \in Row, Within(row)
      PROVE  /\ Within([row EXCEPT !.shown = TRUE])
             /\ Within([row EXCEPT !.accepted = TRUE])
  BY <1>4 DEF Row
<1>5. ASSUME NEW row \in Row, row.count <= Total, Total + 1 <= Total'
      PROVE  Within(Counted(row)) /\ Within(Upserted(row))
  BY <1>1, <1>5 DEF Row, Counted, Upserted, NewRow
<1>6. ASSUME NEW row, Within(row), NEW a \in Actors,
             copy' = [copy EXCEPT ![a] = row]
      PROVE  \A b \in Actors : Within(copy'[b])
  <2> TAKE b \in Actors
  <2>1. copy'[b] = IF b = a THEN row ELSE copy[b]
    BY <1>6 DEF TypeOK
  <2> QED BY <1>3, <1>6, <2>1
<1> HIDE DEF Within
<1>7. CASE UNCHANGED <<freq, copy>>
  BY <1>3, <1>7 DEF CountInv, Within
<1>8. ASSUME NEW t \in Saves, GetFrequency(t) PROVE CountInv'
  <2>1. freq' = freq /\ (copy' = copy \/ copy' = [copy EXCEPT ![t] = freq])
    BY <1>8 DEF GetFrequency
  <2>2. \A b \in Actors : Within(copy'[b])
    BY <1>3, <1>6, <2>1 DEF Actors
  <2> QED BY <1>3, <2>1, <2>2 DEF CountInv, Within
<1>9. ASSUME NEW r \in Requests, RereadFrequency(r) PROVE CountInv'
  <2>1. freq' = freq /\ (copy' = copy \/ copy' = [copy EXCEPT ![r] = freq])
    BY <1>9 DEF RereadFrequency
  <2>2. \A b \in Actors : Within(copy'[b])
    BY <1>3, <1>6, <2>1 DEF Actors
  <2> QED BY <1>3, <2>1, <2>2 DEF CountInv, Within
<1>10. ASSUME NEW t \in Saves, Upsert(t) PROVE CountInv'
  <2>1. t \in Past' /\ t \notin Past
    BY <1>10 DEF Upsert, Past, Goto, TypeOK, Actors
  <2>2. Within(Upserted(freq))
    BY <1>2, <1>5, <2>1, TotalGrows DEF CountInv
  <2>3. freq' \in {freq, Upserted(freq)} /\ copy' = copy
    BY <1>10 DEF Upsert
  <2> QED BY <1>3, <2>2, <2>3 DEF CountInv, Within
<1>11. ASSUME NEW t \in Saves, Update(t) PROVE CountInv'
  <2> DEFINE new == Counted(copy[t])
  <2>1. t \in Past' /\ t \notin Past
    BY <1>11 DEF Update, Past, Goto, TypeOK, Actors
  <2>2. Within(new)
    BY <1>2, <1>5, <2>1, TotalGrows DEF CountInv, Actors
  <2>3. freq' \in {freq, new} /\ (copy' = copy \/ copy' = [copy EXCEPT ![t] = new])
    BY <1>11 DEF Update
  <2> HIDE DEF new
  <2>4. \A b \in Actors : Within(copy'[b])
    BY <1>3, <1>6, <2>2, <2>3 DEF Actors
  <2> QED BY <1>3, <2>2, <2>3, <2>4 DEF CountInv, Within
<1>12. ASSUME NEW t \in Saves, MarkShown(t) PROVE CountInv'
  <2>1. freq' \in {freq, [copy[t] EXCEPT !.shown = TRUE]} /\ copy' = copy
    BY <1>12 DEF MarkShown
  <2> QED BY <1>2, <1>3, <1>4, <2>1 DEF CountInv, Within, Actors
<1>13. ASSUME NEW r \in Requests, MarkAccepted(r) PROVE CountInv'
  <2>1. freq' \in {freq, [copy[r] EXCEPT !.accepted = TRUE]} /\ copy' = copy
    BY <1>13 DEF MarkAccepted
  <2> QED BY <1>2, <1>3, <1>4, <2>1 DEF CountInv, Within, Actors
<1> QED
  BY <1>7, <1>8, <1>9, <1>10, <1>11, <1>12, <1>13
  DEF Next, vars, Track, Handle, Create, Edit, Suggest, MarkEventsAsRecurring,
      Send, ReadSuggestion, CreateOccurrence, UpdateSuggestionStatus, Crash

\* Whoever suggests for the first time found the threshold in the row he wrote.
LEMMA FoundedStep ==
    ASSUME TypeOK, CountInv', FoundedInv, [Next]_vars
    PROVE  FoundedInv'
<1>1. CASE Threshold <= Total
  <2>1. Threshold <= Total'
    BY <1>1, TotalType, TotalGrows, CountsAssumption
  <2> QED BY <2>1 DEF FoundedInv
<1>2. CASE /\ \A t \in Saves : pc[t] # "suggest" /\ suggestion[t] = "none"
           /\ \A r \in Requests : pc[r] = "idle"
  <2> DEFINE Untouched == /\ \A t \in Saves : pc'[t] # "suggest" /\ suggestion'[t] = "none"
                          /\ \A r \in Requests : pc'[r] = "idle"
  <2> USE <1>2, ActorsAssumption DEF TypeOK, Goto, Actors
  <2>1. ASSUME NEW t \in Saves, Update(t) PROVE Untouched \/ Threshold <= Total'
    <3>1. CASE copy' = [copy EXCEPT ![t] = Counted(copy[t])] /\ Due(Counted(copy[t]))
      <4>1. Threshold <= copy'[t].count
        BY <3>1 DEF Due
      <4>2. copy'[t].count <= Total'
        BY DEF CountInv
      <4>3. copy'[t].count \in Nat
        BY TypeStep DEF Row
      <4> QED BY <4>1, <4>2, <4>3, TotalType, CountsAssumption
    <3>2. CASE ~(copy' = [copy EXCEPT ![t] = Counted(copy[t])] /\ Due(Counted(copy[t])))
      <4>1. pc' = [pc EXCEPT ![t] = "done"] /\ suggestion' = suggestion
        BY <2>1, <3>2 DEF Update
      <4> QED BY <4>1
    <3> QED BY <3>1, <3>2
  <2>2. ASSUME NEW t \in Saves,
               \/ Create(t) \/ (\E u \in Saves : Edit(t, u)) \/ GetFrequency(t)
               \/ Upsert(t) \/ MarkEventsAsRecurring(t) \/ MarkShown(t)
        PROVE  Untouched
    <3>1. suggestion' = suggestion
      BY <2>2 DEF Create, Edit, GetFrequency, Upsert, MarkEventsAsRecurring, MarkShown
    <3>2. \E stage \in {"get", "update", "upsert", "shown", "done"} :
            pc' = [pc EXCEPT ![t] = stage]
      BY <2>2 DEF Create, Edit, Begin, GetFrequency, Upsert, MarkEventsAsRecurring, MarkShown
    <3> QED BY <3>1, <3>2
  <2>3. ASSUME NEW t \in Saves, Suggest(t) PROVE FALSE
    BY <2>3 DEF Suggest
  <2>4. ASSUME NEW r \in Requests, Send(r) \/ Handle(r) PROVE FALSE
    BY <2>4 DEF Send, Handle, ReadSuggestion, CreateOccurrence,
                UpdateSuggestionStatus, RereadFrequency, MarkAccepted
  <2>5. ASSUME Crash PROVE Untouched
    BY <2>5 DEF Crash
  <2>6. ASSUME UNCHANGED vars PROVE Untouched
    BY <2>6 DEF vars
  <2>7. Untouched \/ Threshold <= Total'
    BY <2>1, <2>2, <2>3, <2>4, <2>5, <2>6 DEF Next, Track
  <2> QED BY <2>7 DEF FoundedInv
<1> QED BY <1>1, <1>2 DEF FoundedInv

\* Nobody is asked about a habit before events were saved as often as the
\* threshold says, whatever races and failures.
THEOREM Earned == Spec => []SuggestionsAreEarned
<1>1. Init => EarnedInv
  <2> SUFFICES ASSUME Init PROVE EarnedInv
    OBVIOUS
  <2>1. \A a \in Actors : copy[a].count = 0
    BY DEF Init, NoRow
  <2>2. CountInv
    BY <2>1, TotalType DEF Init, NoRow, CountInv
  <2>3. FoundedInv
    BY DEF Init, FoundedInv, Actors
  <2> QED BY TypeInit, <2>2, <2>3 DEF EarnedInv
<1>2. EarnedInv /\ [Next]_vars => EarnedInv'
  BY TypeStep, CountStep, FoundedStep DEF EarnedInv
<1>3. EarnedInv => SuggestionsAreEarned
  <2> SUFFICES ASSUME EarnedInv, Suggested # {} PROVE Cardinality(Saved) >= Threshold
    BY DEF SuggestionsAreEarned
  <2>1. Threshold <= Total
    BY DEF EarnedInv, FoundedInv, Suggested
  <2>2. Past \in SUBSET Saved /\ Saved \in SUBSET Saves
    BY DEF Past, Saved
  <2>3. IsFiniteSet(Saved)
    BY <2>2, ActorsAssumption, FS_Subset
  <2>4. Total <= Cardinality(Saved) /\ Cardinality(Saved) \in Nat
    BY <2>2, <2>3, FS_Subset, FS_CardinalityType DEF Total
  <2> QED BY <2>1, <2>4, TotalType, CountsAssumption
<1>4. QED
  BY <1>1, <1>2, <1>3, PTL DEF Spec

-----------------------------------------------------------------------------
(* AcceptedIsComplete.                                                     *)

LEMMA CompleteStep == CompleteInv /\ [Next]_vars => CompleteInv'
<1> SUFFICES ASSUME CompleteInv, [Next]_vars PROVE CompleteInv'
  OBVIOUS
<1> USE ActorsAssumption DEF CompleteInv, Goto, Actors
<1>1. TypeOK'
  BY TypeStep
<1>2. \A r \in Requests : pc'[r] = "settle" => kind'[r] = "reject"
  <2>1. ASSUME NEW t \in Saves,
               Create(t) \/ (\E u \in Saves : Edit(t, u)) \/ Track(t)
        PROVE  kind' = kind /\ \A r \in Requests : pc'[r] = pc[r]
    BY <2>1 DEF TypeOK, Create, Edit, Begin, Track, GetFrequency, Upsert, Update,
                Suggest, MarkEventsAsRecurring, MarkShown
  <2>2. ASSUME NEW q \in Requests, Send(q) \/ Handle(q)
        PROVE  /\ kind' = kind
               /\ \A r \in Requests : pc'[r] # pc[r] /\ pc'[r] = "settle" => kind[r] = "reject"
    BY <2>2 DEF TypeOK, Send, Begin, Handle, ReadSuggestion, CreateOccurrence,
                UpdateSuggestionStatus, RereadFrequency, MarkAccepted
  <2>3. CASE Crash
    BY <2>3 DEF Crash, TypeOK
  <2>4. CASE UNCHANGED vars
    BY <2>4 DEF vars
  <2> QED BY <2>1, <2>2, <2>3, <2>4 DEF Next
<1>3. target' = target /\ \A r \in Requests : made[r] = Weeks => made'[r] = Weeks
  BY CountsAssumption
  DEF TypeOK, Next, vars, Create, Edit, Track, GetFrequency, Upsert, Update, Suggest,
      MarkEventsAsRecurring, MarkShown, Send, Handle, ReadSuggestion, CreateOccurrence,
      UpdateSuggestionStatus, RereadFrequency, MarkAccepted, Crash
<1>4. ASSUME NEW t \in Saves, suggestion'[t] = "accepted", suggestion[t] # "accepted"
      PROVE  \E r \in Requests : target[r] = t /\ made[r] = Weeks
  <2>1. PICK r \in Requests : UpdateSuggestionStatus(r)
    BY <1>4 DEF TypeOK, Next, vars, Create, Edit, Track, GetFrequency, Upsert, Update,
       Suggest, MarkEventsAsRecurring, MarkShown, Send, Handle, ReadSuggestion,
       CreateOccurrence, RereadFrequency, MarkAccepted, Crash
  <2>2. target[r] = t /\ Settled(r) = "accepted"
    BY <1>4, <2>1 DEF UpdateSuggestionStatus, TypeOK
  <2>3. made[r] = Weeks
    BY <2>1, <2>2 DEF UpdateSuggestionStatus, Settled
  <2> QED BY <2>2, <2>3
<1>5. AcceptedIsComplete'
  BY <1>3, <1>4 DEF AcceptedIsComplete
<1> QED BY <1>1, <1>2, <1>5

\* A suggestion that is recorded as accepted has all its occurrences.
THEOREM AcceptedHasAll == Spec => []AcceptedIsComplete
<1>1. Init => CompleteInv
  BY TypeInit DEF Init, CompleteInv, AcceptedIsComplete, Actors
<1>2. CompleteInv => AcceptedIsComplete
  BY DEF CompleteInv
<1>3. QED
  BY <1>1, <1>2, CompleteStep, PTL DEF Spec

-----------------------------------------------------------------------------
(* AnsweredOnce.                                                           *)

\* While nothing fails and nobody overlaps, a suggestion is open as long as a
\* request works on it, and its occurrences are those of the request that
\* accepted it, or is about to.
AnsweredInv ==
    /\ \A a, b \in Actors : Busy(a) /\ Busy(b) => a = b
    /\ \A t \in Saves :
          pc[t] \in {"idle", "get", "upsert", "update", "suggest"}
              => suggestion[t] = "none"
    /\ \A r \in Requests :
          /\ pc[r] \in {"create", "settle"} => suggestion[target[r]] = "pending"
          /\ pc[r] \in {"idle", "read", "settle"} => made[r] = 0
          /\ made[r] > 0 => pc[r] = "create" \/ suggestion[target[r]] = "accepted"
          /\ pc[r] = "create" => kind[r] = "accept"
          /\ pc[r] \in {"reread", "accepted"} => suggestion[target[r]] = "accepted"
    /\ \A r, q \in Requests :
          made[r] > 0 /\ made[q] > 0 /\ target[r] = target[q] => r = q

\* Whoever moves is the only one busy, if nothing overlaps and nothing fails.
LEMMA AloneStep ==
    ASSUME TypeOK, AnsweredInv, NEW a \in Actors, NEW stage \in Stages, Goto(a, stage),
           Busy(a) \/ Quiet
    PROVE  /\ \A b \in Actors : b # a => pc'[b] = pc[b] /\ ~Busy(b)
           /\ pc'[a] = stage
           /\ \A b, c \in Actors : Busy(b)' /\ Busy(c)' => b = c
<1>1. pc'[a] = stage /\ \A b \in Actors : b # a => pc'[b] = pc[b]
  BY DEF TypeOK, Goto
<1>2. \A b \in Actors : b # a => ~Busy(b)
  BY DEF AnsweredInv, Quiet
<1> QED BY <1>1, <1>2 DEF Busy

\* A step without fault or overlap keeps it.
LEMMA AnsweredStep ==
    TypeOK /\ CompleteInv /\ (disturbed \/ AnsweredInv) /\ [Next]_vars
        => disturbed' \/ AnsweredInv'
<1> SUFFICES ASSUME TypeOK, CompleteInv, disturbed \/ AnsweredInv, [Next]_vars, ~disturbed'
             PROVE  AnsweredInv'
  OBVIOUS
<1> USE ActorsAssumption
<1>1. ~disturbed /\ AnsweredInv
  BY DEF TypeOK, Next, vars, Create, Edit, Track, Begin, NoFault, Fault, GetFrequency,
      Upsert, Update, Suggest, MarkEventsAsRecurring, MarkShown, Send, Handle,
      ReadSuggestion, CreateOccurrence, UpdateSuggestionStatus, RereadFrequency,
      MarkAccepted, Crash
<1>2. \A t \in Saves : t \in Actors /\ t \notin Requests
  BY DEF Actors
<1>3. \A r \in Requests : r \in Actors /\ target[r] \in Saves /\ made[r] \in Nat
  BY CountsAssumption DEF Actors, TypeOK
<1>4. TypeOK'
  BY TypeStep
<1>5. ASSUME NEW t \in Saves, Create(t) \/ (\E u \in Saves : Edit(t, u)) \/ Track(t)
      PROVE  AnsweredInv'
  <2>1. PICK stage \in Stages :
           /\ Goto(t, stage)
           /\ stage \in {"get", "upsert", "update", "suggest"}
                 => pc[t] \in {"idle", "get", "upsert", "update"} /\ suggestion' = suggestion
           /\ stage # "idle"
           /\ UNCHANGED <<target, kind, made>>
           /\ \/ suggestion' = suggestion
              \/ pc[t] = "suggest" /\ suggestion' = [suggestion EXCEPT ![t] = "pending"]
    BY <1>1, <1>5 DEF Create, Edit, Begin, Track, GetFrequency, Upsert, Update, Suggest,
       MarkEventsAsRecurring, MarkShown, NoFault, Fault, Stages
  <2>2. Busy(t) \/ Quiet
    BY <1>1, <1>5 DEF Create, Edit, Begin, Track, GetFrequency, Upsert, Update, Suggest,
       MarkEventsAsRecurring, MarkShown, Busy, TypeOK
  <2>3. /\ \A b \in Actors : b # t => pc'[b] = pc[b] /\ ~Busy(b)
        /\ pc'[t] = stage
        /\ \A b, c \in Actors : Busy(b)' /\ Busy(c)' => b = c
    BY <1>1, <1>2, <2>1, <2>2, AloneStep
  <2>4. \A r \in Requests : pc'[r] = pc[r] /\ pc[r] \in {"idle", "done"}
    BY <1>2, <1>3, <2>3 DEF Busy
  <2>5. \A r \in Requests : made[r] > 0 =>
           suggestion[target[r]] = "accepted" /\ suggestion'[target[r]] = "accepted"
    BY <1>1, <1>3, <2>1, <2>4 DEF AnsweredInv, TypeOK
  <2>6. \A u \in Saves : pc'[u] \in {"idle", "get", "upsert", "update", "suggest"}
                            => suggestion'[u] = "none"
    BY <1>1, <1>2, <2>1, <2>3 DEF AnsweredInv, TypeOK
  <2> QED BY <1>1, <2>1, <2>3, <2>4, <2>5, <2>6 DEF AnsweredInv
<1>6. ASSUME NEW r \in Requests, Send(r) \/ Handle(r) PROVE AnsweredInv'
  <2>0. Busy(r) \/ Quiet
    BY <1>1, <1>6 DEF Send, Begin, Handle, ReadSuggestion, CreateOccurrence,
       UpdateSuggestionStatus, RereadFrequency, MarkAccepted, Busy, TypeOK
  <2>1. /\ target' = target /\ kind' = kind
        /\ \A t \in Saves : pc'[t] = pc[t]
    BY <1>2, <1>6 DEF Send, Begin, Handle, ReadSuggestion, CreateOccurrence,
       UpdateSuggestionStatus, RereadFrequency, MarkAccepted, Goto, TypeOK
  <2>2. CASE \/ Send(r) \/ ReadSuggestion(r) \/ RereadFrequency(r) \/ MarkAccepted(r)
    <3>1. PICK stage \in Stages :
             /\ Goto(r, stage) /\ UNCHANGED <<suggestion, made>>
             /\ stage # "idle"
             /\ stage \in {"create", "settle"} => /\ suggestion[target[r]] = "pending"
                                                  /\ pc[r] = "read"
             /\ stage = "create" => kind[r] = "accept"
             /\ stage = "read" => pc[r] = "idle"
             /\ stage # "reread" /\ (stage = "accepted" => pc[r] = "reread")
             /\ pc[r] # "create"
      BY <1>1, <2>2 DEF Send, Begin, ReadSuggestion, RereadFrequency, MarkAccepted,
         NoFault, Fault, Stages
    <3>2. /\ \A b \in Actors : b # r => pc'[b] = pc[b] /\ ~Busy(b)
          /\ pc'[r] = stage
          /\ \A b, c \in Actors : Busy(b)' /\ Busy(c)' => b = c
      BY <1>1, <1>3, <2>0, <3>1, AloneStep
    <3> QED BY <1>1, <1>3, <2>1, <3>1, <3>2 DEF AnsweredInv
  <2>3. CASE CreateOccurrence(r)
    <3>1. /\ pc[r] = "create" /\ pc' = pc /\ suggestion' = suggestion
          /\ made' = [made EXCEPT ![r] = made[r] + 1]
      BY <1>1, <2>3 DEF CreateOccurrence, Fault
    <3>2. \A q \in Requests : q # r => ~Busy(q) /\ made'[q] = made[q]
      BY <1>1, <1>3, <3>1 DEF AnsweredInv, Busy, TypeOK
    <3>3. suggestion[target[r]] = "pending"
      BY <1>1, <3>1 DEF AnsweredInv
    <3>4. \A q \in Requests : q # r /\ made[q] > 0 => suggestion[target[q]] = "accepted"
      BY <1>1, <3>2 DEF AnsweredInv, Busy
    <3>5. \A b \in Actors : Busy(b)' = Busy(b)
      BY <3>1 DEF Busy
    <3> QED BY <1>1, <1>3, <2>1, <3>1, <3>2, <3>3, <3>4, <3>5 DEF AnsweredInv
  <2>4. CASE UpdateSuggestionStatus(r)
    <3>1. PICK stage \in {"reread", "done"} :
             /\ Goto(r, stage) /\ made' = made
             /\ pc[r] \in {"create", "settle"}
             /\ stage = "reread" => kind[r] = "accept"
             /\ suggestion' = [suggestion EXCEPT ![target[r]] = Settled(r)]
      BY <1>1, <2>4 DEF UpdateSuggestionStatus, Fault
    <3>2. /\ \A b \in Actors : b # r => pc'[b] = pc[b] /\ ~Busy(b)
          /\ pc'[r] = stage
          /\ \A b, c \in Actors : Busy(b)' /\ Busy(c)' => b = c
      BY <1>1, <1>3, <2>0, <3>1, AloneStep DEF Stages
    <3>3. suggestion[target[r]] = "pending"
      BY <1>1, <3>1 DEF AnsweredInv
    <3>4. \A q \in Requests : q # r => pc'[q] \in {"idle", "done"} /\ pc'[q] = pc[q]
      BY <1>3, <3>2 DEF Busy
    <3>5. \A q \in Requests : made[q] > 0 => suggestion'[target[q]] = "accepted"
      <4>1. ASSUME NEW q \in Requests, q # r, made[q] > 0
            PROVE  suggestion'[target[q]] = "accepted"
        <5>1. suggestion[target[q]] = "accepted"
          BY <1>1, <3>4, <4>1 DEF AnsweredInv
        <5> QED BY <1>3, <3>1, <3>3, <5>1 DEF TypeOK
      <4>2. made[r] > 0 => pc[r] = "create" /\ kind[r] = "accept"
        BY <1>1, <1>3, <3>1 DEF AnsweredInv
      <4>3. made[r] > 0 => suggestion'[target[r]] = "accepted"
        BY <1>3, <3>1, <4>2 DEF Settled, TypeOK
      <4> QED BY <4>1, <4>3
    <3>6. \A t \in Saves : suggestion[t] = "none" => suggestion'[t] = "none"
      BY <1>3, <3>1, <3>3 DEF TypeOK
    <3>7. stage = "reread" => suggestion'[target[r]] = "accepted"
      BY <1>3, <3>1 DEF Settled, TypeOK
    <3> QED BY <1>1, <1>3, <2>1, <3>1, <3>2, <3>4, <3>5, <3>6, <3>7 DEF AnsweredInv
  <2> QED BY <1>6, <2>2, <2>3, <2>4 DEF Handle
<1>7. CASE Crash
  BY <1>7 DEF Crash, Fault
<1>8. CASE UNCHANGED vars
  BY <1>1, <1>8 DEF vars, AnsweredInv, Busy
<1> QED BY <1>5, <1>6, <1>7, <1>8 DEF Next

\* For any number of saves and requests: as long as requests do not overlap and
\* do not fail, an accepted suggestion is booked once, and no other ever.
THEOREM BookedOnce == Spec => []AnsweredOnce
<1>1. Init => CompleteInv /\ (disturbed \/ AnsweredInv)
  <2> SUFFICES ASSUME Init PROVE CompleteInv /\ AnsweredInv
    OBVIOUS
  <2>1. CompleteInv
    BY TypeInit DEF Init, CompleteInv, AcceptedIsComplete, Actors
  <2>2. \A a \in Actors : pc[a] = "idle"
    BY DEF Init
  <2>3. /\ \A t \in Saves : suggestion[t] = "none"
        /\ \A r \in Requests : made[r] = 0 /\ pc[r] = "idle"
    BY <2>2 DEF Init, Actors
  <2> QED BY <2>1, <2>2, <2>3 DEF AnsweredInv, Busy
<1>2. CompleteInv /\ (disturbed \/ AnsweredInv) /\ [Next]_vars
        => CompleteInv' /\ (disturbed \/ AnsweredInv)'
  BY CompleteStep, AnsweredStep DEF CompleteInv
<1>3. CompleteInv /\ (disturbed \/ AnsweredInv) => AnsweredOnce
  <2> SUFFICES ASSUME CompleteInv, AnsweredInv, Quiet, NEW t \in Saves
               PROVE  Cardinality(Makers(t)) = IF suggestion[t] = "accepted" THEN 1 ELSE 0
    BY DEF AnsweredOnce
  <2>1. \A r \in Requests : made[r] \in Nat /\ pc[r] \in {"idle", "done"}
    BY CountsAssumption DEF CompleteInv, TypeOK, Quiet, Busy, Actors
  <2>2. CASE suggestion[t] = "accepted"
    <3>1. PICK r \in Requests : target[r] = t /\ made[r] = Weeks
      BY <2>2 DEF CompleteInv, AcceptedIsComplete
    <3>2. Makers(t) = {r}
      BY <3>1, CountsAssumption DEF Makers, AnsweredInv
    <3> QED BY <2>2, <3>2, FS_Singleton
  <2>3. CASE suggestion[t] # "accepted"
    <3>1. Makers(t) = {}
      BY <2>1, <2>3 DEF Makers, AnsweredInv
    <3> QED BY <2>3, <3>1, FS_EmptySet
  <2> QED BY <2>2, <2>3
<1> QED BY <1>1, <1>2, <1>3, PTL DEF Spec

-----------------------------------------------------------------------------
(* OncePerCycle.                                                           *)

NoneAccepted == \A t \in Saves : suggestion[t] # "accepted"
Told == Cardinality(Suggested) * Threshold
Between == \A t \in Saves : pc[t] \notin {"suggest", "mark", "shown"}

\* Where the cycle is, while nothing fails, overlaps or is accepted: below the
\* threshold, at it with a tracker about to suggest or about to mark the
\* suggestion as shown, or at it and shown.  What is not told yet is counted.
CycleInv ==
    /\ freq.accepted = FALSE
    /\ ~freq.exists => freq.count = 0 /\ freq.shown = FALSE
    /\ \A t \in Saves : /\ pc[t] = "upsert" => ~freq.exists
                        /\ pc[t] = "update" => freq.exists /\ copy[t] = freq
    /\ \/ Between /\ ~freq.shown /\ freq.count < Threshold /\ Total = Told + freq.count
       \/ Between /\ freq.shown /\ freq.count = Threshold /\ Total = Told
       \/ /\ ~freq.shown /\ freq.count = Threshold
          /\ \E t \in Saves :
                /\ copy[t] = freq
                /\ \/ pc[t] = "suggest" /\ Total = Told + Threshold
                   \/ pc[t] \in {"mark", "shown"} /\ Total = Told

\* The saves that suggestions tell of are a number.
LEMMA ToldType == Suggested \in SUBSET Saves /\ IsFiniteSet(Suggested) /\ Told \in Nat
<1>1. Suggested \in SUBSET Saves /\ IsFiniteSet(Suggested)
  BY ActorsAssumption, FS_Subset DEF Suggested
<1>2. Cardinality(Suggested) \in Nat
  BY <1>1, FS_CardinalityType
<1> QED BY <1>1, <1>2, CountsAssumption DEF Told

\* A new suggestion tells of as many saves as the threshold says.
LEMMA ToldGrows ==
    ASSUME NEW t \in Saves, t \notin Suggested, Suggested' = Suggested \cup {t}
    PROVE  Told' = Told + Threshold
<1>1. Cardinality(Suggested') = Cardinality(Suggested) + 1
  BY ToldType, FS_AddElement
<1>2. Cardinality(Suggested) \in Nat
  BY ToldType, FS_CardinalityType
<1>3. \A k \in Nat : (k + 1) * Threshold = k * Threshold + Threshold
  BY CountsAssumption
<1> QED BY <1>1, <1>2, <1>3 DEF Told

\* An undisturbed step accepts a suggestion for good.
LEMMA AcceptedStays ==
    ASSUME TypeOK, AnsweredInv, ~disturbed', [Next]_vars, NoneAccepted'
    PROVE  NoneAccepted
<1> SUFFICES ASSUME NEW t \in Saves, suggestion[t] = "accepted", suggestion'[t] # "accepted"
             PROVE  FALSE
  BY DEF NoneAccepted
<1>1. PICK u \in Saves, s \in {"pending", "accepted", "rejected"} :
         /\ suggestion' = [suggestion EXCEPT ![u] = s]
         /\ \/ pc[u] = "suggest"
            \/ \E r \in Requests : target[r] = u /\ pc[r] \in {"settle", "create"}
  BY DEF TypeOK, Next, vars, Create, Edit, Track, GetFrequency, Upsert,
      Update, Suggest, MarkEventsAsRecurring, MarkShown, Send, Handle,
      ReadSuggestion, CreateOccurrence, UpdateSuggestionStatus, RereadFrequency,
      MarkAccepted, Crash, Settled
<1>2. suggestion[u] # "accepted"
  BY <1>1 DEF AnsweredInv
<1> QED BY <1>1, <1>2 DEF TypeOK

\* What of the cycle a step can change when it counts nothing and tells nothing.
LEMMA CycleFrame ==
    ASSUME CycleInv, UNCHANGED freq, Past' = Past, Suggested' = Suggested,
           \A t \in Saves :
              /\ \/ pc'[t] = pc[t] /\ copy'[t] = copy[t]
                 \/ pc[t] = "mark" /\ pc'[t] = "shown" /\ copy'[t] = copy[t]
                 \/ /\ pc[t] \notin {"suggest", "mark", "shown"}
                    /\ pc'[t] \notin {"suggest", "mark", "shown"}
              /\ pc'[t] = "upsert" => ~freq.exists
              /\ pc'[t] = "update" => freq.exists /\ copy'[t] = freq
    PROVE  CycleInv'
<1>1. Total' = Total /\ Told' = Told
  BY DEF Total, Told
<1>2. CASE Between
  <2>1. Between'
    BY <1>2 DEF Between
  <2> QED BY <1>1, <1>2, <2>1 DEF CycleInv, Between
<1>3. CASE ~Between
  BY <1>1, <1>3 DEF CycleInv
<1> QED BY <1>2, <1>3

\* Each step moves the cycle on: one step of the proof per kind of action.
LEMMA CycleStep ==
    ASSUME TypeOK, CompleteInv, AnsweredInv, CycleInv, NoneAccepted, NoneAccepted',
           ~disturbed, ~disturbed', [Next]_vars
    PROVE  CycleInv'
<1> USE ActorsAssumption
<1>1. freq \in Row /\ freq.count \in Nat /\ Threshold \in Nat /\ Threshold > 1
  BY CountsAssumption DEF TypeOK, Row
<1>2. Total \in Nat /\ Told \in Nat
  BY TotalType, ToldType
<1>3. \A t \in Saves : t \in Actors /\ t \notin Requests
  BY DEF Actors
<1>4. \A t, u \in Saves : Busy(t) /\ Busy(u) => t = u
  BY <1>3 DEF AnsweredInv
<1>5. ASSUME NEW t \in Saves, t \notin Past, Past' = Past \cup {t}
      PROVE  Total' = Total + 1
  BY <1>5, TotalType, FS_AddElement DEF Total
<1>6. ASSUME NEW t \in Saves, Create(t) \/ (\E u \in Saves : Edit(t, u)) PROVE CycleInv'
  <2>1. /\ pc[t] = "idle" /\ pc' = [pc EXCEPT ![t] = "get"]
        /\ UNCHANGED <<freq, suggestion, copy>>
    BY <1>6 DEF Create, Edit, Begin, Goto
  <2>2. pc'[t] = "get" /\ \A u \in Saves \ {t} : pc'[u] = pc[u]
    BY <1>3, <2>1 DEF TypeOK
  <2>3. Past' = Past /\ Suggested' = Suggested
    BY <2>1, <2>2 DEF Past, Suggested
  <2>4. \A u \in Saves : /\ pc[u] = "upsert" => ~freq.exists
                         /\ pc[u] = "update" => freq.exists /\ copy[u] = freq
    BY DEF CycleInv
  <2> QED BY <2>1, <2>2, <2>3, <2>4, CycleFrame
<1>7. ASSUME NEW t \in Saves, GetFrequency(t) PROVE CycleInv'
  <2>1. /\ pc[t] = "get" /\ pc' = [pc EXCEPT ![t] = IF freq.exists THEN "update" ELSE "upsert"]
        /\ copy' = [copy EXCEPT ![t] = freq] /\ UNCHANGED <<freq, suggestion>>
    BY <1>7 DEF GetFrequency, Goto, Fault
  <2>2. /\ pc'[t] = IF freq.exists THEN "update" ELSE "upsert"
        /\ copy'[t] = freq
        /\ \A u \in Saves \ {t} : pc'[u] = pc[u] /\ copy'[u] = copy[u]
    BY <1>3, <2>1 DEF TypeOK
  <2>3. Past' = Past /\ Suggested' = Suggested
    BY <2>1, <2>2 DEF Past, Suggested
  <2>4. \A u \in Saves : /\ pc[u] = "upsert" => ~freq.exists
                         /\ pc[u] = "update" => freq.exists /\ copy[u] = freq
    BY DEF CycleInv
  <2> QED BY <2>1, <2>2, <2>3, <2>4, CycleFrame
<1>8. ASSUME NEW t \in Saves, Upsert(t) PROVE CycleInv'
  <2>1. pc[t] = "upsert" /\ pc' = [pc EXCEPT ![t] = "done"]
        /\ freq' = Upserted(freq) /\ UNCHANGED <<suggestion, copy>>
    BY <1>8 DEF Upsert, Goto, Fault
  <2>2. ~freq.exists /\ freq.count = 0 /\ freq.shown = FALSE
    BY <2>1 DEF CycleInv
  <2>3. freq' = NewRow
    BY <2>1, <2>2 DEF Upserted
  <2>4. pc'[t] = "done" /\ \A u \in Saves \ {t} : pc'[u] = pc[u] /\ ~Busy(u)
    BY <1>3, <1>4, <2>1 DEF TypeOK, Busy
  <2>5. Total = Told
    BY <1>1, <1>2, <2>2 DEF CycleInv
  <2>6. Past' = Past \cup {t} /\ t \notin Past /\ Suggested' = Suggested
    BY <2>1, <2>4 DEF Past, Suggested
  <2>7. Total' = Told' + 1
    BY <1>5, <2>5, <2>6 DEF Told
  <2>8. Between' /\ \A u \in Saves : pc'[u] \notin {"upsert", "update"}
    BY <2>4 DEF Between, Busy
  <2> QED BY <1>1, <2>3, <2>7, <2>8 DEF CycleInv, NewRow
<1>9. ASSUME NEW t \in Saves, Update(t) PROVE CycleInv'
  <2> DEFINE new == Counted(copy[t])
  <2>1. /\ pc[t] = "update" /\ freq' = new /\ copy' = [copy EXCEPT ![t] = new]
        /\ pc' = [pc EXCEPT ![t] = IF Due(new) THEN "suggest" ELSE "done"]
        /\ UNCHANGED suggestion
    BY <1>9 DEF Update, Goto, Fault
  <2>2. copy[t] = freq
    BY <2>1 DEF CycleInv
  <2>3. /\ pc'[t] = IF Due(freq') THEN "suggest" ELSE "done"
        /\ copy'[t] = freq'
        /\ \A u \in Saves \ {t} : pc'[u] = pc[u] /\ ~Busy(u)
    BY <1>3, <1>4, <2>1 DEF TypeOK, Busy
  <2>4. Past' = Past \cup {t} /\ t \notin Past /\ Suggested' = Suggested
    BY <2>1, <2>3 DEF Past, Suggested
  <2>5. Total' = Total + 1 /\ Told' = Told
    BY <1>5, <2>4 DEF Told
  <2>6. Between
    BY <2>1, <2>3 DEF Between, Busy
  <2>7. \A u \in Saves \ {t} : pc'[u] \in {"idle", "done"}
    BY <2>3 DEF Busy
  <2>8. CASE freq.shown
    <3>1. freq' = NewRow /\ Total = Told
      BY <2>1, <2>2, <2>6, <2>8 DEF Counted, CycleInv, Between
    <3>2. pc'[t] = "done"
      BY <1>1, <2>3, <3>1 DEF Due, NewRow
    <3>3. Between'
      BY <2>7, <3>2 DEF Between
    <3> QED BY <1>1, <1>2, <2>5, <2>7, <3>1, <3>2, <3>3 DEF CycleInv, NewRow
  <2>9. CASE ~freq.shown
    <3>1. /\ freq' = [freq EXCEPT !.count = freq.count + 1]
      BY <2>1, <2>2, <2>9 DEF Counted
    <3>2. /\ freq'.count = freq.count + 1 /\ freq'.shown = FALSE
          /\ freq'.accepted = FALSE /\ freq'.exists = freq.exists
      BY <1>1, <2>9, <3>1 DEF Row, CycleInv
    <3>3. freq.count < Threshold /\ Total = Told + freq.count
      BY <2>6, <2>9 DEF CycleInv, Between
    <3>4. CASE Due(freq')
      <4>1. pc'[t] = "suggest" /\ freq'.count = Threshold
        BY <1>1, <2>3, <3>2, <3>3, <3>4 DEF Due
      <4>2. Total' = Told' + Threshold
        BY <1>1, <1>2, <2>5, <3>2, <3>3, <4>1
      <4>3. freq.exists
        BY <1>1, <3>2, <4>1 DEF CycleInv
      <4> QED BY <2>3, <2>7, <3>2, <4>1, <4>2, <4>3 DEF CycleInv
    <3>5. CASE ~Due(freq')
      <4>1. pc'[t] = "done" /\ freq'.count < Threshold
        BY <1>1, <2>3, <3>2, <3>3, <3>5 DEF Due
      <4>2. Between'
        BY <2>7, <4>1 DEF Between
      <4>3. Total' = Told' + freq'.count
        BY <1>1, <1>2, <2>5, <3>2, <3>3
      <4>4. freq.exists
        BY <2>1, <2>2 DEF CycleInv
      <4> QED BY <2>7, <3>2, <4>1, <4>2, <4>3, <4>4 DEF CycleInv
    <3> QED BY <3>4, <3>5
  <2> QED BY <2>8, <2>9
<1>10. ASSUME NEW t \in Saves, Suggest(t) PROVE CycleInv'
  <2>1. /\ pc[t] = "suggest" /\ pc' = [pc EXCEPT ![t] = "mark"]
        /\ suggestion' = [suggestion EXCEPT ![t] = "pending"] /\ UNCHANGED <<freq, copy>>
    BY <1>10 DEF Suggest, Goto, Fault
  <2>2. pc'[t] = "mark" /\ \A u \in Saves \ {t} : pc'[u] = pc[u] /\ pc[u] \in {"idle", "done"}
    BY <1>3, <1>4, <2>1 DEF TypeOK, Busy
  <2>3. suggestion[t] = "none"
    BY <2>1 DEF AnsweredInv
  <2>4. t \notin Suggested /\ Suggested' = Suggested \cup {t} /\ Past' = Past
    BY <2>1, <2>2, <2>3 DEF Suggested, Past, TypeOK
  <2>5. Told' = Told + Threshold /\ Total' = Total
    BY <2>4, ToldGrows DEF Total
  <2>6. /\ ~freq.shown /\ freq.count = Threshold /\ copy[t] = freq
        /\ Total = Told + Threshold
    BY <2>1, <2>2 DEF CycleInv, Between
  <2> QED BY <2>1, <2>2, <2>5, <2>6 DEF CycleInv
<1>11. ASSUME NEW t \in Saves, MarkEventsAsRecurring(t) PROVE CycleInv'
  <2>1. /\ pc[t] = "mark" /\ pc' = [pc EXCEPT ![t] = "shown"]
        /\ UNCHANGED <<freq, copy, suggestion>>
    BY <1>11 DEF MarkEventsAsRecurring, Goto
  <2>2. pc'[t] = "shown" /\ \A u \in Saves \ {t} : pc'[u] = pc[u]
    BY <1>3, <2>1 DEF TypeOK
  <2>3. Past' = Past /\ Suggested' = Suggested
    BY <2>1, <2>2 DEF Past, Suggested
  <2>4. \A u \in Saves : /\ pc[u] = "upsert" => ~freq.exists
                         /\ pc[u] = "update" => freq.exists /\ copy[u] = freq
    BY DEF CycleInv
  <2> QED BY <2>1, <2>2, <2>3, <2>4, CycleFrame
<1>12. ASSUME NEW t \in Saves, MarkShown(t) PROVE CycleInv'
  <2>1. /\ pc[t] = "shown" /\ pc' = [pc EXCEPT ![t] = "done"]
        /\ freq' = [copy[t] EXCEPT !.shown = TRUE] /\ UNCHANGED <<copy, suggestion>>
    BY <1>12 DEF MarkShown, Goto, Fault
  <2>2. pc'[t] = "done" /\ \A u \in Saves \ {t} : pc'[u] = pc[u] /\ pc[u] \in {"idle", "done"}
    BY <1>3, <1>4, <2>1 DEF TypeOK, Busy
  <2>3. freq.count = Threshold /\ copy[t] = freq /\ Total = Told
    BY <2>1, <2>2 DEF CycleInv, Between
  <2>4. freq'.count = Threshold /\ freq'.shown = TRUE
        /\ freq'.accepted = FALSE /\ freq'.exists = freq.exists
    BY <1>1, <2>1, <2>3 DEF Row, CycleInv
  <2>5. freq.exists
    BY <1>1, <2>3 DEF CycleInv
  <2>6. Past' = Past /\ Suggested' = Suggested
    BY <2>1, <2>2 DEF Past, Suggested
  <2>7. Total' = Told' /\ Between'
    BY <2>2, <2>3, <2>6 DEF Total, Told, Between
  <2> QED BY <2>2, <2>4, <2>5, <2>7 DEF CycleInv
<1>13. ASSUME NEW r \in Requests, Send(r) \/ Handle(r) PROVE CycleInv'
  <2>1. ~RereadFrequency(r) /\ ~MarkAccepted(r)
    <3>1. pc[r] \notin {"reread", "accepted"}
      BY DEF NoneAccepted, AnsweredInv, TypeOK
    <3> QED BY <3>1 DEF RereadFrequency, MarkAccepted
  <2>2. /\ UNCHANGED <<freq, copy>>
        /\ \A t \in Saves : pc'[t] = pc[t]
    BY <1>3, <1>13, <2>1 DEF Send, Begin, Handle, ReadSuggestion, CreateOccurrence,
       UpdateSuggestionStatus, Goto, TypeOK
  <2>3. \/ suggestion' = suggestion
        \/ /\ suggestion[target[r]] = "pending"
           /\ suggestion' = [suggestion EXCEPT ![target[r]] = Settled(r)]
    BY <1>13, <2>1 DEF Send, Handle, ReadSuggestion, CreateOccurrence,
       UpdateSuggestionStatus, Fault, AnsweredInv
  <2>4. Past' = Past /\ Suggested' = Suggested
    BY <2>2, <2>3 DEF Past, Suggested, Settled, TypeOK
  <2>5. \A u \in Saves : /\ pc[u] = "upsert" => ~freq.exists
                         /\ pc[u] = "update" => freq.exists /\ copy[u] = freq
    BY DEF CycleInv
  <2> QED BY <2>2, <2>4, <2>5, CycleFrame
<1>14. CASE Crash
  BY <1>14 DEF Crash, Fault
<1>15. CASE UNCHANGED vars
  <2>1. UNCHANGED <<freq, copy, pc, suggestion>>
    BY <1>15 DEF vars
  <2>2. Past' = Past /\ Suggested' = Suggested
    BY <2>1 DEF Past, Suggested
  <2>3. \A u \in Saves : /\ pc[u] = "upsert" => ~freq.exists
                         /\ pc[u] = "update" => freq.exists /\ copy[u] = freq
    BY DEF CycleInv
  <2> QED BY <2>1, <2>2, <2>3, CycleFrame
<1> QED
  BY <1>6, <1>7, <1>8, <1>9, <1>10, <1>11, <1>12, <1>13, <1>14, <1>15 DEF Next, Track

HabitsInv ==
    /\ CompleteInv
    /\ disturbed \/ AnsweredInv
    /\ disturbed \/ ~NoneAccepted \/ CycleInv

\* For any number of saves and any threshold: trackers that do not overlap and
\* do not fail suggest the habit once in every cycle, until one is accepted.
THEOREM SuggestedOncePerCycle == Spec => []OncePerCycle
<1>1. Init => HabitsInv
  <2> SUFFICES ASSUME Init PROVE HabitsInv
    OBVIOUS
  <2>1. CompleteInv
    BY TypeInit DEF Init, CompleteInv, AcceptedIsComplete, Actors
  <2>2. \A a \in Actors : pc[a] = "idle"
    BY DEF Init
  <2>3. /\ \A t \in Saves : suggestion[t] = "none" /\ pc[t] = "idle"
        /\ \A r \in Requests : made[r] = 0 /\ pc[r] = "idle"
    BY <2>2 DEF Init, Actors
  <2>4. AnsweredInv
    BY <2>2, <2>3 DEF AnsweredInv, Busy
  <2>5. Past = {} /\ Suggested = {}
    BY <2>3 DEF Past, Suggested
  <2>6. Total = 0 /\ Told = 0
    BY <2>5, FS_EmptySet, CountsAssumption DEF Total, Told
  <2>7. Between /\ freq = NoRow
    BY <2>3 DEF Between, Init
  <2>8. CycleInv
    BY <2>3, <2>6, <2>7, CountsAssumption DEF CycleInv, NoRow
  <2> QED BY <2>1, <2>4, <2>8 DEF HabitsInv
<1>2. HabitsInv /\ [Next]_vars => HabitsInv'
  <2> SUFFICES ASSUME HabitsInv, [Next]_vars PROVE HabitsInv'
    OBVIOUS
  <2>1. TypeOK /\ CompleteInv' /\ (disturbed' \/ AnsweredInv')
    BY CompleteStep, AnsweredStep DEF HabitsInv, CompleteInv
  <2>2. disturbed => disturbed'
    BY DEF Next, vars, Create, Edit, Track, Begin, NoFault, Fault, GetFrequency,
      Upsert, Update, Suggest, MarkEventsAsRecurring, MarkShown, Send, Handle,
      ReadSuggestion, CreateOccurrence, UpdateSuggestionStatus, RereadFrequency,
      MarkAccepted, Crash
  <2>3. disturbed' \/ ~NoneAccepted' \/ CycleInv'
    <3> SUFFICES ASSUME ~disturbed', NoneAccepted' PROVE CycleInv'
      OBVIOUS
    <3>1. ~disturbed /\ AnsweredInv
      BY <2>2 DEF HabitsInv
    <3>2. NoneAccepted
      BY <2>1, <3>1, AcceptedStays
    <3> QED BY <2>1, <3>1, <3>2, CycleStep DEF HabitsInv
  <2> QED BY <2>1, <2>3 DEF HabitsInv
<1>3. HabitsInv => OncePerCycle
  <2> SUFFICES ASSUME TypeOK, CycleInv, Quiet
               PROVE  /\ Cardinality(Suggested) * Threshold <= Cardinality(Saved)
                      /\ Cardinality(Saved) < (Cardinality(Suggested) + 1) * Threshold
    BY DEF HabitsInv, CompleteInv, OncePerCycle, NoneAccepted
  <2>1. \A t \in Saves : pc[t] \in {"idle", "done"}
    BY DEF Quiet, Busy, Actors
  <2>2. Saved = Past
    BY <2>1 DEF Saved, Past
  <2>3. /\ Threshold \in Nat /\ Threshold > 1 /\ freq.count \in Nat
        /\ Total \in Nat /\ Told \in Nat /\ Cardinality(Suggested) \in Nat
    BY CountsAssumption, TotalType, ToldType, FS_CardinalityType DEF TypeOK, Row
  <2>4. Told <= Total /\ Total < Told + Threshold
    BY <2>1, <2>3 DEF CycleInv
  <2>5. \A k \in Nat : (k + 1) * Threshold = k * Threshold + Threshold
    BY <2>3
  <2> QED BY <2>2, <2>3, <2>4, <2>5 DEF Told, Total
<1> QED BY <1>1, <1>2, <1>3, PTL DEF Spec
=============================================================================
