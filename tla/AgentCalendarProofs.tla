------------------------- MODULE AgentCalendarProofs -------------------------
(***************************************************************************)
(* What the agent does to a calendar and what it is told of it.            *)
(*                                                                         *)
(* ActionExecution: confirmed actions leave the calendar within the        *)
(* policy, and as they were confirmed, for any instants; the only          *)
(* exceptions are those that extractTimeFields makes by dropping a time    *)
(* beyond its horizon. A deleted event stays deleted.                      *)
(*                                                                         *)
(* AvailableSlots: the sweep of GetAvailableSlots is right for any number  *)
(* of events, any instants and any window: what it offers is free, and     *)
(* nothing is missed.                                                      *)
(***************************************************************************)
EXTENDS ActionExecution, AvailableSlots, TLAPS

\* The calendar was asked for the start of a slot without its end; an action that
\* was torn apart is to blame for the times of event e.
Halved(a) == sent[a].start # 0 /\ sent[a] # proposal[a].slot
Excused(e) == \E b \in Actions : Torn(b) /\ proposal[b].target = e

\* An action creates its own event.
OwnEvent ==
    \A a \in Actions :
        stage[a] # "new" /\ proposal[a].kind = "create" => proposal[a].target = a

\* What was accepted respects the policy, and so does what is about to be
\* written, unless the filter is to blame.
AcceptedInOrder ==
    \A a \in Actions :
        /\ stage[a] \in {"accepted", "writing"} /\ proposal[a].kind # "delete"
              => InOrder(proposal[a].slot)
        /\ \A e \in Events :
              stage[a] = "writing" /\ proposal[a].target = e
                => InOrder(draft[a]) \/ Halved(a) \/ Excused(e)

IInv == TypeOK /\ OwnEvent /\ AcceptedInOrder /\ CalendarRespectsPolicy

-----------------------------------------------------------------------------
(* Types.                                                                  *)

\* extractTimeFields yields a time that can be stored, or 0.
LEMMA ExtractedSlotType ==
    ASSUME TypeOK, NEW a \in Actions
    PROVE  ExtractedSlot(proposal[a]) \in Slots
  BY DEF TypeOK, ExtractedSlot, Extracted, Slots, Proposals

\* Every step of an action or of its environment keeps the types.
LEMMA TypeStep == TypeOK /\ [Next]_vars => TypeOK'
<1> SUFFICES ASSUME TypeOK, [Next]_vars PROVE TypeOK'
  OBVIOUS
<1> USE ClockAssumption DEF TypeOK
<1>1. CASE Tick
  BY <1>1 DEF Tick
<1>2. ASSUME NEW e \in Events, UserDeletes(e) PROVE TypeOK'
  BY <1>2 DEF UserDeletes, Rows
<1>3. ASSUME NEW a \in Actions, Propose(a) PROVE TypeOK'
  BY <1>3 DEF Propose, Goto, Stages
<1>4. ASSUME NEW a \in Actions, Validate(a) PROVE TypeOK'
  BY <1>4 DEF Validate, Goto, Stages
<1>5. ASSUME NEW a \in Actions, ExecuteCreate(a) PROVE TypeOK'
  <2>1. ExtractedSlot(proposal[a]) \in Slots
    BY ExtractedSlotType
  <2>2. row' \in [Events -> Rows]
    <3> DEFINE new == [state |-> "present", slot |-> ExtractedSlot(proposal[a])]
    <3>1. new \in Rows
      BY <2>1 DEF Rows
    <3>2. row' = [row EXCEPT ![a] = new] \/ row' = row
      BY <1>5 DEF ExecuteCreate
    <3> HIDE DEF new
    <3> QED BY <3>1, <3>2
  <2>3. stage' \in [Actions -> Stages]
    BY <1>5 DEF ExecuteCreate, Settle, Goto, Stages
  <2> QED BY <1>5, <2>1, <2>2, <2>3 DEF ExecuteCreate, Ask
<1>6. ASSUME NEW a \in Actions, ReadEvent(a) PROVE TypeOK'
  <2>1. proposal[a].target \in Events
    BY DEF Proposals
  <2>2. row[proposal[a].target].slot \in Slots
    BY <2>1 DEF Rows
  <2>3. ExtractedSlot(proposal[a]) \in Slots
    BY ExtractedSlotType
  <2>4. draft' \in [Actions -> Slots]
    BY <1>6, <2>2, <2>3 DEF ReadEvent, Replaced, Slots
  <2>5. stage' \in [Actions -> Stages]
    BY <1>6 DEF ReadEvent, Goto, Stages
  <2> QED BY <1>6, <2>3, <2>4, <2>5 DEF ReadEvent, Ask
<1>7. ASSUME NEW a \in Actions, WriteEvent(a) PROVE TypeOK'
  <2>1. row' \in [Events -> Rows]
    <3>1. proposal[a].target \in Events
      BY DEF Proposals
    <3>2. /\ row[proposal[a].target].state \in {"not yet", "present", "gone"}
          /\ draft[a] \in Slots
      BY <3>1 DEF Rows
    <3> QED BY <1>7, <3>1, <3>2 DEF WriteEvent, UpdateRow, Rows
  <2>2. stage' \in [Actions -> Stages]
    BY <1>7 DEF WriteEvent, Settle, Goto, Stages
  <2> QED BY <1>7, <2>1, <2>2 DEF WriteEvent
<1>8. ASSUME NEW a \in Actions, ExecuteDelete(a) PROVE TypeOK'
  <2>1. row' \in [Events -> Rows]
    BY <1>8 DEF ExecuteDelete, Rows
  <2>2. stage' \in [Actions -> Stages]
    BY <1>8 DEF ExecuteDelete, Settle, Goto, Stages
  <2> QED BY <1>8, <2>1, <2>2 DEF ExecuteDelete
<1>9. CASE UNCHANGED vars
  BY <1>9 DEF vars
<1> QED
  BY <1>1, <1>2, <1>3, <1>4, <1>5, <1>6, <1>7, <1>8, <1>9 DEF Next

-----------------------------------------------------------------------------
(* The policy.                                                             *)

\* A slot in order has both its times: a left out start makes it too long, a
\* left out end puts the end before the start.
LEMMA InOrderIsWhole ==
    ASSUME NEW s \in Slots, InOrder(s)
    PROVE  s.start \in Times /\ s.end \in Times /\ s.start # 0 /\ s.end # 0
<1>0. s.start \in Times \cup {0} /\ s.end \in Times \cup {0}
  BY DEF Slots
<1>1. s.start \in Nat /\ s.end \in Nat /\ s.start < s.end
  <2>1. s.start \in Nat /\ s.end \in Nat
    <3>1. \A t \in Times \cup {0} : t \in Nat
      BY TimesAssumption
    <3> QED BY <1>0, <3>1
  <2> QED BY <2>1 DEF InOrder
<1>2. s.end \in Times
  BY <1>0, <1>1
<1>3. s.end > MaxDuration /\ s.end - s.start <= MaxDuration
  BY <1>2, TimesAssumption DEF InOrder
<1>4. s.start # 0
  BY <1>1, <1>3, PolicyAssumption
<1> QED BY <1>0, <1>1, <1>2, <1>4

\* What the filter makes of a slot in order: it passes it, or drops its end, or both.
LEMMA FilterCases ==
    ASSUME TypeOK, NEW a \in Actions, InOrder(proposal[a].slot)
    PROVE  LET s == proposal[a].slot  x == ExtractedSlot(proposal[a])
           IN  /\ s.start # 0 /\ s.end # 0
               /\ \/ x = s
                  \/ x # s /\ x.start = s.start
                  \/ x = NoSlot
<1> DEFINE s == proposal[a].slot
<1>1. s \in Slots /\ s = [start |-> s.start, end |-> s.end]
  BY DEF TypeOK, Proposals, Slots
<1>2. s.start \in Times /\ s.end \in Times /\ s.start # 0 /\ s.end # 0
  BY <1>1, InOrderIsWhole
<1>3. s.start \in Nat /\ s.end \in Nat /\ s.start < s.end /\ now \in Nat /\ Horizon \in Nat
  BY <1>2, TimesAssumption, PolicyAssumption DEF TypeOK, InOrder
<1>4. CASE s.end <= now + Horizon
  BY <1>1, <1>2, <1>3, <1>4 DEF ExtractedSlot, Extracted
<1>5. CASE s.end > now + Horizon /\ s.start <= now + Horizon
  BY <1>1, <1>2, <1>3, <1>5 DEF ExtractedSlot, Extracted
<1>6. CASE s.start > now + Horizon
  BY <1>3, <1>6 DEF ExtractedSlot, Extracted, NoSlot
<1> QED BY <1>3, <1>4, <1>5, <1>6

\* What a step leaves of an action's past: what was executed stays executed,
\* with its proposal, its verdict and what the calendar was asked for.
LEMMA ExecutedStays ==
    ASSUME TypeOK, [Next]_vars, NEW a \in Actions
    PROVE  /\ Executed(a) => Executed(a)' /\ checkedAt'[a] = checkedAt[a]
           /\ stage[a] # "new" => proposal'[a] = proposal[a] /\ stage'[a] # "new"
           /\ stage[a] = "accepted" => checkedAt'[a] = checkedAt[a]
           /\ stage[a] = "writing" \/ Executed(a) => sent'[a] = sent[a]
           /\ stage'[a] = "confirmed" /\ stage[a] # "confirmed"
                 => ExecuteCreate(a) \/ WriteEvent(a) \/ ExecuteDelete(a)
<1> USE DEF TypeOK, Executed
<1>1. CASE Tick \/ \E e \in Events : UserDeletes(e)
  BY <1>1 DEF Tick, UserDeletes
<1>2. ASSUME NEW b \in Actions, Propose(b)
      PROVE  /\ proposal' = [proposal EXCEPT ![b] = proposal'[b]]
             /\ stage' = [stage EXCEPT ![b] = "proposed"]
             /\ stage[b] = "new" /\ checkedAt' = checkedAt /\ sent' = sent
  BY <1>2 DEF Propose, Goto
<1>3. ASSUME NEW b \in Actions, Validate(b)
      PROVE  /\ proposal' = proposal /\ stage[b] = "proposed" /\ sent' = sent
             /\ \A c \in Actions \ {b} : checkedAt'[c] = checkedAt[c] /\ stage'[c] = stage[c]
             /\ stage'[b] \in {"accepted", "refused"}
  BY <1>3 DEF Validate, Goto
<1>4. ASSUME NEW b \in Actions,
             ExecuteCreate(b) \/ ReadEvent(b) \/ WriteEvent(b) \/ ExecuteDelete(b)
      PROVE  /\ proposal' = proposal /\ checkedAt' = checkedAt
             /\ \A c \in Actions \ {b} : stage'[c] = stage[c] /\ sent'[c] = sent[c]
             /\ stage[b] \in {"accepted", "writing"}
             /\ stage[b] = "writing" => sent'[b] = sent[b]
             /\ stage'[b] \in {"writing", "confirmed", "failed"}
             /\ ReadEvent(b) => stage'[b] # "confirmed"
  BY <1>4 DEF ExecuteCreate, ReadEvent, WriteEvent, ExecuteDelete, Settle, Goto, Ask
<1>5. CASE UNCHANGED vars
  BY <1>5 DEF vars
<1>6. CASE \E b \in Actions : Propose(b)
  BY <1>2, <1>6
<1>7. CASE \E b \in Actions : Validate(b)
  BY <1>3, <1>7
<1>8. ASSUME NEW b \in Actions,
             ExecuteCreate(b) \/ ReadEvent(b) \/ WriteEvent(b) \/ ExecuteDelete(b)
      PROVE  /\ Executed(a) => Executed(a)' /\ checkedAt'[a] = checkedAt[a]
             /\ stage[a] # "new" => proposal'[a] = proposal[a] /\ stage'[a] # "new"
             /\ stage[a] = "accepted" => checkedAt'[a] = checkedAt[a]
             /\ stage[a] = "writing" \/ Executed(a) => sent'[a] = sent[a]
             /\ stage'[a] = "confirmed" /\ stage[a] # "confirmed"
                   => ExecuteCreate(a) \/ WriteEvent(a) \/ ExecuteDelete(a)
  BY <1>4, <1>8
<1> QED BY <1>1, <1>5, <1>6, <1>7, <1>8 DEF Next

\* What the filter did to an action is never undone.
LEMMA ClippedStays ==
    ASSUME TypeOK, [Next]_vars, NEW a \in Actions
    PROVE  /\ Clipped(a) => Clipped(a)' /\ proposal'[a] = proposal[a] /\ sent'[a] = sent[a]
           /\ Torn(a) => Torn(a)'
<1>1. Executed(a) => /\ Executed(a)' /\ proposal'[a] = proposal[a] /\ sent'[a] = sent[a]
  BY ExecutedStays DEF Executed
<1> QED BY <1>1 DEF Clipped, Torn

\* An event whose times are excused stays so.
LEMMA ExcusedStays ==
    ASSUME TypeOK, [Next]_vars, NEW e
    PROVE  Excused(e) => Excused(e)'
<1> SUFFICES ASSUME NEW b \in Actions, Torn(b), proposal[b].target = e
             PROVE  Torn(b)' /\ proposal'[b].target = e
  BY DEF Excused
<1> QED BY ClippedStays DEF Torn

\* The policy holds of the events that are there from the start.
LEMMA InitIInv == Init => IInv
<1> SUFFICES ASSUME Init PROVE IInv
  OBVIOUS
<1> PICK kept \in [Existing -> {s \in Slots : s.start # 0 /\ InOrder(s)}] :
        row = [e \in Events |->
                 IF e \in Existing
                 THEN [state |-> "present", slot |-> kept[e]]
                 ELSE [state |-> "not yet", slot |-> NoSlot]]
  BY DEF Init
<1>1. NoSlot \in Slots
  BY DEF NoSlot, Slots
<1>2. row \in [Events -> Rows]
  BY <1>1 DEF Rows
<1>3. proposal \in [Actions -> Proposals]
  <2> PICK e \in Events :
          proposal = [a \in Actions |->
                        [kind |-> "delete", target |-> e, slot |-> NoSlot,
                         complete |-> FALSE]]
    BY DEF Init
  <2> QED BY <1>1 DEF Proposals
<1>4. TypeOK
  BY <1>1, <1>2, <1>3, ClockAssumption DEF Init, TypeOK, Stages
<1>5. CalendarRespectsPolicy
  BY DEF CalendarRespectsPolicy, Present
<1>7. AcceptedInOrder
  <2>1. \A a \in Actions : stage[a] = "new"
    BY DEF Init
  <2> QED BY <2>1 DEF AcceptedInOrder
<1>8. OwnEvent
  BY DEF Init, OwnEvent
<1> QED BY <1>4, <1>5, <1>7, <1>8 DEF IInv

\* A proposal to create is stored under the id of the event it will create.
LEMMA OwnEventStep == TypeOK /\ OwnEvent /\ [Next]_vars => OwnEvent'
<1> SUFFICES ASSUME TypeOK, OwnEvent, [Next]_vars, NEW a \in Actions,
                    stage'[a] # "new", proposal'[a].kind = "create"
             PROVE  proposal'[a].target = a
  BY DEF OwnEvent
<1>1. CASE stage[a] # "new"
  BY <1>1, ExecutedStays DEF OwnEvent
<1>2. CASE stage[a] = "new"
  <2>1. Propose(a)
    BY <1>2 DEF Next, vars, Tick, UserDeletes, Propose, Validate, ExecuteCreate, ReadEvent,
                WriteEvent, ExecuteDelete, Goto, Settle, TypeOK
  <2> PICK p \in Proposals : Convertible(a, p) /\ proposal' = [proposal EXCEPT ![a] = p]
    BY <2>1 DEF Propose
  <2>2. proposal'[a] = p
    BY DEF TypeOK
  <2> QED BY <2>2 DEF Convertible
<1> QED BY <1>1, <1>2

\* Each step keeps the policy: one step of the proof per action.
LEMMA NextIInv == IInv /\ [Next]_vars => IInv'
<1> SUFFICES ASSUME IInv, [Next]_vars PROVE (AcceptedInOrder /\ CalendarRespectsPolicy)'
  BY TypeStep, OwnEventStep DEF IInv
<1>0. /\ TypeOK /\ OwnEvent /\ AcceptedInOrder /\ CalendarRespectsPolicy
      /\ \A a \in Actions : proposal[a].target \in Events
  BY DEF IInv, TypeOK, Proposals
<1>a. \A e \in Events : Excused(e) => Excused(e)'
  BY <1>0, ExcusedStays
\* A row that is new or changed is in order or excused.
<1>b. ASSUME \A e \in Events :
               Present(e)' => \/ Present(e) /\ row'[e].slot = row[e].slot
                              \/ InOrder(row'[e].slot)
                              \/ Excused(e)'
      PROVE  CalendarRespectsPolicy'
  <2> SUFFICES ASSUME NEW e \in Events, Present(e)'
               PROVE  InOrder(row'[e].slot) \/ Excused(e)'
    BY DEF CalendarRespectsPolicy, Excused
  <2>1. Present(e) => InOrder(row[e].slot) \/ Excused(e)
    BY <1>0 DEF CalendarRespectsPolicy, Excused
  <2> QED BY <1>a, <1>b, <2>1
\* So is what is newly accepted or about to be written.
<1>c. ASSUME NEW a \in Actions,
             stage'[a] \in {"accepted", "writing"} /\ proposal'[a].kind # "delete"
               => \/ stage[a] \in {"accepted", "writing"} /\ proposal'[a] = proposal[a]
                  \/ InOrder(proposal'[a].slot)
      PROVE  stage'[a] \in {"accepted", "writing"} /\ proposal'[a].kind # "delete"
               => InOrder(proposal'[a].slot)
  BY <1>0, <1>c DEF AcceptedInOrder
<1>d. ASSUME NEW a \in Actions, NEW e \in Events,
             stage'[a] = "writing", proposal'[a].target = e,
             \/ stage[a] = "writing" /\ draft'[a] = draft[a]
             \/ InOrder(draft'[a]) \/ Halved(a)' \/ Excused(e)'
      PROVE  InOrder(draft'[a]) \/ Halved(a)' \/ Excused(e)'
  <2>1. stage[a] = "writing" => sent'[a] = sent[a] /\ proposal'[a] = proposal[a]
    BY <1>0, ExecutedStays
  <2>2. stage[a] = "writing" => InOrder(draft[a]) \/ Halved(a) \/ Excused(e)
    BY <1>0, <1>d, <2>1 DEF AcceptedInOrder
  <2>3. stage[a] = "writing" /\ Halved(a) => Halved(a)'
    BY <2>1 DEF Halved
  <2> QED BY <1>a, <1>d, <2>2, <2>3
<1>e. ASSUME \A a \in Actions :
               /\ stage'[a] \in {"accepted", "writing"} /\ proposal'[a].kind # "delete"
                    => \/ stage[a] \in {"accepted", "writing"} /\ proposal'[a] = proposal[a]
                       \/ InOrder(proposal'[a].slot)
               /\ \A e \in Events :
                    stage'[a] = "writing" /\ proposal'[a].target = e
                      => \/ stage[a] = "writing" /\ draft'[a] = draft[a]
                         \/ InOrder(draft'[a]) \/ Halved(a)' \/ Excused(e)'
      PROVE  AcceptedInOrder'
  <2>1. ASSUME NEW a \in Actions
        PROVE  stage'[a] \in {"accepted", "writing"} /\ proposal'[a].kind # "delete"
                 => InOrder(proposal'[a].slot)
    BY <1>c, <1>e
  <2>2. ASSUME NEW a \in Actions, NEW e \in Events,
               stage'[a] = "writing", proposal'[a].target = e
        PROVE  InOrder(draft'[a]) \/ Halved(a)' \/ Excused(e)'
    <3>1. \/ stage[a] = "writing" /\ draft'[a] = draft[a]
          \/ InOrder(draft'[a]) \/ Halved(a)' \/ Excused(e)'
      BY <1>e, <2>2
    <3> QED BY <1>d, <2>2, <3>1
  <2> QED BY <2>1, <2>2 DEF AcceptedInOrder, InOrder
<1>1. CASE Tick \/ \E e \in Events : UserDeletes(e)
  <2>1. /\ \A e \in Events : Present(e)' => Present(e) /\ row'[e].slot = row[e].slot
        /\ stage' = stage /\ proposal' = proposal /\ draft' = draft
    BY <1>0, <1>1 DEF Tick, UserDeletes, Present, TypeOK, Rows
  <2> QED BY <1>b, <1>e, <2>1
<1>2. ASSUME NEW a \in Actions, Propose(a) PROVE (AcceptedInOrder /\ CalendarRespectsPolicy)'
  <2>1. /\ row' = row /\ draft' = draft /\ stage'[a] = "proposed"
        /\ \A b \in Actions \ {a} : stage'[b] = stage[b] /\ proposal'[b] = proposal[b]
    BY <1>0, <1>2 DEF Propose, Goto, TypeOK
  <2> QED BY <1>b, <1>e, <2>1 DEF Present
<1>3. ASSUME NEW a \in Actions, Validate(a) PROVE (AcceptedInOrder /\ CalendarRespectsPolicy)'
  <2>1. /\ row' = row /\ draft' = draft /\ proposal' = proposal
        /\ stage'[a] = IF Accepts(proposal[a]) THEN "accepted" ELSE "refused"
        /\ \A b \in Actions \ {a} : stage'[b] = stage[b]
    BY <1>0, <1>3 DEF Validate, Goto, TypeOK
  <2>2. Accepts(proposal[a]) /\ proposal[a].kind # "delete" => InOrder(proposal[a].slot)
    BY DEF Accepts
  <2> QED BY <1>b, <1>e, <2>1, <2>2 DEF Present
<1>4. ASSUME NEW a \in Actions, ExecuteCreate(a) PROVE (AcceptedInOrder /\ CalendarRespectsPolicy)'
  <2>1. InOrder(proposal[a].slot) /\ proposal[a].kind = "create"
    BY <1>0, <1>4 DEF ExecuteCreate, AcceptedInOrder
  <2>2. /\ proposal' = proposal /\ draft' = draft /\ Executed(a)'
        /\ stage'[a] \in {"confirmed", "failed"}
        /\ \A b \in Actions \ {a} : stage'[b] = stage[b]
        /\ sent'[a] = ExtractedSlot(proposal[a])
    BY <1>0, <1>4 DEF ExecuteCreate, Settle, Goto, Executed, Ask, TypeOK
  <2>3. \A e \in Events : Present(e)' => \/ Present(e) /\ row'[e].slot = row[e].slot
                                         \/ e = a /\ row'[e].slot = sent'[a]
    BY <1>0, <1>4, <2>2 DEF ExecuteCreate, Present, TypeOK
  <2>4. proposal[a].target = a
    BY <1>0, <1>4, <2>1 DEF ExecuteCreate, OwnEvent
  <2>5. InOrder(sent'[a]) \/ Excused(a)'
    <3>1. CASE sent'[a] = proposal[a].slot
      BY <2>1, <3>1
    <3>2. CASE sent'[a] # proposal[a].slot
      <4>1. Torn(a)' /\ proposal'[a].target = a
        BY <2>1, <2>2, <2>4, <3>2 DEF Torn, Clipped
      <4> QED BY <4>1 DEF Excused
    <3> QED BY <3>1, <3>2
  <2> QED BY <1>b, <1>e, <2>2, <2>3, <2>5
<1>5. ASSUME NEW a \in Actions, ReadEvent(a) PROVE (AcceptedInOrder /\ CalendarRespectsPolicy)'
  <2>1. InOrder(proposal[a].slot) /\ proposal[a].kind = "update"
    BY <1>0, <1>5 DEF ReadEvent, AcceptedInOrder
  <2>2. /\ proposal' = proposal /\ row' = row /\ stage[a] = "accepted"
        /\ \A b \in Actions \ {a} : stage'[b] = stage[b] /\ draft'[b] = draft[b]
        /\ sent'[a] = ExtractedSlot(proposal[a])
    BY <1>0, <1>5 DEF ReadEvent, Goto, Ask, TypeOK
  <2> DEFINE old == row[proposal[a].target].slot
  <2>3. stage'[a] = "writing"
          => /\ Present(proposal[a].target)
             /\ draft'[a] = [start |-> Replaced(old.start, sent'[a].start),
                             end   |-> Replaced(old.end, sent'[a].end)]
    BY <1>0, <1>5, <2>2 DEF ReadEvent, Goto, TypeOK
  <2>4. ASSUME NEW e \in Events, stage'[a] = "writing", proposal[a].target = e
        PROVE  InOrder(draft'[a]) \/ Halved(a)' \/ Excused(e)'
    <3>1. /\ proposal[a].slot.start # 0 /\ proposal[a].slot.end # 0
          /\ \/ sent'[a] = proposal[a].slot
             \/ sent'[a] # proposal[a].slot /\ sent'[a].start = proposal[a].slot.start
             \/ sent'[a] = NoSlot
      BY <1>0, <2>1, <2>2, FilterCases
    <3>2. CASE sent'[a] = proposal[a].slot
      BY <2>1, <2>3, <2>4, <3>1, <3>2 DEF Replaced, InOrder
    <3>3. CASE sent'[a] # proposal[a].slot /\ sent'[a].start = proposal[a].slot.start
      BY <2>2, <3>1, <3>3 DEF Halved
    <3>4. CASE sent'[a] = NoSlot
      <4>1. draft'[a].start = old.start /\ draft'[a].end = old.end
        BY <2>3, <2>4, <3>4 DEF Replaced, NoSlot
      <4>2. InOrder(old) \/ Excused(e)
        BY <1>0, <2>3, <2>4 DEF CalendarRespectsPolicy, Excused
      <4> QED BY <1>0, <1>a, <2>2, <4>1, <4>2 DEF InOrder
    <3> QED BY <3>1, <3>2, <3>3, <3>4
  <2> QED BY <1>b, <1>e, <2>1, <2>2, <2>4 DEF Present
<1>6. ASSUME NEW a \in Actions, WriteEvent(a) PROVE (AcceptedInOrder /\ CalendarRespectsPolicy)'
  <2> PICK f \in Events : proposal[a].target = f
    BY <1>0
  <2>1. InOrder(draft[a]) \/ Halved(a) \/ Excused(f)
    BY <1>0, <1>6 DEF WriteEvent, AcceptedInOrder
  <2>2. /\ proposal' = proposal /\ draft' = draft /\ sent' = sent /\ Executed(a)'
        /\ stage'[a] \in {"confirmed", "failed"}
        /\ \A b \in Actions \ {a} : stage'[b] = stage[b]
    BY <1>0, <1>6 DEF WriteEvent, Settle, Goto, Executed, TypeOK
  <2>3. \A e \in Events : Present(e)' =>
          \/ Present(e) /\ row'[e].slot = row[e].slot
          \/ e = f /\ row'[e].slot = draft[a]
    BY <1>0, <1>6 DEF WriteEvent, UpdateRow, Present, TypeOK, Rows
  <2>4. Halved(a) => Excused(f)'
    <3>1. Halved(a) => Torn(a)'
      BY <2>2 DEF Halved, Torn, Clipped
    <3> QED BY <2>2, <3>1 DEF Excused
  <2>5. InOrder(draft[a]) \/ Excused(f)'
    BY <1>0, <1>a, <2>1, <2>4
  <2> QED BY <1>b, <1>e, <2>2, <2>3, <2>5
<1>7. ASSUME NEW a \in Actions, ExecuteDelete(a) PROVE (AcceptedInOrder /\ CalendarRespectsPolicy)'
  <2>1. /\ proposal' = proposal /\ draft' = draft
        /\ stage'[a] \in {"confirmed", "failed"}
        /\ \A b \in Actions \ {a} : stage'[b] = stage[b]
        /\ \A e \in Events : Present(e)' => Present(e) /\ row'[e].slot = row[e].slot
    BY <1>0, <1>7 DEF ExecuteDelete, Settle, Goto, Present, TypeOK, Rows
  <2> QED BY <1>b, <1>e, <2>1
<1>8. CASE UNCHANGED vars
  <2>1. row' = row /\ stage' = stage /\ proposal' = proposal /\ draft' = draft
    BY <1>8 DEF vars
  <2> QED BY <1>b, <1>e, <2>1 DEF Present
<1> QED BY <1>1, <1>2, <1>3, <1>4, <1>5, <1>6, <1>7, <1>8 DEF Next

-----------------------------------------------------------------------------
(* Deleted events.                                                         *)

\* An action creates its event once; what is updated or deleted is or was there.
CreatedOnce ==
    /\ \A a \in Actions :
          row[a].state # "not yet" => proposal[a].kind = "create" /\ Executed(a)
    /\ \A a \in Actions :
          stage[a] # "new" /\ proposal[a].kind # "create"
              => row[proposal[a].target].state # "not yet"

\* No step creates an event a second time, and none uncreates one.
LEMMA CreatedOnceStep == TypeOK /\ CreatedOnce /\ [Next]_vars => CreatedOnce'
<1> SUFFICES ASSUME TypeOK, CreatedOnce, [Next]_vars PROVE CreatedOnce'
  OBVIOUS
<1> USE DEF TypeOK, CreatedOnce, Executed, Rows, Events
<1>1. CASE Tick
  BY <1>1 DEF Tick
<1>2. ASSUME NEW e \in Events, UserDeletes(e) PROVE CreatedOnce'
  <2>1. \A f \in Events : row[f].state # "not yet" <=> row'[f].state # "not yet"
    BY <1>2 DEF UserDeletes, Present
  <2>2. \A b \in Actions : proposal[b].target \in Events
    BY DEF Proposals
  <2> QED BY <1>2, <2>1, <2>2 DEF UserDeletes
<1>3. ASSUME NEW a \in Actions, Propose(a) PROVE CreatedOnce'
  <2> PICK p \in Proposals : Convertible(a, p)
                             /\ proposal' = [proposal EXCEPT ![a] = p]
    BY <1>3 DEF Propose
  <2>1. p.kind # "create" => row[p.target].state # "not yet"
    BY DEF Convertible, Proposals
  <2> QED BY <1>3, <2>1 DEF Propose, Goto
<1>4. ASSUME NEW a \in Actions, Validate(a) PROVE CreatedOnce'
  BY <1>4 DEF Validate, Goto
<1>5. ASSUME NEW a \in Actions, ExecuteCreate(a) PROVE CreatedOnce'
  <2>1. proposal[a].kind = "create" /\ Executed(a)'
    BY <1>5 DEF ExecuteCreate, Settle, Goto
  <2>2. \A e \in Events : row'[e].state = "not yet" => row[e].state = "not yet"
    BY <1>5 DEF ExecuteCreate
  <2>3. \A e \in Events \ {a} : row'[e] = row[e]
    BY <1>5 DEF ExecuteCreate
  <2>4. \A b \in Actions : proposal[b].target \in Events
    BY DEF Proposals
  <2>5. \A b \in Actions \ {a} : stage'[b] = stage[b]
    BY <1>5 DEF ExecuteCreate, Settle, Goto
  <2>6. proposal' = proposal
    BY <1>5 DEF ExecuteCreate
  <2>7. ASSUME NEW b \in Actions, row'[b].state # "not yet"
        PROVE  proposal[b].kind = "create" /\ Executed(b)'
    <3>1. CASE b = a
      BY <2>1, <3>1
    <3>2. CASE b # a
      BY <2>3, <2>5, <2>7, <3>2
    <3> QED BY <3>1, <3>2
  <2>8. ASSUME NEW b \in Actions, stage'[b] # "new", proposal[b].kind # "create"
        PROVE  row'[proposal[b].target].state # "not yet"
    BY <2>1, <2>2, <2>4, <2>5, <2>8
  <2> QED BY <2>6, <2>7, <2>8
<1>6. ASSUME NEW a \in Actions, ReadEvent(a) PROVE CreatedOnce'
  BY <1>6 DEF ReadEvent, Goto
<1>7. ASSUME NEW a \in Actions, WriteEvent(a) PROVE CreatedOnce'
  <2>1. \A e \in Events : row'[e].state = row[e].state
    <3>1. CASE UpdateRow(a)
      BY <3>1 DEF UpdateRow
    <3>2. CASE UNCHANGED row
      BY <3>2
    <3> QED BY <1>7, <3>1, <3>2 DEF WriteEvent
  <2>2. \A b \in Actions : proposal[b].target \in Events
    BY DEF Proposals
  <2> QED BY <1>7, <2>1, <2>2 DEF WriteEvent, Settle, Goto
<1>8. ASSUME NEW a \in Actions, ExecuteDelete(a) PROVE CreatedOnce'
  <2>1. row[proposal[a].target].state # "not yet"
    BY <1>8 DEF ExecuteDelete
  <2>2. \A e \in Events : /\ e # proposal[a].target => row'[e] = row[e]
                          /\ row[e].state # "not yet" <=> row'[e].state # "not yet"
    BY <1>8, <2>1 DEF ExecuteDelete
  <2>3. \A b \in Actions : proposal[b].target \in Events
    BY DEF Proposals
  <2> QED BY <1>8, <2>2, <2>3 DEF ExecuteDelete, Settle, Goto
<1>9. CASE UNCHANGED vars
  BY <1>9 DEF vars
<1> QED
  BY <1>1, <1>2, <1>3, <1>4, <1>5, <1>6, <1>7, <1>8, <1>9 DEF Next

-----------------------------------------------------------------------------
(* What was confirmed is what is there.                                    *)

\* From the verdict to the table nothing but the filter changes a proposal: a new
\* event was not past when it was accepted, and an update is about to write the
\* very slot that it carries, if the filter let it pass.
Verbatim ==
    \A a \in Actions :
        /\ stage[a] = "accepted" /\ proposal[a].kind = "create"
              => proposal[a].slot.start + Tolerance >= checkedAt[a]
        /\ stage[a] = "writing"
              => /\ proposal[a].kind = "update"
                 /\ sent[a] = proposal[a].slot => draft[a] = proposal[a].slot

\* No step comes between an accepted proposal and what is written of it.
LEMMA VerbatimStep == IInv /\ Verbatim /\ [Next]_vars => Verbatim'
<1> SUFFICES ASSUME IInv, Verbatim, [Next]_vars PROVE Verbatim'
  OBVIOUS
<1> USE DEF IInv, TypeOK, Verbatim
<1>1. CASE Tick
  BY <1>1 DEF Tick
<1>2. ASSUME NEW e \in Events, UserDeletes(e) PROVE Verbatim'
  BY <1>2 DEF UserDeletes
<1>3. ASSUME NEW a \in Actions, Propose(a) PROVE Verbatim'
  BY <1>3 DEF Propose, Goto
<1>4. ASSUME NEW a \in Actions, Validate(a) PROVE Verbatim'
  <2>1. Accepts(proposal[a]) /\ proposal[a].kind = "create"
           => proposal[a].slot.start + Tolerance >= now
    BY DEF Accepts
  <2> QED BY <1>4, <2>1 DEF Validate, Goto
<1>5. ASSUME NEW a \in Actions, ExecuteCreate(a) \/ ExecuteDelete(a) PROVE Verbatim'
  BY <1>5 DEF ExecuteCreate, ExecuteDelete, Settle, Goto, Ask
<1>6. ASSUME NEW a \in Actions, ReadEvent(a) PROVE Verbatim'
  <2>1. InOrder(proposal[a].slot)
    BY <1>6 DEF ReadEvent, AcceptedInOrder
  <2>2. /\ proposal' = proposal /\ checkedAt' = checkedAt
        /\ proposal[a].kind = "update" /\ stage'[a] # "accepted"
        /\ sent'[a] = ExtractedSlot(proposal[a])
        /\ \A b \in Actions \ {a} : /\ draft'[b] = draft[b] /\ stage'[b] = stage[b]
                                     /\ sent'[b] = sent[b]
    BY <1>6 DEF ReadEvent, Goto, Ask
  <2>3. proposal[a].slot.start # 0 /\ proposal[a].slot.end # 0
    BY <2>1, FilterCases
  <2>4. stage'[a] = "writing" /\ sent'[a] = proposal[a].slot
          => draft'[a] = [start |-> proposal[a].slot.start, end |-> proposal[a].slot.end]
    BY <1>6, <2>2, <2>3 DEF ReadEvent, Goto, Replaced
  <2>5. proposal[a].slot = [start |-> proposal[a].slot.start,
                            end |-> proposal[a].slot.end]
    BY DEF Proposals, Slots
  <2> QED BY <2>2, <2>4, <2>5
<1>7. ASSUME NEW a \in Actions, WriteEvent(a) PROVE Verbatim'
  BY <1>7 DEF WriteEvent, Settle, Goto
<1>8. CASE UNCHANGED vars
  BY <1>8 DEF vars
<1> QED
  BY <1>1, <1>2, <1>3, <1>4, <1>5, <1>6, <1>7, <1>8 DEF Next

\* The ways a row comes by its slot: it had it, or an accepted proposal for the
\* very event, executed in this step, carries it as the filter let it through, or
\* is an update of which the filter dropped a time.
LEMMA SlotStep ==
    ASSUME IInv, Verbatim, [Next]_vars,
           NEW e \in Events, Present(e)'
    PROVE  \/ Present(e) /\ row'[e] = row[e]
           \/ \E a \in Actions :
                 /\ ExecuteCreate(a) \/ WriteEvent(a)
                 /\ Executed(a)' /\ proposal'[a] = proposal[a]
                 /\ proposal[a].target = e
                 /\ row'[e].slot = sent'[a] \/ (WriteEvent(a) /\ Clipped(a)')
                 /\ proposal[a].kind = IF ExecuteCreate(a) THEN "create" ELSE "update"
                 /\ ExecuteCreate(a) => stage[a] = "accepted"
<1> USE DEF IInv, TypeOK, Present
<1>1. CASE row' = row
  BY <1>1
<1>2. ASSUME NEW f \in Events, UserDeletes(f)
      PROVE  row[e].state = "present" /\ row'[e] = row[e]
  BY <1>2 DEF UserDeletes
<1>3. ASSUME NEW a \in Actions, ExecuteDelete(a)
      PROVE  row[e].state = "present" /\ row'[e] = row[e]
  <2>1. proposal[a].target \in Events
    BY DEF Proposals
  <2> QED BY <1>3, <2>1 DEF ExecuteDelete, Rows
<1>4. ASSUME NEW a \in Actions, ExecuteCreate(a), row' # row
      PROVE  \/ Present(e) /\ row'[e] = row[e]
             \/ /\ Executed(a)' /\ proposal'[a] = proposal[a]
                /\ proposal[a].target = e /\ row'[e].slot = sent'[a]
                /\ proposal[a].kind = "create" /\ stage[a] = "accepted"
  <2>1. proposal[a].target = a
    BY <1>4 DEF ExecuteCreate, OwnEvent
  <2>2. sent'[a] = ExtractedSlot(proposal[a])
    BY <1>4 DEF ExecuteCreate, Ask
  <2>3. row' = [row EXCEPT ![a] = [state |-> "present", slot |-> sent'[a]]]
    BY <1>4, <2>2 DEF ExecuteCreate
  <2>4. Executed(a)' /\ proposal' = proposal /\ stage[a] = "accepted"
        /\ proposal[a].kind = "create"
    BY <1>4 DEF ExecuteCreate, Settle, Goto, Executed
  <2> QED BY <2>1, <2>3, <2>4 DEF Events
<1>5. ASSUME NEW a \in Actions, WriteEvent(a), row' # row
      PROVE  \/ Present(e) /\ row'[e] = row[e]
             \/ /\ Executed(a)' /\ proposal'[a] = proposal[a]
                /\ proposal[a].target = e
                /\ row'[e].slot = sent'[a] \/ Clipped(a)'
                /\ proposal[a].kind = "update" /\ ~ExecuteCreate(a)
  <2>1. /\ proposal[a].kind = "update"
        /\ sent[a] = proposal[a].slot => draft[a] = proposal[a].slot
    BY <1>5 DEF WriteEvent, Verbatim
  <2>2. UpdateRow(a)
    BY <1>5 DEF WriteEvent
  <2>3. Executed(a)' /\ proposal' = proposal /\ sent' = sent /\ ~ExecuteCreate(a)
    BY <1>5 DEF WriteEvent, ExecuteCreate, Settle, Goto, Executed
  <2>4. e # proposal[a].target => row'[e] = row[e]
    BY <2>2 DEF UpdateRow
  <2>5. e = proposal[a].target => Present(e)
    BY <2>2 DEF UpdateRow, Rows
  <2>6. e = proposal[a].target => row'[e].slot = draft[a]
    BY <2>2, <2>5 DEF UpdateRow, Rows
  <2>7. CASE sent[a] = proposal[a].slot
    BY <2>1, <2>3, <2>4, <2>5, <2>6, <2>7
  <2>8. CASE sent[a] # proposal[a].slot
    <3>1. Clipped(a)'
      BY <2>3, <2>8 DEF Clipped
    <3> QED BY <2>1, <2>3, <2>4, <2>5, <3>1
  <2> QED BY <2>7, <2>8
<1>6. row' = row \/ (\E f \in Events : UserDeletes(f))
      \/ (\E a \in Actions : ExecuteCreate(a) \/ WriteEvent(a) \/ ExecuteDelete(a))
  BY DEF Next, vars, Tick, Propose, Validate, ReadEvent
<1> QED BY <1>1, <1>2, <1>3, <1>4, <1>5, <1>6

FInv == IInv /\ CreatedOnce /\ Verbatim /\ NotIntoThePast /\ SlotsAreConfirmed

\* New events are not in the past, and stay so unless an update moves them.
LEMMA NotIntoThePastStep == FInv /\ [Next]_vars => NotIntoThePast'
<1> SUFFICES ASSUME FInv, [Next]_vars, NEW a \in Actions, Present(a)'
             PROVE  \/ row'[a].slot.start + Tolerance >= checkedAt'[a]
                    \/ sent'[a] = NoSlot /\ Clipped(a)'
                    \/ \E b \in Actions : /\ proposal'[b].kind = "update" /\ Executed(b)'
                                          /\ proposal'[b].target = a
  BY DEF NotIntoThePast
<1> USE DEF FInv
<1>0. TypeOK /\ OwnEvent /\ AcceptedInOrder /\ a \in Events
  BY DEF IInv, Events
<1>1. CASE Present(a) /\ row'[a] = row[a]
  <2>1. Executed(a)
    BY <1>1 DEF Present, CreatedOnce
  <2>2. checkedAt'[a] = checkedAt[a]
    BY <1>0, <2>1, ExecutedStays
  <2>3. CASE row[a].slot.start + Tolerance >= checkedAt[a]
    BY <1>1, <2>2, <2>3
  <2>4. CASE sent[a] = NoSlot /\ Clipped(a)
    BY <1>0, <2>4, ClippedStays
  <2>5. ASSUME NEW b \in Actions, proposal[b].kind = "update", Executed(b),
               proposal[b].target = a
        PROVE  proposal'[b].kind = "update" /\ Executed(b)' /\ proposal'[b].target = a
    BY <1>0, <2>5, ExecutedStays DEF Executed
  <2> QED BY <1>1, <2>3, <2>4, <2>5 DEF NotIntoThePast
<1>2. ASSUME NEW b \in Actions, ExecuteCreate(b), stage[b] = "accepted",
             proposal[b].kind = "create", proposal[b].target = a, Executed(b)',
             row'[a].slot = sent'[b]
      PROVE  \/ row'[a].slot.start + Tolerance >= checkedAt'[a]
             \/ sent'[a] = NoSlot /\ Clipped(a)'
  <2>1. b = a
    BY <1>0, <1>2 DEF OwnEvent
  <2>2. /\ proposal[a].slot.start + Tolerance >= checkedAt[a]
        /\ InOrder(proposal[a].slot)
    BY <1>0, <1>2, <2>1 DEF Verbatim, AcceptedInOrder
  <2>3. /\ checkedAt' = checkedAt /\ proposal' = proposal
        /\ sent'[a] = ExtractedSlot(proposal[a])
    BY <1>0, <1>2, <2>1 DEF ExecuteCreate, Ask, TypeOK
  <2>4. /\ proposal[a].slot # NoSlot
        /\ sent'[a].start = proposal[a].slot.start \/ sent'[a] = NoSlot
    BY <1>0, <2>2, <2>3, FilterCases DEF NoSlot
  <2> QED BY <1>2, <2>1, <2>2, <2>3, <2>4 DEF Clipped
<1>3. CASE \E b \in Actions :
              /\ ExecuteCreate(b) \/ WriteEvent(b)
              /\ Executed(b)' /\ proposal'[b] = proposal[b]
              /\ proposal[b].target = a
              /\ row'[a].slot = sent'[b] \/ (WriteEvent(b) /\ Clipped(b)')
              /\ proposal[b].kind = IF ExecuteCreate(b) THEN "create" ELSE "update"
  <2> PICK b \in Actions :
              /\ ExecuteCreate(b) \/ WriteEvent(b)
              /\ Executed(b)' /\ proposal'[b] = proposal[b]
              /\ proposal[b].target = a
              /\ row'[a].slot = sent'[b] \/ (WriteEvent(b) /\ Clipped(b)')
              /\ proposal[b].kind = IF ExecuteCreate(b) THEN "create" ELSE "update"
    BY <1>3
  <2>1. CASE ExecuteCreate(b)
    <3>1. stage[b] = "accepted" /\ ~WriteEvent(b)
      BY <2>1 DEF ExecuteCreate, WriteEvent
    <3> QED BY <1>2, <2>1, <3>1
  <2>2. CASE ~ExecuteCreate(b)
    BY <2>2
  <2> QED BY <2>1, <2>2
<1> QED BY <1>0, <1>1, <1>3, SlotStep

\* Both ends of an event stem from one executed proposal, whatever the order.
LEMMA SlotsAreConfirmedStep == FInv /\ [Next]_vars => SlotsAreConfirmed'
<1> SUFFICES ASSUME FInv, [Next]_vars, NEW e \in Events, Present(e)'
             PROVE  \/ /\ e \in Existing
                       /\ \A a \in Actions :
                             proposal'[a].kind = "update" /\ proposal'[a].target = e
                                 => stage'[a] # "confirmed"
                    \/ \E a \in Actions :
                          /\ proposal'[a].kind # "delete" /\ proposal'[a].target = e
                          /\ sent'[a] = row'[e].slot
                          /\ Executed(a)'
                    \/ \E a \in Actions :
                          /\ proposal'[a].kind = "update" /\ proposal'[a].target = e
                          /\ Clipped(a)'
  BY DEF SlotsAreConfirmed
<1> USE DEF FInv
<1>0. TypeOK
  BY DEF IInv
<1>1. ASSUME Present(e), row'[e] = row[e],
             NEW a \in Actions, proposal[a].kind # "delete", proposal[a].target = e,
             sent[a] = row[e].slot, Executed(a)
      PROVE  /\ proposal'[a].kind # "delete" /\ proposal'[a].target = e
             /\ sent'[a] = row'[e].slot /\ Executed(a)'
  BY <1>0, <1>1, ExecutedStays DEF Executed
<1>2. ASSUME NEW a \in Actions, proposal[a].kind = "update", proposal[a].target = e,
             Clipped(a)
      PROVE  /\ proposal'[a].kind = "update" /\ proposal'[a].target = e /\ Clipped(a)'
  BY <1>0, <1>2, ClippedStays
<1>3. ASSUME Present(e), row'[e] = row[e], e \in Existing,
             \A a \in Actions : proposal[a].kind = "update" /\ proposal[a].target = e
                                    => stage[a] # "confirmed",
             NEW a \in Actions, proposal'[a].kind = "update",
             proposal'[a].target = e, stage'[a] = "confirmed"
      PROVE  Executed(a)' /\ (sent'[a] = row'[e].slot \/ Clipped(a)')
  <2>1. CASE stage[a] = "confirmed"
    BY <1>0, <1>3, <2>1, ExecutedStays
  <2>2. CASE stage[a] # "confirmed"
    <3>1. ExecuteCreate(a) \/ WriteEvent(a) \/ ExecuteDelete(a)
      BY <1>0, <1>3, <2>2, ExecutedStays
    <3>2. proposal'[a] = proposal[a]
      BY <3>1 DEF ExecuteCreate, WriteEvent, ExecuteDelete
    <3>3. WriteEvent(a)
      BY <1>3, <3>1, <3>2 DEF ExecuteCreate, ExecuteDelete
    <3>4. /\ UpdateRow(a) /\ sent' = sent /\ Executed(a)'
          /\ sent[a] = proposal[a].slot => draft[a] = proposal[a].slot
      BY <1>0, <1>3, <3>3 DEF WriteEvent, Goto, TypeOK, Verbatim, Executed
    <3>5. row'[e].slot = draft[a]
      BY <1>0, <1>3, <3>2, <3>4 DEF UpdateRow, TypeOK, Rows
    <3> QED BY <3>2, <3>4, <3>5 DEF Clipped
  <2> QED BY <2>1, <2>2
<1>4. CASE Present(e) /\ row'[e] = row[e]
  BY <1>1, <1>2, <1>3, <1>4 DEF SlotsAreConfirmed
<1>5. ASSUME NEW a \in Actions, Executed(a)', proposal'[a] = proposal[a],
             proposal[a].target = e,
             row'[e].slot = sent'[a] \/ (WriteEvent(a) /\ Clipped(a)'),
             proposal[a].kind = IF ExecuteCreate(a) THEN "create" ELSE "update"
      PROVE  \/ /\ proposal'[a].kind # "delete" /\ proposal'[a].target = e
                /\ sent'[a] = row'[e].slot /\ Executed(a)'
             \/ /\ proposal'[a].kind = "update" /\ proposal'[a].target = e
                /\ Clipped(a)'
  <2>1. WriteEvent(a) => ~ExecuteCreate(a)
    BY DEF WriteEvent, ExecuteCreate
  <2> QED BY <1>5, <2>1
<1> QED BY <1>4, <1>5, SlotStep

\* Nothing was proposed yet, and the events that are there are older.
LEMMA InitFInv == Init => FInv
<1> SUFFICES ASSUME Init PROVE FInv
  OBVIOUS
<1>1. \A a \in Actions : stage[a] = "new" /\ row[a].state = "not yet"
  <2> PICK kept : row = [e \in Events |->
                           IF e \in Existing
                           THEN [state |-> "present", slot |-> kept[e]]
                           ELSE [state |-> "not yet", slot |-> NoSlot]]
    BY DEF Init
  <2>1. \A a \in Actions : a \in Events /\ a \notin Existing
    BY EventsAssumption DEF Events
  <2> QED BY <2>1 DEF Init
<1>2. CreatedOnce /\ Verbatim
  BY <1>1 DEF CreatedOnce, Verbatim
<1>3. NotIntoThePast /\ SlotsAreConfirmed
  BY <1>1 DEF NotIntoThePast, SlotsAreConfirmed, Present, Events
<1> QED BY <1>2, <1>3, InitIInv DEF FInv

\* The parts together are inductive.
LEMMA NextFInv == FInv /\ [Next]_vars => FInv'
<1> SUFFICES ASSUME FInv, [Next]_vars PROVE FInv'
  OBVIOUS
<1>1. IInv' /\ CreatedOnce' /\ Verbatim'
  BY NextIInv, CreatedOnceStep, VerbatimStep DEF FInv, IInv
<1>2. NotIntoThePast' /\ SlotsAreConfirmed'
  BY NotIntoThePastStep, SlotsAreConfirmedStep
<1> QED BY <1>1, <1>2 DEF FInv

-----------------------------------------------------------------------------
(* Theorems.                                                               *)

\* Rows, proposals and drafts have their types, whatever the instants
\* (chat and calendar gRPC operations).
THEOREM TypeCorrect == Spec => []TypeOK
<1>1. Init => TypeOK
  BY InitIInv DEF IInv
<1> QED BY <1>1, TypeStep, PTL DEF Spec

\* Every event that confirmed actions leave in the calendar ends after it starts
\* and lasts as long as the policy allows, for any number of actions and events
\* and any instants, unless extractTimeFields dropped the end of an action on the
\* event, or both times of the one that created it.
THEOREM RespectsPolicy == Spec => []CalendarRespectsPolicy
<1>1. IInv => CalendarRespectsPolicy
  BY DEF IInv
<1>2. IInv /\ [Next]_vars => IInv'
  BY NextIInv
<1> QED BY <1>1, <1>2, InitIInv, PTL DEF Spec

\* No update that had read an event before its deletion brings it back
\* (UpdateEvent of the events repository).
THEOREM DeletedStaysDeleted == Spec => DeletedForGood
<1>1. TypeOK /\ CreatedOnce /\ [Next]_vars
        => [\A e \in Events : row[e].state = "gone" => row'[e].state = "gone"]_vars
  <2> SUFFICES ASSUME TypeOK, CreatedOnce, Next,
                      NEW e \in Events, row[e].state = "gone"
               PROVE  row'[e].state = "gone"
    OBVIOUS
  <2> USE DEF TypeOK, Rows
  <2>1. CASE Tick
    BY <2>1 DEF Tick
  <2>2. ASSUME NEW f \in Events, UserDeletes(f) PROVE row'[e].state = "gone"
    BY <2>2 DEF UserDeletes
  <2>3. ASSUME NEW a \in Actions, Propose(a) \/ Validate(a) \/ ReadEvent(a)
        PROVE  row'[e].state = "gone"
    BY <2>3 DEF Propose, Validate, ReadEvent
  <2>4. ASSUME NEW a \in Actions, ExecuteCreate(a) PROVE row'[e].state = "gone"
    <3>1. row[a].state = "not yet"
      BY <2>4 DEF ExecuteCreate, CreatedOnce, Executed
    <3>2. e # a
      BY <3>1
    <3> QED BY <2>4, <3>2 DEF ExecuteCreate
  <2>5. ASSUME NEW a \in Actions, WriteEvent(a) PROVE row'[e].state = "gone"
    BY <2>5 DEF WriteEvent, UpdateRow
  <2>6. ASSUME NEW a \in Actions, ExecuteDelete(a) PROVE row'[e].state = "gone"
    BY <2>6 DEF ExecuteDelete
  <2> QED BY <2>1, <2>2, <2>3, <2>4, <2>5, <2>6 DEF Next
<1>2. Init => CreatedOnce
  <2> SUFFICES ASSUME Init PROVE CreatedOnce
    OBVIOUS
  <2>1. \A a \in Actions : stage[a] = "new" /\ row[a].state = "not yet"
    <3> PICK kept : row = [e \in Events |->
                             IF e \in Existing
                             THEN [state |-> "present", slot |-> kept[e]]
                             ELSE [state |-> "not yet", slot |-> NoSlot]]
      BY DEF Init
    <3>1. \A a \in Actions : a \in Events /\ a \notin Existing
      BY EventsAssumption DEF Events
    <3> QED BY <3>1 DEF Init
  <2> QED BY <2>1 DEF CreatedOnce
<1> QED BY <1>1, <1>2, CreatedOnceStep, TypeCorrect, PTL DEF Spec, DeletedForGood

\* An event that an action created started no longer ago than the tolerance when
\* its owner confirmed it, unless an update moved it or its times lay so far
\* ahead that extractTimeFields dropped both.
THEOREM NewEventsAreNotPast == Spec => []NotIntoThePast
<1>1. FInv => NotIntoThePast
  BY DEF FInv
<1>2. FInv /\ [Next]_vars => FInv'
  BY NextFInv
<1> QED BY <1>1, <1>2, InitFInv, PTL DEF Spec

\* Both ends of every event stem from one and the same executed proposal, as
\* extractTimeFields let it through, or from before all of them, for any number
\* of updates of one event that overlap in any way, unless extractTimeFields
\* dropped a time of one of them.
THEOREM NoMixedSlots == Spec => []SlotsAreConfirmed
<1>1. FInv => SlotsAreConfirmed
  BY DEF FInv
<1>2. FInv /\ [Next]_vars => FInv'
  BY NextFInv
<1> QED BY <1>1, <1>2, InitFInv, PTL DEF Spec

-----------------------------------------------------------------------------
(* The sweep of GetAvailableSlots. The invariant of the loop says what the  *)
(* cursor means: every event visited ends at the cursor or before it, every *)
(* event still to visit starts after all the slots found, and a free        *)
(* interval that no slot covers cannot start before the cursor.             *)

Sweeping == pc \in {"sweep", "done"}

LongEnough(s, t) ==
    /\ window.start <= s /\ t <= window.end
    /\ t - s >= duration
    /\ Free(s, t)
Covered(s, t) == \E slot \in slots : slot[1] <= s /\ t <= slot[2]

CursorInv ==
    /\ todo \subseteq Listed
    /\ pc = "done" => todo = {}
    /\ ~Sweeping => slots = {} /\ todo = {} /\ cursor = window.start
    /\ Sweeping => /\ window.start <= cursor
                   /\ \A e \in Listed \ todo : to[e] <= cursor
    /\ \A slot \in slots, e \in todo : slot[2] <= from[e]

CoverInv ==
    /\ pc = "sweep" =>
          \A s, t \in Instants : LongEnough(s, t) => Covered(s, t) \/ cursor <= s
    /\ NothingMissed

DisjointInv ==
    /\ WellFormed /\ pc = "sweep" => \A slot \in slots : slot[2] <= cursor
    /\ SlotsAreDisjoint

SweepInv == SweepTypeOK /\ CursorInv /\ SlotsAreFree /\ CoverInv /\ DisjointInv

\* The requested duration, or the default one, is positive.
LEMMA DurationPositive ==
    ASSUME SweepTypeOK PROVE duration \in Int /\ duration > 0
<1>1. window.duration \in Instants
  BY DEF SweepTypeOK
<1>2. window.duration \in Int
  BY <1>1, InstantsAssumption
<1>3. CASE window.duration <= 0
  BY <1>3, DurationAssumption DEF duration
<1>4. CASE ~(window.duration <= 0)
  BY <1>2, <1>4 DEF duration
<1>5. QED
  BY <1>3, <1>4

\* A gap is one slot, or nothing when it is too short.
LEMMA GapCases ==
    ASSUME NEW s \in Int, NEW t \in Int, duration \in Int, duration > 0
    PROVE  \/ t - s >= duration /\ Gap(s, t) = {<<s, t>>}
           \/ t - s < duration /\ Gap(s, t) = {}
BY DEF Gap

\* The sweep keeps to the instants it was given.
LEMMA SweepTypeStep == SweepTypeOK /\ [SweepNext]_sweepVars => SweepTypeOK'
<1> SUFFICES ASSUME SweepTypeOK, [SweepNext]_sweepVars PROVE SweepTypeOK'
  OBVIOUS
<1> USE DEF SweepTypeOK
<1>1. CASE Refuse
  BY <1>1 DEF Refuse
<1>2. CASE ListEvents
  BY <1>2 DEF ListEvents, Listed
<1>3. ASSUME NEW e \in todo, Visit(e) PROVE SweepTypeOK'
  BY <1>3 DEF Visit, AdvancePast, Gap
<1>4. CASE Finish
  BY <1>4 DEF Finish, Gap
<1>5. CASE UNCHANGED sweepVars
  BY <1>5 DEF sweepVars
<1>6. QED
  BY <1>1, <1>2, <1>3, <1>4, <1>5 DEF SweepNext

\* The invariant holds before the request is looked at.
LEMMA InitSweepInv == SweepInit => SweepInv
BY InstantsAssumption DEF SweepInit, SweepInv, SweepTypeOK, CursorInv,
   SlotsAreFree, CoverInv, DisjointInv, NothingMissed, SlotsAreDisjoint, Sweeping,
   Listed

\* A gap that starts at the cursor and ends before the events still to visit is
\* free of every event, listed or not.
LEMMA GapIsFree ==
    ASSUME SweepTypeOK, CursorInv, pc = "sweep",
           NEW t \in Instants, t <= window.end,
           \A e \in todo : t <= from[e]
    PROVE  Free(cursor, t)
<1> SUFFICES ASSUME NEW e \in UserEvents PROVE ~Blocks(e, cursor, t)
  BY DEF Free
<1>1. /\ from[e] \in Int /\ to[e] \in Int /\ cursor \in Int /\ t \in Int
      /\ window.start \in Int /\ window.end \in Int /\ window.start <= cursor
  BY InstantsAssumption DEF SweepTypeOK, CursorInv, Sweeping
<1>2. CASE e \in todo
  BY <1>1, <1>2 DEF Blocks
<1>3. CASE e \in Listed \ todo
  BY <1>1, <1>3 DEF Blocks, CursorInv, Sweeping
<1>4. CASE e \notin Listed
  BY <1>1, <1>4 DEF Blocks, Listed
<1>5. QED
  BY <1>2, <1>3, <1>4

\* Visiting the first of the remaining events keeps the invariant.
LEMMA VisitSweepInv ==
    ASSUME SweepInv, NEW e \in todo, Visit(e)
    PROVE  SweepInv'
<1> DEFINE gap == Gap(cursor, from[e])
<1>1. SweepTypeOK /\ SweepTypeOK'
  <2>1. SweepNext
    BY DEF SweepNext
  <2>2. QED
    BY <2>1, SweepTypeStep DEF SweepInv
<1>2. /\ pc = "sweep" /\ First(e) /\ slots' = slots \cup gap
      /\ cursor' = IF to[e] > cursor THEN to[e] ELSE cursor
      /\ todo' = todo \ {e}
      /\ UNCHANGED <<from, to, window, pc>>
  BY DEF Visit, AdvancePast
<1>3. /\ \A f \in UserEvents : from[f] \in Int /\ to[f] \in Int
      /\ cursor \in Int /\ window.start \in Int /\ window.end \in Int
      /\ e \in UserEvents /\ e \in Listed /\ from[e] \in Instants
      /\ \A slot \in slots : slot[1] \in Int /\ slot[2] \in Int
  BY <1>1, InstantsAssumption DEF SweepTypeOK, SweepInv, CursorInv
<1>4. duration \in Int /\ duration > 0 /\ duration' = duration
  BY <1>1, <1>2, DurationPositive DEF duration
<1>5. Listed' = Listed /\ (WellFormed' <=> WellFormed)
      /\ \A s, t : /\ Free(s, t)' <=> Free(s, t)
                   /\ LongEnough(s, t)' <=> LongEnough(s, t)
  BY <1>2, <1>4 DEF Listed, Free, Blocks, LongEnough, WellFormed
<1>6. \/ from[e] - cursor >= duration /\ gap = {<<cursor, from[e]>>}
      \/ from[e] - cursor < duration /\ gap = {}
  BY <1>3, <1>4, GapCases
<1>7. to[e] <= cursor' /\ cursor <= cursor' /\ cursor' \in Int
  BY <1>2, <1>3
<1>8. CursorInv'
  <2>1. todo' \subseteq Listed' /\ Sweeping /\ Sweeping' /\ pc' = "sweep"
    BY <1>2, <1>5 DEF SweepInv, CursorInv, Sweeping
  <2>2. window.start <= cursor'
    BY <1>3, <1>7, <2>1 DEF SweepInv, CursorInv
  <2>3. \A f \in Listed \ todo' : to[f] <= cursor'
    BY <1>2, <1>3, <1>7, <2>1 DEF SweepInv, CursorInv, Listed
  <2>4. \A slot \in slots', f \in todo' : slot[2] <= from[f]
    BY <1>2, <1>6 DEF First, SweepInv, CursorInv
  <2>5. QED
    BY <1>2, <1>5, <2>1, <2>2, <2>3, <2>4 DEF CursorInv
<1>9. SlotsAreFree'
  <2>1. Free(cursor, from[e])
    <3>1. from[e] <= window.end
      BY <1>3 DEF Listed
    <3>2. \A f \in todo : from[e] <= from[f]
      BY <1>2 DEF First
    <3>3. QED
      BY <1>1, <1>2, <1>3, <3>1, <3>2, GapIsFree DEF SweepInv
  <2>2. window.start <= cursor /\ from[e] <= window.end
    BY <1>2, <1>3 DEF SweepInv, CursorInv, Sweeping, Listed
  <2>3. ASSUME NEW slot \in slots'
        PROVE  /\ window.start <= slot[1] /\ slot[2] <= window.end
               /\ slot[2] - slot[1] >= duration
               /\ Free(slot[1], slot[2])
    <3>1. CASE slot \in slots
      BY <3>1 DEF SweepInv, SlotsAreFree
    <3>2. CASE slot = <<cursor, from[e]>> /\ from[e] - cursor >= duration
      BY <2>1, <2>2, <3>2
    <3>3. QED
      BY <1>2, <1>6, <3>1, <3>2
  <2>4. QED
    BY <1>2, <1>4, <1>5, <2>3 DEF SlotsAreFree
<1>10. CoverInv'
  <2>1. SUFFICES ASSUME NEW s \in Instants, NEW t \in Instants, LongEnough(s, t)
                 PROVE  Covered(s, t)' \/ cursor' <= s
    BY <1>2, <1>5 DEF CoverInv, NothingMissed, Covered
  <2>2. CASE Covered(s, t)
    BY <1>2, <2>2 DEF Covered
  <2>3. CASE cursor <= s
    <3>1. s \in Int /\ t \in Int /\ t - s >= duration
      BY <2>1, InstantsAssumption DEF LongEnough
    <3>2. ~(from[e] < t /\ to[e] > s)
      BY <1>3, <2>1 DEF LongEnough, Free, Blocks
    <3>3. CASE to[e] <= s
      BY <1>2, <2>3, <3>3
    <3>4. CASE from[e] >= t
      <4>1. from[e] - cursor >= duration
        BY <1>3, <1>4, <2>3, <3>1, <3>4
      <4>2. <<cursor, from[e]>> \in slots'
        BY <1>2, <1>3, <1>4, <1>6, <4>1
      <4>3. QED
        BY <1>3, <2>3, <3>1, <3>4, <4>2 DEF Covered
    <3>5. QED
      BY <1>3, <3>1, <3>2, <3>3, <3>4
  <2>4. QED
    BY <1>2, <2>1, <2>2, <2>3 DEF SweepInv, CoverInv
<1>11. DisjointInv'
  <2>1. SUFFICES ASSUME WellFormed
                 PROVE  /\ \A slot \in slots' : slot[2] <= cursor'
                        /\ \A p, q \in slots' :
                              p = q \/ p[2] <= q[1] \/ q[2] <= p[1]
    BY <1>5 DEF DisjointInv, SlotsAreDisjoint
  <2>2. \A slot \in slots : slot[2] <= cursor
    BY <1>2, <2>1 DEF SweepInv, DisjointInv
  <2>3. from[e] <= cursor'
    BY <1>3, <1>7, <2>1 DEF WellFormed
  <2>4. \A slot \in slots' : slot[2] <= cursor'
    BY <1>2, <1>3, <1>6, <1>7, <2>2, <2>3
  <2>5. \A p, q \in slots' : p = q \/ p[2] <= q[1] \/ q[2] <= p[1]
    BY <1>2, <1>6, <2>1, <2>2 DEF SweepInv, DisjointInv, SlotsAreDisjoint
  <2>6. QED
    BY <2>4, <2>5
<1>12. QED
  BY <1>1, <1>8, <1>9, <1>10, <1>11 DEF SweepInv

\* Looking at the rest of the window after the last event keeps the invariant.
LEMMA FinishSweepInv ==
    ASSUME SweepInv, Finish
    PROVE  SweepInv'
<1> DEFINE gap == Gap(cursor, window.end)
<1>1. SweepTypeOK /\ SweepTypeOK'
  <2>1. SweepNext
    BY DEF SweepNext
  <2>2. QED
    BY <2>1, SweepTypeStep DEF SweepInv
<1>2. /\ pc = "sweep" /\ pc' = "done" /\ todo = {} /\ slots' = slots \cup gap
      /\ UNCHANGED <<from, to, window, todo, cursor>>
  BY DEF Finish
<1>3. /\ cursor \in Int /\ window.start \in Int /\ window.end \in Instants
      /\ window.end \in Int
      /\ \A slot \in slots : slot[1] \in Int /\ slot[2] \in Int
  BY <1>1, InstantsAssumption DEF SweepTypeOK
<1>4. duration \in Int /\ duration > 0 /\ duration' = duration
  BY <1>1, <1>2, DurationPositive DEF duration
<1>5. Listed' = Listed /\ (WellFormed' <=> WellFormed)
      /\ \A s, t : /\ Free(s, t)' <=> Free(s, t)
                   /\ LongEnough(s, t)' <=> LongEnough(s, t)
  BY <1>2, <1>4 DEF Listed, Free, Blocks, LongEnough, WellFormed
<1>6. \/ window.end - cursor >= duration /\ gap = {<<cursor, window.end>>}
      \/ window.end - cursor < duration /\ gap = {}
  BY <1>3, <1>4, GapCases
<1>7. CursorInv'
  BY <1>2, <1>5 DEF SweepInv, CursorInv, Sweeping
<1>8. SlotsAreFree'
  <2>1. Free(cursor, window.end) /\ window.start <= cursor
    BY <1>1, <1>2, <1>3, GapIsFree DEF SweepInv, CursorInv, Sweeping
  <2>2. QED
    BY <1>2, <1>3, <1>4, <1>5, <1>6, <2>1 DEF SweepInv, SlotsAreFree
<1>9. CoverInv'
  <2>1. SUFFICES ASSUME NEW s \in Instants, NEW t \in Instants, LongEnough(s, t)
                 PROVE  Covered(s, t)'
    BY <1>2, <1>4, <1>5 DEF CoverInv, NothingMissed, Covered, LongEnough
  <2>2. CASE Covered(s, t)
    BY <1>2, <2>2 DEF Covered
  <2>3. CASE cursor <= s
    <3>1. s \in Int /\ t \in Int /\ t - s >= duration /\ t <= window.end
      BY <2>1, InstantsAssumption DEF LongEnough
    <3>2. <<cursor, window.end>> \in slots'
      BY <1>2, <1>3, <1>4, <1>6, <2>3, <3>1
    <3>3. QED
      BY <2>3, <3>1, <3>2 DEF Covered
  <2>4. QED
    BY <1>2, <2>1, <2>2, <2>3 DEF SweepInv, CoverInv
<1>10. DisjointInv'
  BY <1>2, <1>3, <1>5, <1>6 DEF SweepInv, DisjointInv, SlotsAreDisjoint
<1>11. QED
  BY <1>1, <1>7, <1>8, <1>9, <1>10 DEF SweepInv

\* Every step of the request keeps the invariant.
LEMMA NextSweepInv == SweepInv /\ [SweepNext]_sweepVars => SweepInv'
<1> SUFFICES ASSUME SweepInv, [SweepNext]_sweepVars PROVE SweepInv'
  OBVIOUS
<1>1. SweepTypeOK /\ SweepTypeOK'
  BY SweepTypeStep DEF SweepInv
<1>2. CASE Refuse
  <2>1. /\ UNCHANGED <<slots, todo, cursor, window>> /\ pc' = "refused"
        /\ slots = {} /\ todo = {} /\ cursor = window.start
    BY <1>2 DEF Refuse, SweepInv, CursorInv, Sweeping
  <2>2. QED
    BY <1>1, <2>1 DEF SweepInv, CursorInv, Sweeping, SlotsAreFree, CoverInv,
       NothingMissed, DisjointInv, SlotsAreDisjoint
<1>3. CASE ListEvents
  <2>1. /\ UNCHANGED <<from, to, window, cursor, slots>>
        /\ slots = {} /\ cursor = window.start
        /\ todo' = Listed' /\ pc' = "sweep"
    BY <1>3 DEF ListEvents, Listed, SweepInv, CursorInv, Sweeping
  <2>2. window.start \in Int
    BY <1>1, InstantsAssumption DEF SweepTypeOK
  <2>3. CursorInv'
    BY <2>1, <2>2 DEF CursorInv, Sweeping
  <2>4. SlotsAreFree' /\ DisjointInv'
    BY <2>1 DEF SlotsAreFree, DisjointInv, SlotsAreDisjoint
  <2>5. CoverInv'
    BY <2>1 DEF CoverInv, NothingMissed, LongEnough
  <2>6. QED
    BY <1>1, <2>3, <2>4, <2>5 DEF SweepInv
<1>4. ASSUME NEW e \in todo, Visit(e) PROVE SweepInv'
  BY <1>4, VisitSweepInv
<1>5. CASE Finish
  BY <1>5, FinishSweepInv
<1>6. CASE UNCHANGED sweepVars
  <2>1. UNCHANGED <<from, to, window, pc, todo, cursor, slots>>
    BY <1>6 DEF sweepVars
  <2>2. UNCHANGED <<Listed, duration, WellFormed>>
        /\ \A s, t : /\ Free(s, t)' <=> Free(s, t)
                     /\ LongEnough(s, t)' <=> LongEnough(s, t)
                     /\ Covered(s, t)' <=> Covered(s, t)
    BY <2>1 DEF Listed, duration, WellFormed, Free, Blocks, LongEnough, Covered
  <2>3. CursorInv' /\ SlotsAreFree'
    BY <2>1, <2>2 DEF SweepInv, CursorInv, Sweeping, SlotsAreFree
  <2>4. CoverInv' /\ DisjointInv'
    BY <2>1, <2>2 DEF SweepInv, CoverInv, NothingMissed, DisjointInv,
       SlotsAreDisjoint
  <2>5. QED
    BY <1>1, <2>3, <2>4 DEF SweepInv
<1>7. QED
  BY <1>2, <1>3, <1>4, <1>5, <1>6 DEF SweepNext

\* The loop invariant holds throughout.
THEOREM SweepInductive == SweepSpec => []SweepInv
BY InitSweepInv, NextSweepInv, PTL DEF SweepSpec

\* Whatever is offered is free, long enough and inside the window.
THEOREM OffersAreFree == SweepSpec => []SlotsAreFree
BY SweepInductive, PTL DEF SweepInv

\* Whatever is free and long enough is inside an offered slot.
THEOREM OffersAreComplete == SweepSpec => []NothingMissed
BY SweepInductive, PTL DEF SweepInv, CoverInv

\* Offered slots do not overlap when every event ends after it starts.
THEOREM OffersAreDisjoint == SweepSpec => []SlotsAreDisjoint
BY SweepInductive, PTL DEF SweepInv, DisjointInv
=============================================================================
