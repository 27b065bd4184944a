------------------------- MODULE ConversationsProofs -------------------------
(***************************************************************************)
(* Proofs about Conversations, for any requests, limit and faults.         *)
(*                                                                         *)
(* What a handler has verified about a conversation stays true while it    *)
(* runs, because ids are new and owners never change (Frame); only that    *)
(* the conversation is not deleted may become false meanwhile, and then    *)
(* the deletion was not over when the request arrived.                     *)
(***************************************************************************)
EXTENDS Conversations, FiniteSetTheorems, SequenceTheorems, TLAPS

\* A request that has arrived names a conversation that exists, and the id of
\* one is fresh until its creation is over.
Named == \A r \in Requests : request[r].stage # "idle" => conversations[request[r].conv] # Absent
Fresh == \A r \in Requests : request[r].stage # "ended" => conversations[r] = Absent

\* The stages beyond the look-up belong to one operation each.
StageOp == \A r \in Requests :
  /\ request[r].stage = "delete" => request[r].op = "delete"
  /\ request[r].stage \in {"store", "agent", "offer", "reply"} => request[r].op = "post"

Base == TypeOK /\ Named /\ Fresh /\ StageOp

OwnerOf(r) == conversations[request[r].conv].owner
Written(r) == \E i \in DOMAIN messages : messages[i].by = r
BeyondLookup == {"delete", "store", "agent", "offer", "reply"}

-----------------------------------------------------------------------------
(* Types.                                                                  *)

LEMMA OutcomeFaults ==
    ASSUME TypeOK, NEW outcome \in Outcomes, Spend(outcome)
    PROVE  faults' \in 0 .. MaxFaults /\ faults' >= faults /\ (outcome # "done" => faults' > 0)
BY GateAssumption DEF TypeOK, Outcomes, Spend

\* What a step makes of the requests.
Moves(r) == \E stage \in Stages \ {"idle"} : Goto(r, stage)
Ends(r) == \E answer \in Answers : End(r, answer)
Offers(r) == \E a \in Nat \cup {NoAction} :
    request' = [request EXCEPT ![r].stage = "reply", ![r].offered = a]

LEMMA FieldTypes ==
    ASSUME TypeOK, NEW r \in Requests
    PROVE  /\ request[r] \in Request
           /\ \A stage \in Stages : [request[r] EXCEPT !.stage = stage] \in Request
           /\ \A answer \in Answers :
                [request[r] EXCEPT !.stage = "ended", !.answer = answer] \in Request
           /\ [request[r] EXCEPT !.proposed = TRUE] \in Request
           /\ \A a \in Nat \cup {NoAction} :
                [request[r] EXCEPT !.stage = "reply", !.offered = a] \in Request
<1>1. request[r] \in Request
  BY DEF TypeOK
<1>2. \A stage \in Stages : [request[r] EXCEPT !.stage = stage] \in Request
  BY <1>1 DEF Request
<1>3. \A answer \in Answers : [request[r] EXCEPT !.stage = "ended", !.answer = answer] \in Request
  BY <1>1 DEF Request, Stages
<1>4. [request[r] EXCEPT !.proposed = TRUE] \in Request
  BY <1>1 DEF Request
<1>5. \A a \in Nat \cup {NoAction} :
        [request[r] EXCEPT !.stage = "reply", !.offered = a] \in Request
  BY <1>1 DEF Request, Stages
<1> QED BY <1>1, <1>2, <1>3, <1>4, <1>5

\* What is offered is an action of the conversation that waits.
LEMMA MaxIn ==
    ASSUME NEW n \in Nat, NEW S, S \subseteq 1 .. n, S # {}
    PROVE  Max(S) \in S /\ \A a \in S : Max(S) >= a
<1> DEFINE Above(a) == {b \in S : b > a}
           Uppers == {Above(a) : a \in S}
           Order == StrictSubsetOrdering(S)
<1>1. IsFiniteSet(S)
  <2>1. IsFiniteSet(1 .. n)
    BY FS_Interval
  <2> QED BY <2>1, FS_Subset
<1>2. Uppers \subseteq FiniteSubsetsOf(S) /\ Uppers # {}
  <2>1. \A a \in S : Above(a) \in SUBSET S
    OBVIOUS
  <2>2. \A a \in S : IsFiniteSet(Above(a))
    BY <1>1, <2>1, FS_Subset
  <2> QED BY <2>1, <2>2 DEF FiniteSubsetsOf
<1>3. PICK least \in Uppers : \A other \in Uppers : <<other, least>> \notin Order
  <2> HIDE DEF Uppers, Order
  <2> QED BY <1>2, FS_StrictSubsetOrderingWellFounded, WFMin DEF Order
<1>4. PICK a \in S : least = Above(a)
  BY <1>3
<1>5. \A b \in S : a >= b
  <2> SUFFICES ASSUME NEW b \in S, b > a PROVE FALSE
    OBVIOUS
  <2>1. ~(b > b) /\ \A c \in S : c > b => c > a
    OBVIOUS
  <2>2. Above(b) \subseteq Above(a) /\ b \in Above(a) /\ b \notin Above(b)
    BY <2>1, Zenon
  <2>3. <<Above(b), least>> \in Order
    BY <1>4, <2>2 DEF StrictSubsetOrdering
  <2> QED BY <2>3, <1>3
<1> QED BY <1>5 DEF Max

LEMMA OfferedType ==
    ASSUME TypeOK, NEW r \in Requests
    PROVE  \/ parseProposedAction(r) = NoAction
           \/ parseProposedAction(r) \in PendingIn(request[r].conv)
<1> DEFINE pending == PendingIn(request[r].conv)
           own == {a \in pending : actions[a].by = r /\ actions[a].correlated}
<1>1. pending \subseteq 1 .. Len(actions) /\ own \subseteq 1 .. Len(actions) /\ Len(actions) \in Nat
  BY DEF PendingIn, TypeOK
<1>2. CASE own # {}
  <2>1. Max(own) \in own
    BY <1>1, <1>2, MaxIn
  <2>2. parseProposedAction(r) = Max(own)
    BY <1>2 DEF parseProposedAction
  <2> QED BY <2>1, <2>2
<1>3. CASE own = {} /\ pending # {}
  <2>1. Max(pending) \in pending
    BY <1>1, <1>3, MaxIn
  <2>2. parseProposedAction(r) = Max(pending)
    BY <1>3 DEF parseProposedAction
  <2> QED BY <2>1, <2>2
<1>4. CASE own = {} /\ pending = {}
  BY <1>4 DEF parseProposedAction
<1> QED BY <1>2, <1>3, <1>4

LEMMA OfferedNat ==
    ASSUME TypeOK, NEW r \in Requests
    PROVE  parseProposedAction(r) \in Nat \cup {NoAction}
BY OfferedType DEF PendingIn, TypeOK

LEMMA HandleCases ==
    ASSUME TypeOK, NEW r \in Requests, Handle(r)
    PROVE  Moves(r) \/ Ends(r) \/ Offers(r)
<1>1. CASE RateIncr(r)
  BY <1>1 DEF RateIncr, Moves, Ends, Stages, Answers
<1>2. CASE RateExpire(r) \/ Unauthorized(r) \/ persistAssistantMessage(r) \/ forwardToAgent(r)
  BY <1>2 DEF RateExpire, Unauthorized, persistAssistantMessage, forwardToAgent, Moves, Ends,
              Stages, Answers
<1>3. CASE handleCreateConversation(r) \/ handleDeleteConversation(r)
  BY <1>3 DEF handleCreateConversation, handleDeleteConversation, Ends, Answers
<1>4. CASE LookupConversation(r)
  <2> DEFINE found == getConversationForUser(request[r].user, request[r].conv)
  <2>1. found \in {"ok", "forbidden", "not found"}
    BY DEF getConversationForUser
  <2> HIDE DEF found
  <2>2. \/ End(r, "not found")
        \/ found # "ok" /\ End(r, found)
        \/ End(r, "ok") \/ Goto(r, "delete") \/ Goto(r, "store")
    BY <1>4, <2>1 DEF LookupConversation, found
  <2> QED BY <2>1, <2>2 DEF Moves, Ends, Stages, Answers
<1>5. CASE persistUserMessage(r)
  BY <1>5 DEF persistUserMessage, Moves, Ends, Stages, Answers
<1>6. CASE OfferAction(r)
  BY <1>6, OfferedNat DEF OfferAction, Offers, Moves, Stages
<1> QED BY <1>1, <1>2, <1>3, <1>4, <1>5, <1>6 DEF Handle

LEMMA GotoEffect ==
    ASSUME TypeOK, NEW r \in Requests, NEW stage, Goto(r, stage)
    PROVE  /\ request'[r].stage = stage /\ request'[r].answer = request[r].answer
           /\ request'[r].op = request[r].op /\ request'[r].offered = request[r].offered
           /\ \A q \in Requests \ {r} : request'[q] = request[q]
<1>1. request[r] \in Request
  BY DEF TypeOK
<1>2. request'[r] = [request[r] EXCEPT !.stage = stage]
      /\ \A q \in Requests \ {r} : request'[q] = request[q]
  BY DEF Goto, TypeOK
<1> QED BY <1>1, <1>2 DEF Request

LEMMA EndEffect ==
    ASSUME TypeOK, NEW r \in Requests, NEW answer, End(r, answer)
    PROVE  /\ request'[r].stage = "ended" /\ request'[r].answer = answer
           /\ request'[r].op = request[r].op /\ request'[r].offered = request[r].offered
           /\ \A q \in Requests \ {r} : request'[q] = request[q]
<1>1. request[r] \in Request
  BY DEF TypeOK
<1>2. request'[r] = [request[r] EXCEPT !.stage = "ended", !.answer = answer]
      /\ \A q \in Requests \ {r} : request'[q] = request[q]
  BY DEF End, TypeOK
<1> QED BY <1>1, <1>2 DEF Request

LEMMA OffersOnly ==
    ASSUME TypeOK, NEW r \in Requests, Handle(r), ~OfferAction(r)
    PROVE  Moves(r) \/ Ends(r)
<1>1. CASE LookupConversation(r)
  <2> DEFINE found == getConversationForUser(request[r].user, request[r].conv)
  <2>1. found \in {"ok", "forbidden", "not found"}
    BY DEF getConversationForUser
  <2> HIDE DEF found
  <2> QED BY <1>1, <2>1 DEF LookupConversation, found, Moves, Ends, Stages, Answers
<1>2. CASE RateIncr(r) \/ RateExpire(r)
  BY <1>2 DEF RateIncr, RateExpire, Moves, Ends, Stages, Answers
<1>3. CASE ~LookupConversation(r) /\ ~RateIncr(r) /\ ~RateExpire(r)
  BY <1>3 DEF Handle, Unauthorized, persistUserMessage, forwardToAgent, persistAssistantMessage,
       handleCreateConversation, handleDeleteConversation, Moves, Ends, Stages, Answers
<1> QED BY <1>1, <1>2, <1>3

LEMMA RequestCases ==
    ASSUME TypeOK, [Next]_vars
    PROVE  \/ request' = request
           \/ \E r \in Requests : Moves(r) \/ Ends(r) \/ Arrive(r) \/ Offers(r)
           \/ \E r \in Requests : request' = [request EXCEPT ![r].proposed = TRUE]
           \/ Crash
<1>1. ASSUME NEW r \in Requests, Handle(r) PROVE Moves(r) \/ Ends(r) \/ Offers(r)
  BY <1>1, HandleCases
<1>2. ASSUME NEW r \in Requests, AgentProposes(r)
      PROVE  request' = [request EXCEPT ![r].proposed = TRUE]
  BY <1>2 DEF AgentProposes
<1>3. ASSUME WindowPasses \/ SettleAction \/ UNCHANGED vars PROVE request' = request
  BY <1>3 DEF WindowPasses, SettleAction, vars
<1> QED BY <1>1, <1>2, <1>3 DEF Next

LEMMA RequestStep ==
    ASSUME TypeOK, [Next]_vars
    PROVE  request' \in [Requests -> Request]
<1>1. CASE request' = request
  BY <1>1 DEF TypeOK
<1>2. ASSUME NEW r \in Requests, NEW new \in Request, request' = [request EXCEPT ![r] = new]
      PROVE  request' \in [Requests -> Request]
  BY <1>2 DEF TypeOK
<1>3. ASSUME NEW r \in Requests, Moves(r) \/ Ends(r) \/ Offers(r)
      PROVE  request' \in [Requests -> Request]
  <2>1. CASE Moves(r)
    BY <1>2, <2>1, FieldTypes, Zenon DEF Moves, Goto
  <2>2. CASE Ends(r)
    <3>1. PICK answer \in Answers : End(r, answer)
      BY <2>2 DEF Ends
    <3>2. request' = [request EXCEPT ![r] = [request[r] EXCEPT !.stage = "ended", !.answer = answer]]
      BY <3>1 DEF End, TypeOK
    <3> QED BY <1>2, <3>2, FieldTypes
  <2>3. CASE Offers(r)
    <3>1. PICK a \in Nat \cup {NoAction} :
            request' = [request EXCEPT ![r].stage = "reply", ![r].offered = a]
      BY <2>3 DEF Offers
    <3>2. request' = [request EXCEPT ![r] = [request[r] EXCEPT !.stage = "reply", !.offered = a]]
      BY <3>1 DEF TypeOK
    <3> QED BY <1>2, <3>2, FieldTypes
  <2> QED BY <1>3, <2>1, <2>2, <2>3
<1>4. ASSUME NEW r \in Requests, request' = [request EXCEPT ![r].proposed = TRUE]
      PROVE  request' \in [Requests -> Request]
  BY <1>2, <1>4, FieldTypes, Zenon
<1>5. ASSUME NEW r \in Requests, Arrive(r) PROVE request' \in [Requests -> Request]
  <2>1. PICK op \in Ops, user \in Users, conv \in Talks :
          request' = [request EXCEPT ![r] =
            [Idle EXCEPT !.op = op, !.stage = "gate", !.user = user, !.conv = conv, !.saw = Ended]]
    BY <1>5 DEF Arrive
  <2>2. [Idle EXCEPT !.op = op, !.stage = "gate", !.user = user, !.conv = conv, !.saw = Ended]
          \in Request
    BY DEF Idle, Request, Stages, Answers, Ended
  <2> QED BY <1>2, <2>1, <2>2
<1>6. CASE Crash
  <2>1. \A r \in Requests : request'[r] = [request[r] EXCEPT !.stage = "ended", !.answer = "none"]
                            \/ request'[r] = request[r]
    BY <1>6 DEF Crash
  <2>2. \A r \in Requests : [request[r] EXCEPT !.stage = "ended", !.answer = "none"] \in Request
    BY FieldTypes DEF Answers
  <2>3. \A r \in Requests : request'[r] \in Request
    BY <2>1, <2>2, FieldTypes
  <2>4. request' = [r \in Requests |-> request'[r]]
    BY <1>6 DEF Crash
  <2> QED BY <2>3, <2>4
<1> QED BY <1>1, <1>3, <1>4, <1>5, <1>6, RequestCases

LEMMA StoreStep ==
    ASSUME TypeOK, Named, [Next]_vars
    PROVE  /\ conversations' \in [Talks -> Conversation \cup {Absent}]
           /\ messages' \in Seq(MessageRow)
           /\ actions' \in Seq(ActionRow)
<1>1. conversations' \in [Talks -> Conversation \cup {Absent}]
  <2>1. ASSUME NEW r \in Requests, handleCreateConversation(r)
        PROVE  conversations' \in [Talks -> Conversation \cup {Absent}]
    <3>1. [owner |-> request[r].user, status |-> "active"] \in Conversation
      BY DEF TypeOK, Request, Conversation
    <3> QED BY <2>1, <3>1 DEF handleCreateConversation, Result, TypeOK, Talks
  <2>2. ASSUME NEW r \in Requests, handleDeleteConversation(r)
        PROVE  conversations' \in [Talks -> Conversation \cup {Absent}]
    <3>1. request[r].conv \in Talks
      BY DEF TypeOK, Request
    <3>2. conversations[request[r].conv] \in Conversation
      BY <2>2, <3>1 DEF TypeOK, Named, handleDeleteConversation
    <3>3. [conversations[request[r].conv] EXCEPT !.status = "deleted"] \in Conversation
      BY <3>2 DEF Conversation
    <3> QED BY <2>2, <3>1, <3>3 DEF handleDeleteConversation, Result, TypeOK
  <2>3. \/ conversations' = conversations
        \/ \E r \in Requests : handleCreateConversation(r) \/ handleDeleteConversation(r)
    BY DEF Next, vars, Handle, Arrive, AgentProposes, RateIncr, RateExpire, Unauthorized,
           LookupConversation, persistUserMessage, forwardToAgent, OfferAction,
           persistAssistantMessage, SettleAction, WindowPasses, Crash
  <2> QED BY <2>1, <2>2, <2>3 DEF TypeOK
<1>2. messages' \in Seq(MessageRow)
  <2>1. \/ messages' = messages
        \/ \E r \in Requests, role \in {"user", "assistant"} :
             messages' = Append(messages, Message(r, role))
    BY DEF Next, vars, Handle, Arrive, AgentProposes, RateIncr, RateExpire, Unauthorized,
           LookupConversation, persistUserMessage, forwardToAgent, OfferAction, Result,
           persistAssistantMessage, SettleAction, WindowPasses, Crash,
           handleCreateConversation, handleDeleteConversation
  <2>2. \A r \in Requests, role \in {"user", "assistant"} : Message(r, role) \in MessageRow
    BY DEF Message, MessageRow, TypeOK, Request
  <2>3. \A row \in MessageRow : Append(messages, row) \in Seq(MessageRow)
    BY DEF TypeOK
  <2> QED BY <2>1, <2>2, <2>3 DEF TypeOK
<1>3. actions' \in Seq(ActionRow)
  <2>1. \/ actions' = actions
        \/ SettleAction
        \/ \E r \in Requests : AgentProposes(r)
    BY DEF Next, vars, Handle, Arrive, RateIncr, RateExpire, Unauthorized,
           LookupConversation, persistUserMessage, forwardToAgent, OfferAction,
           persistAssistantMessage, WindowPasses, Crash,
           handleCreateConversation, handleDeleteConversation
  <2>2. ASSUME NEW r \in Requests, AgentProposes(r) PROVE actions' \in Seq(ActionRow)
    <3>1. \A correlated \in BOOLEAN :
            [by |-> r, conv |-> request[r].conv, correlated |-> correlated, status |-> "pending"]
              \in ActionRow
      BY DEF ActionRow, TypeOK, Request
    <3>2. \A row \in ActionRow : Append(actions, row) \in Seq(ActionRow)
      BY DEF TypeOK
    <3> QED BY <2>2, <3>1, <3>2 DEF AgentProposes
  <2>3. CASE SettleAction
    <3>1. PICK a \in DOMAIN actions : actions' = [actions EXCEPT ![a].status = "settled"]
      BY <2>3 DEF SettleAction
    <3>2. actions[a] \in ActionRow
      BY DEF TypeOK
    <3>3. [actions[a] EXCEPT !.status = "settled"] \in ActionRow
      BY <3>2 DEF ActionRow
    <3> QED BY <3>1, <3>3, ExceptSeq DEF TypeOK
  <2> QED BY <2>1, <2>2, <2>3 DEF TypeOK
<1> QED BY <1>1, <1>2, <1>3

LEMMA CounterStep ==
    ASSUME TypeOK, [Next]_vars
    PROVE  /\ counter' \in [n : Nat, expires : BOOLEAN] /\ admitted' \in Nat
           /\ faults' \in 0 .. MaxFaults /\ faults' >= faults
<1>1. \/ counter' \in {counter, NoKey, Incr(counter), Expire(counter)}
  BY DEF Next, vars, Handle, Arrive, AgentProposes, RateIncr, RateExpire, Unauthorized,
         LookupConversation, persistUserMessage, forwardToAgent, OfferAction, Result,
         persistAssistantMessage, SettleAction, WindowPasses, Crash,
         handleCreateConversation, handleDeleteConversation
<1>2. {counter, NoKey, Incr(counter), Expire(counter)} \subseteq [n : Nat, expires : BOOLEAN]
  <2>1. counter.n + 1 \in Nat
    <3>1. counter.n \in Nat
      BY DEF TypeOK
    <3> QED BY <3>1
  <2>2. Incr(counter) \in [n : Nat, expires : BOOLEAN]
    BY <2>1 DEF TypeOK, Incr
  <2>3. [counter EXCEPT !.expires = TRUE] \in [n : Nat, expires : BOOLEAN]
    BY DEF TypeOK
  <2>4. NoKey \in [n : Nat, expires : BOOLEAN]
    BY DEF NoKey
  <2> QED BY <2>2, <2>3, <2>4, Zenon DEF TypeOK, Expire
<1>3. admitted' \in {admitted, admitted + 1, 0}
  BY DEF Next, vars, Handle, Arrive, AgentProposes, RateIncr, RateExpire, Unauthorized,
         LookupConversation, persistUserMessage, forwardToAgent, OfferAction, Result,
         persistAssistantMessage, SettleAction, WindowPasses, Crash,
         handleCreateConversation, handleDeleteConversation
<1>4. \/ faults' = faults
      \/ \E outcome \in Outcomes : Spend(outcome)
      \/ faults < MaxFaults /\ faults' = faults + 1
  <2>1. ASSUME NEW r \in Requests, RateIncr(r) \/ RateExpire(r) \/ handleCreateConversation(r)
               \/ handleDeleteConversation(r) \/ persistUserMessage(r) \/ persistAssistantMessage(r)
        PROVE  \E outcome \in Outcomes : Spend(outcome)
    BY <2>1 DEF RateIncr, RateExpire, handleCreateConversation, handleDeleteConversation,
                persistUserMessage, persistAssistantMessage
  <2>2. ASSUME NEW r \in Requests, Unauthorized(r) \/ LookupConversation(r) \/ forwardToAgent(r)
               \/ OfferAction(r) \/ Arrive(r) \/ AgentProposes(r)
        PROVE  faults' = faults \/ (faults < MaxFaults /\ faults' = faults + 1)
    BY <2>2 DEF Unauthorized, LookupConversation, forwardToAgent, OfferAction, Arrive, AgentProposes
  <2>3. CASE SettleAction \/ WindowPasses \/ Crash \/ UNCHANGED vars
    BY <2>3 DEF SettleAction, WindowPasses, Crash, vars
  <2> QED BY <2>1, <2>2, <2>3 DEF Next, Handle
<1>5. faults' \in 0 .. MaxFaults /\ faults' >= faults
  BY <1>4, OutcomeFaults, GateAssumption DEF TypeOK
<1>6. admitted' \in Nat
  BY <1>3 DEF TypeOK
<1> QED BY <1>1, <1>2, <1>5, <1>6

\* What a step may make of a request.
Same(q) == /\ request'[q].op = request[q].op /\ request'[q].user = request[q].user
           /\ request'[q].conv = request[q].conv /\ request'[q].saw = request[q].saw
           /\ request'[q].proposed = request[q].proposed
Arrived(q) == /\ request[q].stage = "idle" /\ request'[q].stage = "gate"
              /\ request'[q].answer = "none" /\ request'[q].offered = NoAction
              /\ request'[q].saw = Ended /\ ~request'[q].proposed
              /\ request'[q].op \in Ops /\ conversations[request'[q].conv] # Absent
Went(q) == request[q].stage \notin {"idle", "ended"} /\ request'[q].stage # "idle" /\ Same(q)
Proposed(q) == /\ AgentProposes(q)
               /\ request'[q].op = request[q].op /\ request'[q].user = request[q].user
               /\ request'[q].conv = request[q].conv /\ request'[q].saw = request[q].saw
               /\ request'[q].stage = request[q].stage /\ request'[q].answer = request[q].answer
               /\ request'[q].offered = request[q].offered /\ request'[q].proposed

LEMMA Frame ==
    ASSUME TypeOK, [Next]_vars, NEW q \in Requests
    PROVE  request'[q] = request[q] \/ Arrived(q) \/ Went(q) \/ Proposed(q)
<1>0. request[q] \in Request
  BY DEF TypeOK
<1>1. ASSUME NEW r \in Requests, Handle(r) PROVE request'[q] = request[q] \/ Went(q)
  <2>1. Moves(r) \/ Ends(r) \/ Offers(r)
    BY <1>1, HandleCases
  <2>2. request[r].stage \notin {"idle", "ended"}
    BY <1>1 DEF Handle, RateIncr, RateExpire, Unauthorized, LookupConversation, At,
         persistUserMessage, forwardToAgent, OfferAction, persistAssistantMessage,
         handleCreateConversation, handleDeleteConversation
  <2>3. CASE r # q
    BY <2>1, <2>3 DEF Moves, Ends, Offers, Goto, End, TypeOK
  <2>4. CASE r = q /\ ~Moves(r)
    BY <2>1, <2>2, <2>4, <1>0 DEF Ends, Offers, End, TypeOK, Went, Same, Request
  <2>5. CASE r = q /\ Moves(r)
    <3>1. PICK stage \in Stages \ {"idle"} : Goto(q, stage)
      BY <2>5 DEF Moves
    <3>3. request'[q] = [request[q] EXCEPT !.stage = stage]
      BY <3>1 DEF Goto, TypeOK
    <3> QED BY <1>0, <2>2, <2>5, <3>3 DEF Went, Same, Request
  <2> QED BY <2>3, <2>4, <2>5
<1>2. ASSUME NEW r \in Requests, AgentProposes(r) PROVE request'[q] = request[q] \/ Proposed(q)
  BY <1>0, <1>2 DEF AgentProposes, Proposed, TypeOK, Request
<1>3. ASSUME NEW r \in Requests, Arrive(r) PROVE request'[q] = request[q] \/ Arrived(q)
  BY <1>0, <1>3 DEF Arrive, Arrived, Idle, TypeOK
<1>4. CASE Crash
  BY <1>0, <1>4 DEF Crash, Went, Same, Running, TypeOK, Request
<1>5. CASE WindowPasses \/ SettleAction \/ UNCHANGED vars
  BY <1>5 DEF WindowPasses, SettleAction, vars
<1> QED BY <1>1, <1>2, <1>3, <1>4, <1>5 DEF Next

-----------------------------------------------------------------------------
(* Conversations while requests run.                                       *)

LEMMA ConversationCases ==
    ASSUME [Next]_vars
    PROVE  \/ conversations' = conversations
           \/ \E r \in Requests : handleCreateConversation(r) \/ handleDeleteConversation(r)
BY DEF Next, vars, Handle, Arrive, AgentProposes, RateIncr, RateExpire, Unauthorized,
       LookupConversation, persistUserMessage, forwardToAgent, OfferAction,
       persistAssistantMessage, SettleAction, WindowPasses, Crash

\* A conversation that exists stays, its owner stays, and deleted it stays.
LEMMA Kept ==
    ASSUME Base, [Next]_vars, NEW c \in Talks, conversations[c] # Absent
    PROVE  /\ conversations'[c] # Absent
           /\ conversations'[c].owner = conversations[c].owner
           /\ conversations[c].status = "deleted" => conversations'[c].status = "deleted"
<1>1. conversations[c] \in Conversation
  BY DEF Base, TypeOK
<1>2. ASSUME NEW r \in Requests, handleCreateConversation(r) PROVE conversations'[c] = conversations[c]
  <2>1. conversations[r] = Absent
    BY <1>2 DEF Base, Fresh, handleCreateConversation, At
  <2> QED BY <1>2, <2>1 DEF handleCreateConversation, Result, Base, TypeOK
<1>3. ASSUME NEW r \in Requests, handleDeleteConversation(r)
      PROVE  \/ conversations'[c] = conversations[c]
             \/ conversations'[c] = [conversations[c] EXCEPT !.status = "deleted"]
  BY <1>3 DEF handleDeleteConversation, Result, Base, TypeOK
<1>4. \/ conversations'[c] = conversations[c]
      \/ conversations'[c] = [conversations[c] EXCEPT !.status = "deleted"]
  BY <1>2, <1>3, ConversationCases
<1>5. [conversations[c] EXCEPT !.status = "deleted"] \in Conversation
  BY <1>1 DEF Conversation
<1>6. conversations'[c] # Absent
  BY <1>1, <1>4, <1>5, GateAssumption DEF Conversation, Users
<1>7. conversations'[c].owner = conversations[c].owner
  BY <1>1, <1>4 DEF Conversation
<1>8. conversations[c].status = "deleted" => conversations'[c].status = "deleted"
  BY <1>1, <1>4 DEF Conversation
<1> QED BY <1>6, <1>7, <1>8

LEMMA NamedStep ==
    ASSUME Base, [Next]_vars
    PROVE  Named'
<1> SUFFICES ASSUME NEW q \in Requests, request'[q].stage # "idle"
             PROVE  conversations'[request'[q].conv] # Absent
  BY DEF Named
<1>1. request'[q].conv \in Talks
  BY RequestStep DEF Base, Request
<1>2. conversations[request'[q].conv] # Absent
  BY Frame DEF Base, Named, Arrived, Went, Same, Proposed, AgentProposes, At
<1> QED BY <1>1, <1>2, Kept

LEMMA FreshStep ==
    ASSUME Base, [Next]_vars
    PROVE  Fresh'
<1> SUFFICES ASSUME NEW q \in Requests, request'[q].stage # "ended"
             PROVE  conversations'[q] = Absent
  BY DEF Fresh
<1>1. request[q].stage # "ended"
  BY Frame DEF Base, Arrived, Went, Proposed
<1>2. conversations[q] = Absent
  BY <1>1 DEF Base, Fresh
<1>3. ASSUME NEW r \in Requests, handleCreateConversation(r) PROVE conversations'[q] = Absent
  <2>1. request'[r].stage = "ended"
    BY <1>3 DEF handleCreateConversation, End, Base, TypeOK, Request
  <2>2. r # q
    BY <2>1
  <2> QED BY <1>2, <1>3, <2>2 DEF handleCreateConversation, Result, Base, TypeOK, Talks
<1>4. ASSUME NEW r \in Requests, handleDeleteConversation(r) PROVE conversations'[q] = Absent
  <2>1. conversations[request[r].conv] # Absent
    BY <1>4 DEF handleDeleteConversation, Base, Named
  <2> QED BY <1>2, <1>4, <2>1 DEF handleDeleteConversation, Result, Base, TypeOK, Talks
<1> QED BY <1>2, <1>3, <1>4, ConversationCases

LEMMA StageOpStep ==
    ASSUME Base, [Next]_vars
    PROVE  StageOp'
<1> DEFINE Posting == {"store", "agent", "offer", "reply"}
           Fits(q) == /\ request'[q].stage = "delete" => request'[q].op = "delete"
                      /\ request'[q].stage \in Posting => request'[q].op = "post"
<1> SUFFICES ASSUME NEW q \in Requests PROVE Fits(q)
  BY DEF StageOp
<1>0. request[q] \in Request
  BY DEF Base, TypeOK
<1>1. CASE request'[q] = request[q] \/ Arrived(q) \/ Proposed(q)
  BY <1>1 DEF Arrived, Proposed, Base, StageOp
<1>2. ASSUME NEW r \in Requests, Handle(r), Went(q), request'[q] # request[q] PROVE Fits(q)
  <2>1. q = r
    BY <1>2, HandleCases DEF Moves, Ends, Offers, Goto, End, Base, TypeOK
  <2>2. \/ request'[q].stage \notin Posting \cup {"delete"}
        \/ request[q].op = "post" /\ request'[q].stage = "store"
        \/ request[q].op = "delete" /\ request'[q].stage = "delete"
        \/ request[q].stage \in Posting /\ request'[q].stage \in Posting
    <3>1. CASE \E answer \in Answers : End(q, answer)
      BY <3>1, EndEffect DEF Base
    <3>2. CASE Goto(q, "auth") \/ Goto(q, "expire")
      BY <3>2, GotoEffect DEF Base
    <3>3. CASE request[q].op = "delete" /\ Goto(q, "delete")
      BY <3>3, GotoEffect DEF Base
    <3>4. CASE request[q].op = "post" /\ Goto(q, "store")
      BY <3>4, GotoEffect DEF Base
    <3>5. CASE request[q].stage \in Posting /\ (Goto(q, "agent") \/ Goto(q, "offer") \/ Goto(q, "reply"))
      BY <3>5, GotoEffect DEF Base
    <3>6. CASE request[q].stage \in Posting /\ Offers(q)
      BY <3>6, <1>0 DEF Offers, Base, TypeOK, Request
    <3>7. \/ Ends(q)
          \/ Goto(q, "auth") \/ Goto(q, "expire")
          \/ request[q].op = "delete" /\ Goto(q, "delete")
          \/ request[q].op = "post" /\ Goto(q, "store")
          \/ request[q].stage \in Posting
               /\ (Goto(q, "agent") \/ Goto(q, "offer") \/ Goto(q, "reply") \/ Offers(q))
      <4>1. Handle(q)
        BY <1>2, <2>1
      <4>2. CASE LookupConversation(q)
        <5> DEFINE found == getConversationForUser(request[q].user, request[q].conv)
        <5>1. found \in {"ok", "forbidden", "not found"}
          BY DEF getConversationForUser
        <5> HIDE DEF found
        <5> QED BY <4>2, <5>1 DEF LookupConversation, found, Ends, Answers
      <4>3. CASE OfferAction(q)
        <5>1. Offers(q) \/ Goto(q, "reply")
          BY <4>3, OfferedNat DEF OfferAction, Offers, Base
        <5> QED BY <4>3, <5>1 DEF OfferAction
      <4>4. CASE RateIncr(q) \/ RateExpire(q)
        BY <4>4 DEF RateIncr, RateExpire, Ends, Answers
      <4>5. CASE Unauthorized(q) \/ handleCreateConversation(q) \/ handleDeleteConversation(q)
                 \/ persistAssistantMessage(q)
        BY <4>5 DEF Unauthorized, handleCreateConversation, handleDeleteConversation,
                    persistAssistantMessage, Ends, Answers
      <4>6. CASE persistUserMessage(q) \/ forwardToAgent(q)
        BY <4>6 DEF persistUserMessage, forwardToAgent, At, Ends, Answers
      <4> QED BY <4>1, <4>2, <4>3, <4>4, <4>5, <4>6 DEF Handle
    <3> QED BY <3>1, <3>2, <3>3, <3>4, <3>5, <3>6, <3>7 DEF Ends
  <2> QED BY <1>2, <2>2 DEF Went, Same, Base, StageOp
<1>3. CASE Crash
  BY <1>0, <1>3 DEF Crash, Running, Base, TypeOK, StageOp, Request
<1>4. CASE \E r \in Requests : Arrive(r) \/ AgentProposes(r)
  <2>1. ASSUME NEW r \in Requests, Arrive(r) PROVE request'[q] = request[q] \/ Arrived(q)
    BY <1>0, <2>1 DEF Arrive, Arrived, Idle, Base, TypeOK
  <2>2. ASSUME NEW r \in Requests, AgentProposes(r) PROVE request'[q] = request[q] \/ Proposed(q)
    BY <1>0, <2>2 DEF AgentProposes, Proposed, Base, TypeOK, Request
  <2> QED BY <1>1, <1>4, <2>1, <2>2
<1>5. CASE WindowPasses \/ SettleAction \/ UNCHANGED vars
  BY <1>5 DEF WindowPasses, SettleAction, vars, Base, StageOp
<1> QED BY <1>1, <1>2, <1>3, <1>4, <1>5, Frame DEF Next, Base

LEMMA BaseStep == Base /\ [Next]_vars => Base'
BY RequestStep, StoreStep, CounterStep, NamedStep, FreshStep, StageOpStep DEF Base, TypeOK

LEMMA BaseInit == Init => Base
<1> SUFFICES ASSUME Init PROVE Base
  OBVIOUS
<1>1. conversations \in [Talks -> Conversation \cup {Absent}] /\ Fresh
  BY GateAssumption DEF Init, Talks, Conversation, Users, Fresh
<1>2. messages \in Seq(MessageRow) /\ faults \in 0 .. MaxFaults /\ admitted \in Nat
  BY GateAssumption DEF Init
<1>3. actions \in Seq(ActionRow)
  <2>1. [by |-> OldAuthor, conv |-> OldTalk, correlated |-> TRUE, status |-> "pending"] \in ActionRow
    BY DEF ActionRow, Talks
  <2> QED BY <2>1 DEF Init
<1>4. counter \in [n : Nat, expires : BOOLEAN]
  BY DEF Init, NoKey
<1>5. request \in [Requests -> Request] /\ Named /\ StageOp
  <2>1. Idle \in Request
    BY DEF Idle, Request, Stages, Answers, Users, Talks
  <2> QED BY <2>1 DEF Init, Named, StageOp, Idle
<1> QED BY <1>1, <1>2, <1>3, <1>4, <1>5 DEF Base, TypeOK

\* The collections, the counter and the requests hold values of their types.
THEOREM TypeCorrect == Spec => []TypeOK
<1>1. Base => TypeOK
  BY DEF Base
<1>2. QED
  BY <1>1, BaseInit, BaseStep, PTL DEF Spec

-----------------------------------------------------------------------------
(* LimiterSound: every admitted request was counted, and the first one of a  *)
(* window passes although nobody compares its count with the limit.          *)

GateInv ==
  /\ admitted <= counter.n /\ admitted <= RateLimit
  /\ counter.n = 0 => ~counter.expires

LimiterInv == Base /\ GateInv /\ LockedOutOnlyByFault

LEMMA LimiterCases ==
    ASSUME [Next]_vars
    PROVE  \/ UNCHANGED <<counter, admitted>>
           \/ \E r \in Requests : RateIncr(r) \/ RateExpire(r)
           \/ WindowPasses
BY DEF Next, vars, Handle, Arrive, AgentProposes, Unauthorized, LookupConversation,
       persistUserMessage, forwardToAgent, OfferAction, persistAssistantMessage,
       handleCreateConversation, handleDeleteConversation, SettleAction, Crash

LEMMA CounterEffect ==
    ASSUME TypeOK
    PROVE  /\ counter.n \in Nat /\ counter.expires \in BOOLEAN
           /\ Incr(counter).n = counter.n + 1 /\ Incr(counter).expires = counter.expires
           /\ Expire(counter).n = counter.n
           /\ counter.n > 0 => Expire(counter).expires
           /\ counter.n = 0 => Expire(counter) = counter
           /\ NoKey.n = 0 /\ ~NoKey.expires
BY DEF TypeOK, Incr, Expire, NoKey

LEMMA GateStep ==
    ASSUME TypeOK, GateInv, [Next]_vars
    PROVE  GateInv'
<1>1. CASE UNCHANGED <<counter, admitted>>
  BY <1>1 DEF GateInv
<1>2. ASSUME NEW r \in Requests, RateIncr(r) PROVE GateInv'
  <2>1. PICK outcome \in Outcomes :
          /\ counter' = Result(outcome, counter, Incr(counter))
          /\ IF outcome # "done" THEN UNCHANGED admitted
             ELSE IF FirstOfWindow(counter.n + 1) \/ WithinLimit(counter.n + 1, RateLimit)
             THEN admitted' = admitted + 1 ELSE UNCHANGED admitted
    BY <1>2 DEF RateIncr
  <2>2. /\ counter' = counter /\ admitted' = admitted
        \/ /\ counter' = Incr(counter)
           /\ \/ admitted' = admitted
              \/ /\ admitted' = admitted + 1
                 /\ counter.n + 1 = 1 \/ counter.n + 1 <= RateLimit
    BY <2>1 DEF Result, FirstOfWindow, WithinLimit
  <2>3. admitted' <= counter'.n /\ admitted' <= RateLimit
    BY <2>2, CounterEffect, GateAssumption DEF TypeOK, GateInv
  <2>4. counter'.n = 0 => ~counter'.expires
    BY <2>2, CounterEffect DEF GateInv
  <2> QED BY <2>3, <2>4 DEF GateInv
<1>3. ASSUME NEW r \in Requests, RateExpire(r) PROVE GateInv'
  <2>1. admitted' = admitted /\ (counter' = counter \/ counter' = Expire(counter))
    BY <1>3 DEF RateExpire, Result
  <2> QED BY <2>1, CounterEffect DEF GateInv
<1>4. CASE WindowPasses
  BY <1>4, CounterEffect, GateAssumption DEF WindowPasses, GateInv
<1> QED BY <1>1, <1>2, <1>3, <1>4, LimiterCases

LEMMA LockStep ==
    ASSUME TypeOK, GateInv, LockedOutOnlyByFault, [Next]_vars
    PROVE  LockedOutOnlyByFault'
<1> DEFINE Expiring(r) == request[r].stage = "expire"
<1>0. faults' >= faults /\ faults \in Nat /\ faults' \in Nat
  <2>1. faults' \in 0 .. MaxFaults /\ faults \in 0 .. MaxFaults
    BY CounterStep DEF TypeOK
  <2> QED BY <2>1, CounterStep, GateAssumption
<1>1. ASSUME NEW r \in Requests, RateIncr(r) PROVE LockedOutOnlyByFault'
  <2>1. PICK outcome \in Outcomes :
          /\ counter' = Result(outcome, counter, Incr(counter)) /\ Spend(outcome)
          /\ outcome = "done" /\ FirstOfWindow(counter.n + 1) => Goto(r, "expire")
    BY <1>1 DEF RateIncr
  <2>2. CASE outcome # "done"
    BY <2>1, <2>2, OutcomeFaults DEF LockedOutOnlyByFault
  <2>3. CASE outcome = "done" /\ counter.n = 0
    <3>1. Goto(r, "expire")
      BY <2>1, <2>3 DEF FirstOfWindow
    <3>2. request'[r].stage = "expire"
      BY <3>1, GotoEffect
    <3> QED BY <3>2 DEF LockedOutOnlyByFault
  <2>4. CASE outcome = "done" /\ counter.n # 0
    <3>1. counter'.expires = counter.expires /\ counter.n > 0
      BY <2>1, <2>4, CounterEffect DEF Result
    <3>2. ASSUME NEW q \in Requests, Expiring(q) PROVE request'[q].stage = "expire"
      <4>1. q # r
        BY <1>1, <3>2 DEF RateIncr
      <4>2. Moves(r) \/ Ends(r) \/ Offers(r)
        BY <1>1, HandleCases DEF Handle
      <4> QED BY <3>2, <4>1, <4>2 DEF Moves, Ends, Offers, Goto, End, TypeOK
    <3> QED BY <1>0, <3>1, <3>2 DEF LockedOutOnlyByFault
  <2> QED BY <2>2, <2>3, <2>4
<1>2. ASSUME NEW r \in Requests, RateExpire(r) PROVE LockedOutOnlyByFault'
  <2>1. PICK outcome \in Outcomes :
          counter' = Result(outcome, counter, Expire(counter)) /\ Spend(outcome)
    BY <1>2 DEF RateExpire
  <2>2. CASE outcome # "done"
    BY <2>1, <2>2, OutcomeFaults DEF LockedOutOnlyByFault
  <2>3. CASE outcome = "done"
    <3>1. counter' = Expire(counter)
      BY <2>1, <2>3 DEF Result
    <3> QED BY <3>1, CounterEffect DEF LockedOutOnlyByFault
  <2> QED BY <2>2, <2>3
<1>3. CASE WindowPasses
  BY <1>3, CounterEffect DEF WindowPasses, LockedOutOnlyByFault
<1>4. CASE UNCHANGED <<counter, admitted>> /\ ~Crash
  <2>1. ASSUME NEW q \in Requests, Expiring(q), ~(\E r \in Requests : RateExpire(r))
        PROVE  request'[q].stage = "expire" \/ faults' > 0
    <3>1. ~Unauthorized(q) /\ ~Handle(q)
      BY <2>1 DEF Handle, Unauthorized, RateIncr, LookupConversation, persistUserMessage,
         forwardToAgent, OfferAction, persistAssistantMessage, handleCreateConversation,
         handleDeleteConversation, At
    <3>2. ASSUME NEW r \in Requests, Handle(r) PROVE request'[q].stage = "expire"
      <4>1. q # r
        BY <3>1, <3>2
      <4>2. Moves(r) \/ Ends(r) \/ Offers(r)
        BY <3>2, HandleCases
      <4> QED BY <2>1, <4>1, <4>2 DEF Moves, Ends, Offers, Goto, End, TypeOK
    <3>3. ASSUME NEW r \in Requests, AgentProposes(r) \/ Arrive(r) PROVE request'[q].stage = "expire"
      <4>1. request'[q] = request[q] \/ Arrived(q) \/ Went(q) \/ Proposed(q)
        BY Frame
      <4> QED BY <2>1, <3>3 DEF AgentProposes, Arrive, TypeOK, At, Request
    <3>4. CASE WindowPasses \/ SettleAction \/ UNCHANGED vars
      BY <2>1, <3>4 DEF WindowPasses, SettleAction, vars
    <3> QED BY <1>4, <3>2, <3>3, <3>4 DEF Next
  <2>2. CASE \E r \in Requests : RateExpire(r)
    BY <1>2, <2>2
  <2> QED BY <1>0, <1>4, <2>1, <2>2 DEF LockedOutOnlyByFault
<1>5. CASE Crash
  <2>1. faults' = faults + 1
    BY <1>5 DEF Crash
  <2>2. faults' > 0
    BY <1>0, <2>1
  <2> QED BY <2>2 DEF LockedOutOnlyByFault
<1> QED BY <1>1, <1>2, <1>3, <1>4, <1>5, LimiterCases

\* The limit holds in each window of a connection, and the window comes to its
\* end unless a call failed.
THEOREM LimiterIsSound == Spec => []LimiterSound
<1>1. Init => LimiterInv
  <2> SUFFICES ASSUME Init PROVE LimiterInv
    OBVIOUS
  <2>1. admitted = 0 /\ counter.n = 0 /\ ~counter.expires
    BY DEF Init, NoKey
  <2> QED BY <2>1, BaseInit, GateAssumption DEF LimiterInv, GateInv, LockedOutOnlyByFault
<1>2. LimiterInv /\ [Next]_vars => LimiterInv'
  BY BaseStep, GateStep, LockStep DEF LimiterInv, Base
<1>3. LimiterInv => LimiterSound
  BY DEF LimiterInv, GateInv, LimiterSound, GateHolds
<1>4. QED
  BY <1>1, <1>2, <1>3, PTL DEF Spec

-----------------------------------------------------------------------------
(* OwnersOnly and DeletedIsGone: what a request does for its conversation it *)
(* does beyond the look-up.                                                  *)

\* What steps write messages.
Stores(r) == request[r].stage = "store" /\ messages' = Append(messages, Message(r, "user"))
Replies(r) == request[r].stage = "reply" /\ messages' = Append(messages, Message(r, "assistant"))

LEMMA MessageCases ==
    ASSUME [Next]_vars
    PROVE  \/ messages' = messages
           \/ \E r \in Requests : persistUserMessage(r) /\ Stores(r)
           \/ \E r \in Requests : persistAssistantMessage(r) /\ Replies(r)
BY DEF Next, vars, Handle, Arrive, AgentProposes, RateIncr, RateExpire, Unauthorized,
       LookupConversation, persistUserMessage, forwardToAgent, OfferAction, Result,
       persistAssistantMessage, handleCreateConversation, handleDeleteConversation,
       SettleAction, WindowPasses, Crash, Stores, Replies

LEMMA Appended ==
    ASSUME TypeOK, NEW r \in Requests, NEW role \in {"user", "assistant"},
           messages' = Append(messages, Message(r, role))
    PROVE  /\ DOMAIN messages' = DOMAIN messages \cup {Len(messages) + 1}
           /\ Len(messages) + 1 \notin DOMAIN messages /\ Len(messages) \in Nat
           /\ \A i \in DOMAIN messages : messages'[i] = messages[i] /\ i \in 1 .. Len(messages)
           /\ messages'[Len(messages) + 1] = Message(r, role)
           /\ \A q \in Requests : Written(q)' <=> Written(q) \/ q = r
<1> DEFINE last == Len(messages) + 1
<1>1. messages \in Seq(MessageRow) /\ Message(r, role) \in MessageRow
  BY DEF TypeOK, Message, MessageRow, Request
<1>2. /\ DOMAIN messages' = DOMAIN messages \cup {last} /\ last \notin DOMAIN messages
      /\ \A i \in DOMAIN messages : messages'[i] = messages[i] /\ i \in 1 .. Len(messages)
      /\ messages'[last] = Message(r, role) /\ Len(messages) \in Nat
  BY <1>1, AppendProperties, LenProperties
<1>3. Message(r, role).by = r
  BY DEF Message
<1> HIDE DEF last
<1>4. \A q \in Requests : Written(q)' <=> Written(q) \/ q = r
  BY <1>2, <1>3 DEF Written
<1> QED BY <1>2, <1>4 DEF last

\* Who gets beyond the look-up was found to own a conversation that was there.
LEMMA BeyondStep ==
    ASSUME TypeOK, [Next]_vars, NEW q \in Requests
    PROVE  /\ request'[q].stage \in BeyondLookup /\ request[q].stage \notin BeyondLookup
                => LookupConversation(q)
           /\ request'[q].stage = "ended" /\ request[q].stage # "ended"
                /\ request'[q].answer \in {"ok", "agent error"}
                /\ request[q].stage \notin BeyondLookup
                => LookupConversation(q) \/ handleCreateConversation(q)
<1>0. request[q] \in Request
  BY DEF TypeOK
<1>1. ASSUME NEW r \in Requests, Handle(r), r # q PROVE request'[q] = request[q]
  BY <1>1, HandleCases DEF Moves, Ends, Offers, Goto, End, TypeOK
<1>2. ASSUME RateIncr(q) \/ RateExpire(q) \/ Unauthorized(q)
      PROVE  \/ request'[q].stage \in {"auth", "expire"}
             \/ request'[q].stage = "ended" /\ request'[q].answer \in {"too many", "unauthorized"}
  <2>1. Goto(q, "auth") \/ Goto(q, "expire") \/ End(q, "too many") \/ End(q, "unauthorized")
    BY <1>2 DEF RateIncr, RateExpire, Unauthorized
  <2> QED BY <2>1, GotoEffect, EndEffect
<1>3. ASSUME persistUserMessage(q) \/ forwardToAgent(q) \/ OfferAction(q)
             \/ persistAssistantMessage(q) \/ handleDeleteConversation(q)
      PROVE  request[q].stage \in BeyondLookup
  BY <1>3 DEF persistUserMessage, forwardToAgent, OfferAction, persistAssistantMessage,
              handleDeleteConversation, BeyondLookup, At
<1>4. ASSUME NEW r \in Requests, Handle(r)
      PROVE  \/ request'[q] = request[q] \/ request[q].stage \in BeyondLookup
             \/ request'[q].stage \in {"auth", "expire"}
             \/ request'[q].stage = "ended" /\ request'[q].answer \in {"too many", "unauthorized"}
             \/ LookupConversation(q) \/ handleCreateConversation(q)
  BY <1>1, <1>2, <1>3, <1>4 DEF Handle
<1>5. ASSUME NEW r \in Requests, AgentProposes(r) PROVE request'[q].stage = request[q].stage
  BY <1>0, <1>5 DEF AgentProposes, TypeOK, Request
<1>6. ASSUME NEW r \in Requests, Arrive(r) PROVE request'[q] = request[q] \/ request'[q].stage = "gate"
  BY <1>0, <1>6 DEF Arrive, Idle, TypeOK
<1>7. CASE Crash
  <2>1. request'[q] = request[q] \/ request'[q] = [request[q] EXCEPT !.stage = "ended", !.answer = "none"]
    BY <1>7 DEF Crash
  <2> QED BY <1>0, <2>1 DEF Request, BeyondLookup
<1>8. CASE WindowPasses \/ SettleAction \/ UNCHANGED vars
  BY <1>8 DEF WindowPasses, SettleAction, vars
<1>9. CASE \E r \in Requests : Handle(r)
  <2>1. {"auth", "expire", "ended"} \cap BeyondLookup = {}
    BY DEF BeyondLookup
  <2>2. CASE request'[q] = request[q] \/ request[q].stage \in BeyondLookup
    BY <2>2
  <2>3. CASE \/ request'[q].stage \in {"auth", "expire"}
             \/ request'[q].stage = "ended" /\ request'[q].answer \in {"too many", "unauthorized"}
    BY <2>1, <2>3
  <2>4. CASE handleCreateConversation(q)
    <3>1. request'[q].stage = "ended"
      BY <2>4, EndEffect DEF handleCreateConversation
    <3> QED BY <2>1, <2>4, <3>1
  <2> QED BY <1>4, <1>9, <2>2, <2>3, <2>4
<1>10. CASE \E r \in Requests : AgentProposes(r) \/ Arrive(r)
  BY <1>5, <1>6, <1>10 DEF BeyondLookup
<1> QED BY <1>7, <1>8, <1>9, <1>10 DEF Next

\* A request is answered when it ends.
LEMMA AnswersAtEnd ==
    ASSUME TypeOK, [Next]_vars, NEW q \in Requests, Went(q), request'[q].stage # "ended"
    PROVE  request'[q].answer = request[q].answer
<1>0. request[q] \in Request
  BY DEF TypeOK
<1>1. ASSUME NEW r \in Requests, Moves(r) \/ Ends(r) \/ Offers(r)
      PROVE  request'[q].answer = request[q].answer
  <2>1. CASE r # q
    BY <1>1, <2>1 DEF Moves, Ends, Offers, Goto, End, TypeOK
  <2>2. CASE r = q /\ Offers(q)
    BY <1>0, <2>2 DEF Offers, TypeOK, Request
  <2>3. CASE r = q /\ Moves(q)
    BY <2>3, GotoEffect DEF Moves
  <2>4. ~Ends(q)
    BY EndEffect DEF Ends
  <2> QED BY <1>1, <2>1, <2>2, <2>3, <2>4
<1>2. ASSUME NEW r \in Requests, Arrive(r) PROVE request'[q].answer = request[q].answer
  BY <1>2 DEF Arrive, Went, TypeOK
<1>3. ASSUME NEW r \in Requests, request' = [request EXCEPT ![r].proposed = TRUE]
      PROVE  request'[q].answer = request[q].answer
  BY <1>0, <1>3 DEF TypeOK, Request
<1>4. CASE Crash
  BY <1>0, <1>4 DEF Crash, Running, Request
<1> QED BY <1>1, <1>2, <1>3, <1>4, RequestCases

\* A request beyond the look-up is its owner's, and so is all it has done.
OwnersInv ==
  \A r \in Requests :
    /\ \/ request[r].stage \in BeyondLookup \/ Written(r)
       \/ Answered(r, "get") \/ Answered(r, "delete")
       => request[r].user = OwnerOf(r)
    /\ Written(r) => request[r].stage # "idle"
    /\ request[r].offered # NoAction =>
         /\ request[r].stage # "idle" /\ request[r].offered \in DOMAIN actions
         /\ actions[request[r].offered].conv = request[r].conv

LEMMA ActionsKept ==
    ASSUME TypeOK, [Next]_vars, NEW a \in DOMAIN actions
    PROVE  /\ a \in DOMAIN actions' /\ actions'[a].by = actions[a].by
           /\ actions'[a].conv = actions[a].conv /\ actions'[a].correlated = actions[a].correlated
           /\ actions'[a].status = "pending" => actions[a].status = "pending"
<1>1. a \in 1 .. Len(actions) /\ actions[a] \in ActionRow /\ actions \in Seq(ActionRow)
  BY DEF TypeOK
<1>2. ASSUME NEW row, row \in ActionRow, actions' = Append(actions, row)
      PROVE  a \in DOMAIN actions' /\ actions'[a] = actions[a]
  BY <1>1, <1>2, AppendProperties
<1>3. ASSUME NEW r \in Requests, AgentProposes(r)
      PROVE  a \in DOMAIN actions' /\ actions'[a] = actions[a]
  <2>1. PICK correlated \in BOOLEAN :
          actions' = Append(actions, [by |-> r, conv |-> request[r].conv,
                                      correlated |-> correlated, status |-> "pending"])
    BY <1>3 DEF AgentProposes
  <2>2. [by |-> r, conv |-> request[r].conv, correlated |-> correlated, status |-> "pending"] \in ActionRow
    BY DEF ActionRow, TypeOK, Request
  <2> QED BY <1>2, <2>1, <2>2
<1>4. ASSUME SettleAction
      PROVE  /\ a \in DOMAIN actions'
             /\ actions'[a] = actions[a] \/ actions'[a] = [actions[a] EXCEPT !.status = "settled"]
  BY <1>1, <1>4 DEF SettleAction
<1>5. actions' = actions \/ SettleAction \/ \E r \in Requests : AgentProposes(r)
  BY DEF Next, vars, Handle, Arrive, RateIncr, RateExpire, Unauthorized,
         LookupConversation, persistUserMessage, forwardToAgent, OfferAction,
         persistAssistantMessage, WindowPasses, Crash,
         handleCreateConversation, handleDeleteConversation
<1>6. /\ a \in DOMAIN actions'
      /\ actions'[a] = actions[a] \/ actions'[a] = [actions[a] EXCEPT !.status = "settled"]
  BY <1>3, <1>4, <1>5
<1> QED BY <1>1, <1>6 DEF ActionRow

LEMMA OwnersStep ==
    ASSUME Base, OwnersInv, [Next]_vars
    PROVE  OwnersInv'
<1> SUFFICES ASSUME NEW q \in Requests
             PROVE  /\ \/ request'[q].stage \in BeyondLookup \/ Written(q)'
                       \/ Answered(q, "get")' \/ Answered(q, "delete")'
                       => request'[q].user = OwnerOf(q)'
                    /\ Written(q)' => request'[q].stage # "idle"
                    /\ request'[q].offered # NoAction =>
                         /\ request'[q].stage # "idle" /\ request'[q].offered \in DOMAIN actions'
                         /\ actions'[request'[q].offered].conv = request'[q].conv
  BY DEF OwnersInv
<1>0. TypeOK /\ request[q] \in Request /\ request[q].conv \in Talks
  BY DEF Base, TypeOK, Request
<1>1. Written(q)' => Written(q) \/ request[q].stage \in {"store", "reply"}
  <2>1. ASSUME NEW r \in Requests, Stores(r) \/ Replies(r)
        PROVE  Written(q)' => Written(q) \/ request[q].stage \in {"store", "reply"}
    BY <1>0, <2>1, Appended DEF Stores, Replies
  <2> QED BY <2>1, MessageCases DEF Written
<1>2. Written(q) => request[q].user = OwnerOf(q) /\ request[q].stage # "idle"
  BY DEF OwnersInv
<1>3. request[q].stage # "idle" /\ request[q].user = OwnerOf(q)
        => /\ request'[q].user = OwnerOf(q)' /\ request'[q].stage # "idle"
  <2> SUFFICES ASSUME request[q].stage # "idle", request[q].user = OwnerOf(q)
               PROVE  request'[q].user = OwnerOf(q)' /\ request'[q].stage # "idle"
    OBVIOUS
  <2>1. /\ request'[q].user = request[q].user /\ request'[q].conv = request[q].conv
        /\ request'[q].stage # "idle"
    BY <1>0, Frame DEF Arrived, Went, Same, Proposed
  <2>2. conversations[request[q].conv] # Absent
    BY DEF Base, Named
  <2>3. conversations'[request[q].conv].owner = conversations[request[q].conv].owner
    BY <1>0, <2>2, Kept
  <2> QED BY <2>1, <2>3 DEF OwnerOf
<1>4. request[q].stage \in BeyondLookup => request[q].stage # "idle" /\ request[q].user = OwnerOf(q)
  BY DEF OwnersInv, BeyondLookup
<1>5. LookupConversation(q) =>
        \/ request[q].stage # "idle" /\ request[q].user = OwnerOf(q)
        \/ request'[q].stage = "ended" /\ request'[q].answer # "ok"
  <2> SUFFICES ASSUME LookupConversation(q), request[q].user # OwnerOf(q)
               PROVE  request'[q].stage = "ended" /\ request'[q].answer # "ok"
    BY DEF LookupConversation
  <2>1. getConversationForUser(request[q].user, request[q].conv) = "forbidden"
    BY DEF getConversationForUser, OwnerOf
  <2>2. End(q, "forbidden") \/ End(q, "not found")
    BY <2>1 DEF LookupConversation
  <2>3. CASE End(q, "forbidden")
    BY <1>0, <2>3, EndEffect
  <2>4. CASE End(q, "not found")
    <3>1. request'[q].stage = "ended" /\ request'[q].answer = "not found"
      BY <1>0, <2>4, EndEffect
    <3> QED BY <3>1
  <2> QED BY <2>2, <2>3, <2>4
<1>6. request'[q].stage \in BeyondLookup => request'[q].user = OwnerOf(q)'
  BY <1>0, <1>3, <1>4, <1>5, BeyondStep DEF BeyondLookup
<1>7. Written(q)' => request'[q].user = OwnerOf(q)' /\ request'[q].stage # "idle"
  BY <1>1, <1>2, <1>3, <1>4 DEF BeyondLookup
<1>8. ASSUME NEW op \in {"get", "delete"}, Answered(q, op)' PROVE request'[q].user = OwnerOf(q)'
  <2>1. request'[q].stage = "ended" /\ request'[q].answer = "ok" /\ request'[q].op = op
    BY <1>8 DEF Answered
  <2>2. CASE request[q].stage = "ended"
    <3>1. Answered(q, op)
      BY <1>0, <2>1, <2>2, Frame DEF Arrived, Went, Proposed, Answered
    <3> QED BY <1>3, <2>2, <3>1 DEF OwnersInv
  <2>3. CASE request[q].stage # "ended" /\ request[q].stage \in BeyondLookup
    BY <1>3, <1>4, <2>3
  <2>4. CASE request[q].stage # "ended" /\ request[q].stage \notin BeyondLookup
    <3>1. LookupConversation(q) \/ handleCreateConversation(q)
      BY <1>0, <2>1, <2>4, BeyondStep
    <3>2. ~handleCreateConversation(q)
      BY <1>0, <2>1, EndEffect DEF handleCreateConversation, At
    <3> QED BY <1>3, <1>5, <2>1, <3>1, <3>2
  <2> QED BY <2>2, <2>3, <2>4
<1>9. request'[q].offered # NoAction =>
        /\ request'[q].stage # "idle" /\ request'[q].offered \in DOMAIN actions'
        /\ actions'[request'[q].offered].conv = request'[q].conv
  <2>1. CASE OfferAction(q) /\ request'[q].offered # request[q].offered
    <3>1. request' = [request EXCEPT ![q].stage = "reply", ![q].offered = parseProposedAction(q)]
      BY <1>0, <2>1, GotoEffect DEF OfferAction
    <3>2. /\ request'[q].offered = parseProposedAction(q) /\ request'[q].conv = request[q].conv
          /\ request'[q].stage = "reply"
      BY <1>0, <3>1 DEF TypeOK, Request
    <3>3. actions' = actions
      BY <2>1 DEF OfferAction
    <3> QED BY <1>0, <3>2, <3>3, OfferedType DEF PendingIn
  <2>2. CASE request'[q].offered = request[q].offered
    <3>1. request[q].offered # NoAction =>
            request'[q].stage # "idle" /\ request'[q].conv = request[q].conv
      BY <1>0, Frame DEF OwnersInv, Arrived, Went, Same, Proposed
    <3> QED BY <1>0, <2>2, <3>1, ActionsKept DEF OwnersInv
  <2>3. CASE request'[q].offered = NoAction
    BY <2>3
  <2>4. ASSUME NEW r \in Requests, Handle(r), ~OfferAction(q) PROVE request'[q].offered = request[q].offered
    <3>1. CASE r # q
      BY <1>0, <2>4, <3>1, HandleCases DEF Moves, Ends, Offers, Goto, End, TypeOK
    <3>2. CASE r = q
      BY <1>0, <2>4, <3>2, OffersOnly, GotoEffect, EndEffect DEF Moves, Ends
    <3> QED BY <3>1, <3>2
  <2>5. CASE Crash
    <3>1. request'[q] = request[q] \/ request'[q] = [request[q] EXCEPT !.stage = "ended", !.answer = "none"]
      BY <2>5 DEF Crash
    <3>2. request'[q].offered = request[q].offered
      BY <1>0, <3>1 DEF Request
    <3> QED BY <2>2, <3>2
  <2>6. CASE WindowPasses \/ SettleAction \/ UNCHANGED vars
    BY <2>2, <2>6 DEF WindowPasses, SettleAction, vars
  <2>7. ASSUME NEW r \in Requests, AgentProposes(r) \/ Arrive(r)
        PROVE  request'[q].offered = request[q].offered \/ request'[q].offered = NoAction
    <3>1. CASE AgentProposes(r)
      BY <1>0, <3>1 DEF AgentProposes, TypeOK, Request
    <3>2. CASE Arrive(r)
      BY <1>0, <3>2 DEF Arrive, Idle, TypeOK
    <3> QED BY <2>7, <3>1, <3>2
  <2> QED BY <2>1, <2>2, <2>3, <2>4, <2>5, <2>6, <2>7 DEF Next
<1> QED BY <1>6, <1>7, <1>8, <1>9

\* A conversation is its owner's: whoever writes into it, reads or deletes it
\* owns it, and is offered its own actions only.
THEOREM OwnersAreAlone == Spec => []OwnersOnly
<1>1. Init => Base /\ OwnersInv
  <2> SUFFICES ASSUME Init PROVE OwnersInv
    BY BaseInit
  <2> QED BY DEF Init, OwnersInv, Idle, BeyondLookup, Written, Answered
<1>2. Base /\ OwnersInv /\ [Next]_vars => (Base /\ OwnersInv)'
  BY BaseStep, OwnersStep
<1>3. Base /\ OwnersInv => OwnersOnly
  BY DEF OwnersInv, OwnersOnly, OwnerOf, Written
<1>4. QED
  BY <1>1, <1>2, <1>3, PTL DEF Spec

-----------------------------------------------------------------------------
(* DeletedIsGone.                                                          *)

\* A request that arrives after a deletion finds nothing.
Nothing(r) ==
  /\ request[r].stage \notin BeyondLookup
  /\ request[r].answer \notin {"ok", "agent error"} /\ ~request[r].proposed /\ ~Written(r)

DeletedInv ==
  /\ \A d \in Requests :
       Answered(d, "delete") => conversations[request[d].conv].status = "deleted"
  /\ \A r \in Requests : /\ \A d \in request[r].saw : request[d].stage = "ended"
                         /\ request[r].stage = "idle" => request[r].saw = {}
  /\ \A d, r \in Requests :
       Answered(d, "delete") /\ d \in request[r].saw /\ request[r].op # "create"
         /\ request[r].conv = request[d].conv => Nothing(r)

\* The look-up of a deleted conversation finds nothing.
LEMMA LookupDeleted ==
    ASSUME TypeOK, NEW q \in Requests, LookupConversation(q),
           conversations[request[q].conv].status = "deleted"
    PROVE  request'[q].stage = "ended" /\ request'[q].answer \in {"forbidden", "not found"}
<1>1. getConversationForUser(request[q].user, request[q].conv) \in {"forbidden", "not found"}
  BY DEF getConversationForUser
<1>2. End(q, "forbidden") \/ End(q, "not found")
  BY <1>1 DEF LookupConversation
<1>3. CASE End(q, "forbidden")
  BY <1>3, EndEffect
<1>4. CASE End(q, "not found")
  BY <1>4, EndEffect
<1> QED BY <1>2, <1>3, <1>4

\* Only handleDeleteConversation answers a deletion, and it has deleted.
LEMMA DeletionStep ==
    ASSUME Base, [Next]_vars, NEW d \in Requests, Answered(d, "delete")', ~Answered(d, "delete")
    PROVE  conversations'[request'[d].conv].status = "deleted"
<1>0. TypeOK /\ request[d] \in Request /\ request[d].conv \in Talks
  BY DEF Base, TypeOK, Request
<1>1. request'[d].stage = "ended" /\ request'[d].answer = "ok" /\ request'[d].op = "delete"
  BY DEF Answered
<1>2. request[d].op = "delete" /\ request[d].stage # "ended" /\ Went(d)
  BY <1>0, <1>1, Frame DEF Arrived, Went, Same, Proposed, Answered
<1>3. PICK r \in Requests : Handle(r)
  <2>1. ~Crash
    BY <1>0, <1>1, <1>2 DEF Crash, Running, Went, Request
  <2>2. ASSUME NEW q \in Requests, AgentProposes(q) PROVE FALSE
    BY <1>0, <1>1, <1>2, <2>2 DEF AgentProposes, TypeOK, Request
  <2>3. ASSUME NEW q \in Requests, Arrive(q) PROVE FALSE
    BY <1>0, <1>1, <1>2, <2>3 DEF Arrive, Idle, TypeOK
  <2>4. ~(WindowPasses \/ SettleAction \/ UNCHANGED vars)
    BY <1>1, <1>2 DEF WindowPasses, SettleAction, vars
  <2> QED BY <2>1, <2>2, <2>3, <2>4 DEF Next
<1>4. r = d
  BY <1>0, <1>1, <1>2, <1>3, HandleCases DEF Moves, Ends, Offers, Goto, End, TypeOK
<1>5. handleDeleteConversation(d)
  <2>1. ~handleCreateConversation(d) /\ ~persistUserMessage(d) /\ ~forwardToAgent(d)
        /\ ~OfferAction(d) /\ ~persistAssistantMessage(d)
    BY <1>2 DEF handleCreateConversation, persistUserMessage, forwardToAgent, OfferAction,
                persistAssistantMessage, Base, StageOp, At
  <2>2. ~RateIncr(d) /\ ~RateExpire(d) /\ ~Unauthorized(d)
    <3>1. RateIncr(d) \/ RateExpire(d) \/ Unauthorized(d) =>
            Goto(d, "auth") \/ Goto(d, "expire") \/ End(d, "too many") \/ End(d, "unauthorized")
      BY DEF RateIncr, RateExpire, Unauthorized
    <3>2. ~Goto(d, "auth") /\ ~Goto(d, "expire")
      BY <1>0, <1>1, GotoEffect
    <3>3. End(d, "too many") => request'[d].answer = "too many"
      BY <1>0, EndEffect
    <3>4. End(d, "unauthorized") => request'[d].answer = "unauthorized"
      BY <1>0, EndEffect
    <3> QED BY <1>1, <3>1, <3>2, <3>3, <3>4
  <2>3. ~LookupConversation(d)
    <3> SUFFICES ASSUME LookupConversation(d) PROVE FALSE
      OBVIOUS
    <3> DEFINE found == getConversationForUser(request[d].user, request[d].conv)
    <3>1. found \in {"ok", "forbidden", "not found"}
      BY DEF getConversationForUser
    <3> HIDE DEF found
    <3>2. End(d, "not found") \/ (found # "ok" /\ End(d, found)) \/ Goto(d, "delete")
      BY <1>2 DEF LookupConversation, found
    <3>3. End(d, "not found") => request'[d].answer = "not found"
      BY <1>0, EndEffect
    <3>4. Goto(d, "delete") => request'[d].stage = "delete"
      BY <1>0, GotoEffect
    <3>5. ~End(d, "not found") /\ ~Goto(d, "delete")
      BY <1>1, <3>3, <3>4
    <3>6. End(d, found) => found = "ok"
      BY <1>0, <1>1, EndEffect
    <3> QED BY <3>2, <3>5, <3>6
  <2> QED BY <1>3, <1>4, <2>1, <2>2, <2>3 DEF Handle
<1>6. conversations' = [conversations EXCEPT ![request[d].conv].status = "deleted"]
  <2>1. PICK outcome \in Outcomes :
          /\ conversations' = Result(outcome, conversations,
                                     [conversations EXCEPT ![request[d].conv].status = "deleted"])
          /\ End(d, IF outcome = "done" THEN "ok" ELSE "error")
    BY <1>5 DEF handleDeleteConversation
  <2>2. outcome = "done"
    BY <1>0, <1>1, <2>1, EndEffect
  <2> QED BY <2>1, <2>2 DEF Result
<1>7. conversations[request[d].conv] \in Conversation
  BY <1>0, <1>5 DEF TypeOK, Base, Named, handleDeleteConversation
<1>8. request'[d].conv = request[d].conv
  BY <1>2 DEF Went, Same
<1> QED BY <1>0, <1>6, <1>7, <1>8 DEF TypeOK, Conversation

LEMMA DeletedStep ==
    ASSUME Base, DeletedInv, OwnersInv, [Next]_vars
    PROVE  DeletedInv'
<1>0. TypeOK /\ \A q \in Requests : request[q] \in Request /\ request[q].conv \in Talks
  BY DEF Base, TypeOK, Request
<1>1. ASSUME NEW d \in Requests, Answered(d, "delete")
      PROVE  Answered(d, "delete")' /\ request'[d].conv = request[d].conv
  BY <1>0, <1>1, Frame DEF Arrived, Went, Proposed, Answered
<1>2. ASSUME NEW d \in Requests, Answered(d, "delete")'
      PROVE  conversations'[request'[d].conv].status = "deleted"
  <2>1. CASE ~Answered(d, "delete")
    BY <1>2, <2>1, DeletionStep
  <2>2. CASE Answered(d, "delete")
    <3>1. conversations[request[d].conv] # Absent /\ conversations[request[d].conv].status = "deleted"
      BY <2>2 DEF DeletedInv, Base, Named, Answered
    <3> QED BY <1>0, <1>1, <2>2, <3>1, Kept
  <2> QED BY <2>1, <2>2
<1>3. ASSUME NEW d \in Requests, request[d].stage = "ended" PROVE request'[d].stage = "ended"
  BY <1>0, <1>3, Frame DEF Arrived, Went, Proposed
<1>4. ASSUME NEW r \in Requests
      PROVE  /\ \A d \in request'[r].saw : request'[d].stage = "ended"
             /\ request'[r].stage = "idle" => request'[r].saw = {}
  <2>1. \A d \in request'[r].saw : d \in Requests /\ request[d].stage = "ended"
    BY <1>0, Frame DEF DeletedInv, Arrived, Went, Same, Proposed, Ended, Request
  <2>2. request'[r].stage = "idle" => request'[r].saw = {}
    BY <1>0, Frame DEF DeletedInv, Arrived, Went, Same, Proposed
  <2> QED BY <1>3, <2>1, <2>2
<1>5. ASSUME NEW d \in Requests, NEW r \in Requests, Answered(d, "delete")', d \in request'[r].saw,
             request'[r].op # "create", request'[r].conv = request'[d].conv
      PROVE  Nothing(r)'
  <2>1. Answered(d, "delete")
    <3>1. request[d].stage = "ended"
      BY <1>0, <1>5, Frame DEF DeletedInv, Arrived, Went, Same, Proposed, Ended
    <3> QED BY <1>0, <1>5, <3>1, Frame DEF Arrived, Went, Proposed, Answered
  <2>2. CASE Arrived(r)
    <3>1. ~Written(r) /\ ~Written(r)'
      <4>1. ~Written(r)
        BY <2>2 DEF Arrived, OwnersInv
      <4>2. ASSUME NEW q \in Requests, Stores(q) \/ Replies(q) PROVE ~Written(r)'
        BY <1>0, <2>2, <4>1, <4>2, Appended DEF Stores, Replies, Arrived
      <4> QED BY <4>1, <4>2, MessageCases DEF Written
    <3> QED BY <2>2, <3>1 DEF Arrived, Nothing, BeyondLookup
  <2>3. CASE request'[r] = request[r] \/ Went(r) \/ Proposed(r)
    <3>1. /\ request'[r].op = request[r].op /\ request'[r].conv = request[r].conv
          /\ request'[r].saw = request[r].saw
      BY <2>3 DEF Went, Same, Proposed
    <3>2. Nothing(r)
      BY <1>1, <1>5, <2>1, <3>1 DEF DeletedInv
    <3>3. conversations[request[r].conv].status = "deleted"
      BY <1>1, <1>5, <2>1, <3>1 DEF DeletedInv
    <3>4. LookupConversation(r) =>
            request'[r].stage = "ended" /\ request'[r].answer \in {"forbidden", "not found"}
      BY <1>0, <3>3, LookupDeleted
    <3>5. ~handleCreateConversation(r) /\ ~AgentProposes(r)
      BY <1>5, <3>1, <3>2 DEF Nothing, handleCreateConversation, AgentProposes, At, BeyondLookup
    <3>6. request'[r].stage \notin BeyondLookup
      BY <1>0, <3>2, <3>4, BeyondStep DEF Nothing, BeyondLookup
    <3>7. request'[r].answer \notin {"ok", "agent error"}
      <4>1. CASE request'[r].stage = "ended" /\ request[r].stage # "ended"
        BY <1>0, <3>2, <3>4, <3>5, <4>1, BeyondStep DEF Nothing
      <4>2. CASE request'[r].stage # "ended" \/ request[r].stage = "ended"
        <5>1. request'[r].answer = request[r].answer
          BY <1>0, <2>3, <3>5, <4>2, AnswersAtEnd DEF Proposed, Went
        <5> QED BY <3>2, <5>1 DEF Nothing
      <4> QED BY <4>1, <4>2
    <3>8. ~request'[r].proposed
      BY <2>3, <3>2, <3>5 DEF Nothing, Went, Same, Proposed
    <3>9. ~Written(r)'
      <4>1. ASSUME NEW q \in Requests, Stores(q) \/ Replies(q) PROVE ~Written(r)'
        BY <1>0, <3>2, <4>1, Appended DEF Stores, Replies, Nothing, BeyondLookup
      <4> QED BY <3>2, <4>1, MessageCases DEF Written, Nothing
    <3> QED BY <3>6, <3>7, <3>8, <3>9 DEF Nothing
  <2> QED BY <1>0, <2>2, <2>3, Frame
<1> QED BY <1>2, <1>4, <1>5 DEF DeletedInv

\* After a deletion was answered nobody finds the conversation again.
THEOREM DeletedStaysGone == Spec => []DeletedIsGone
<1> DEFINE IInv == Base /\ OwnersInv /\ DeletedInv
<1>1. Init => IInv
  <2> SUFFICES ASSUME Init PROVE OwnersInv /\ DeletedInv
    BY BaseInit
  <2>1. OwnersInv
    BY DEF Init, OwnersInv, Idle, BeyondLookup, Written, Answered
  <2>2. DeletedInv
    BY DEF Init, DeletedInv, Idle, Answered
  <2> QED BY <2>1, <2>2
<1>2. IInv /\ [Next]_vars => IInv'
  BY BaseStep, OwnersStep, DeletedStep
<1>3. IInv => DeletedIsGone
  BY DEF DeletedInv, DeletedIsGone, Nothing, Written
<1>4. QED
  BY <1>1, <1>2, <1>3, PTL DEF Spec

-----------------------------------------------------------------------------
(* RepliesFollow.                                                          *)

Before == {"idle", "gate", "expire", "auth", "delete", "store"}
UserMessage(r, j) ==
  j \in DOMAIN messages /\ messages[j].by = r /\ messages[j].role = "user"
    /\ messages[j].conv = request[r].conv
NoReplyYet(r) == \A i \in DOMAIN messages : messages[i].by = r => messages[i].role = "user"

\* A request that is about to reply has stored its message and no reply.
RepliesInv ==
  /\ \A r \in Requests :
       /\ request[r].stage \in Before => ~Written(r)
       /\ request[r].stage \in {"agent", "offer", "reply"} =>
            NoReplyYet(r) /\ \E j \in DOMAIN messages : UserMessage(r, j)
  /\ RepliesFollow

\* Who is to be answered by the agent has stored its message.
LEMMA PostingStep ==
    ASSUME TypeOK, [Next]_vars, NEW q \in Requests,
           request'[q].stage \in {"agent", "offer", "reply"}
    PROVE  \/ request[q].stage \in {"agent", "offer", "reply"}
           \/ Stores(q)
<1>0. request[q] \in Request
  BY DEF TypeOK
<1> SUFFICES ASSUME request[q].stage \notin {"agent", "offer", "reply"} PROVE Stores(q)
  OBVIOUS
<1>1. ASSUME NEW r \in Requests, Handle(r) PROVE Stores(q)
  <2>1. r = q
    BY <1>1, HandleCases DEF Moves, Ends, Offers, Goto, End, TypeOK
  <2>2. ~forwardToAgent(q) /\ ~OfferAction(q) /\ ~persistAssistantMessage(q)
    BY DEF forwardToAgent, OfferAction, persistAssistantMessage, At
  <2>3. ~(\E answer : End(q, answer))
    BY EndEffect
  <2>4. \A stage : Goto(q, stage) => stage \in {"agent", "offer", "reply"}
    BY GotoEffect
  <2>5. ~RateIncr(q) /\ ~RateExpire(q) /\ ~Unauthorized(q) /\ ~LookupConversation(q)
        /\ ~handleCreateConversation(q) /\ ~handleDeleteConversation(q)
    <3>1. ~Goto(q, "auth") /\ ~Goto(q, "expire") /\ ~Goto(q, "delete") /\ ~Goto(q, "store")
      BY <2>4
    <3>2. ~RateIncr(q) /\ ~RateExpire(q) /\ ~Unauthorized(q)
      BY <2>3, <3>1 DEF RateIncr, RateExpire, Unauthorized
    <3>3. ~LookupConversation(q)
      BY <2>3, <3>1 DEF LookupConversation
    <3>4. ~handleCreateConversation(q) /\ ~handleDeleteConversation(q)
      BY <2>3 DEF handleCreateConversation, handleDeleteConversation
    <3> QED BY <3>2, <3>3, <3>4
  <2>6. persistUserMessage(q)
    BY <1>1, <2>1, <2>2, <2>5 DEF Handle
  <2>7. PICK outcome \in Outcomes :
          /\ messages' = Result(outcome, messages, Append(messages, Message(q, "user")))
          /\ IF outcome = "done" THEN Goto(q, "agent") ELSE End(q, "error")
    BY <2>6 DEF persistUserMessage
  <2>8. outcome = "done"
    BY <2>3, <2>7
  <2> QED BY <2>6, <2>7, <2>8 DEF Stores, Result, persistUserMessage
<1>2. ASSUME NEW r \in Requests, Arrive(r) \/ AgentProposes(r) PROVE FALSE
  <2>1. CASE Arrive(r)
    BY <1>0, <2>1 DEF Arrive, Idle, TypeOK
  <2>2. CASE AgentProposes(r)
    BY <1>0, <2>2 DEF AgentProposes, TypeOK, Request
  <2> QED BY <1>2, <2>1, <2>2
<1>3. ~Crash
  <2>1. Crash => request'[q] = request[q] \/ request'[q] = [request[q] EXCEPT !.stage = "ended", !.answer = "none"]
    BY DEF Crash
  <2> QED BY <1>0, <2>1 DEF Request
<1>4. ~(WindowPasses \/ SettleAction \/ UNCHANGED vars)
  BY DEF WindowPasses, SettleAction, vars
<1> QED BY <1>1, <1>2, <1>3, <1>4 DEF Next

\* No step leads back before the store.
LEMMA BackwardStep ==
    ASSUME Base, [Next]_vars, NEW q \in Requests, request'[q].stage \in Before
    PROVE  request[q].stage \in Before
<1>0. TypeOK /\ request[q] \in Request
  BY DEF Base, TypeOK
<1> SUFFICES ASSUME request[q].stage \notin Before PROVE FALSE
  OBVIOUS
<1>1. request[q].stage \in {"agent", "offer", "reply", "ended"}
  BY <1>0 DEF Request, Stages, Before
<1>2. ASSUME NEW r \in Requests, Handle(r) PROVE FALSE
  <2>1. r = q
    BY <1>0, <1>2, HandleCases DEF Moves, Ends, Offers, Goto, End, TypeOK
  <2>2. \/ \E answer : End(q, answer)
        \/ Goto(q, "offer") \/ Goto(q, "reply") \/ Offers(q)
    <3>1. forwardToAgent(q) \/ OfferAction(q) \/ persistAssistantMessage(q)
      BY <1>1, <1>2, <2>1 DEF Handle, RateIncr, RateExpire, Unauthorized, LookupConversation,
         handleCreateConversation, handleDeleteConversation, persistUserMessage, At
    <3> QED BY <1>0, <3>1, OfferedNat DEF forwardToAgent, OfferAction, persistAssistantMessage, Offers
  <2>3. ~(\E answer : End(q, answer))
    BY <1>0, EndEffect DEF Before
  <2>4. ~Goto(q, "offer") /\ ~Goto(q, "reply")
    BY <1>0, GotoEffect DEF Before
  <2>5. ~Offers(q)
    BY <1>0 DEF Offers, TypeOK, Request, Before
  <2> QED BY <2>2, <2>3, <2>4, <2>5
<1>3. ASSUME NEW r \in Requests, Arrive(r) PROVE FALSE
  BY <1>0, <1>1, <1>3 DEF Arrive, TypeOK, Before
<1>4. ASSUME NEW r \in Requests, AgentProposes(r) PROVE FALSE
  BY <1>0, <1>4 DEF AgentProposes, TypeOK, Request
<1>5. ~Crash
  <2>1. Crash => request'[q] = request[q] \/ request'[q] = [request[q] EXCEPT !.stage = "ended", !.answer = "none"]
    BY DEF Crash
  <2> QED BY <1>0, <2>1 DEF Request, Before
<1>6. ~(WindowPasses \/ SettleAction \/ UNCHANGED vars)
  BY DEF WindowPasses, SettleAction, vars
<1> QED BY <1>2, <1>3, <1>4, <1>5, <1>6 DEF Next

LEMMA RepliesStep ==
    ASSUME Base, RepliesInv, [Next]_vars
    PROVE  RepliesInv'
<1>0. /\ TypeOK /\ \A q \in Requests : request[q] \in Request
      /\ \A i \in DOMAIN messages : messages[i] \in MessageRow /\ i \in Nat
  BY DEF Base, TypeOK
<1>1. ASSUME NEW q \in Requests, request'[q].stage \in Before
      PROVE  request[q].stage \in Before
  BY <1>0, <1>1, BackwardStep DEF Base, Before
<1>2. CASE messages' = messages
  <2>1. ASSUME NEW q \in Requests
        PROVE  /\ request'[q].stage \in Before => ~Written(q)'
               /\ request'[q].stage \in {"agent", "offer", "reply"} =>
                    NoReplyYet(q)' /\ \E j \in DOMAIN messages' : UserMessage(q, j)'
    <3>1. request'[q].stage \in Before => ~Written(q)'
      BY <1>1, <1>2 DEF RepliesInv, Written
    <3>2. ASSUME request'[q].stage \in {"agent", "offer", "reply"}
          PROVE  NoReplyYet(q)' /\ \E j \in DOMAIN messages' : UserMessage(q, j)'
      <4>1. ~Stores(q)
        BY <1>0, <1>2, Appended DEF Stores
      <4>2. request[q].stage \in {"agent", "offer", "reply"}
        BY <1>0, <3>2, <4>1, PostingStep
      <4>3. request'[q].conv = request[q].conv
        BY <1>0, <4>2, Frame DEF Arrived, Went, Same, Proposed
      <4> QED BY <1>2, <4>2, <4>3 DEF RepliesInv, NoReplyYet, UserMessage
    <3> QED BY <3>1, <3>2
  <2>2. RepliesFollow'
    BY <1>2 DEF RepliesInv, RepliesFollow
  <2> QED BY <2>1, <2>2 DEF RepliesInv
<1>3. ASSUME NEW r \in Requests, Stores(r), persistUserMessage(r) PROVE RepliesInv'
  <2>0. PICK last \in Nat :
        /\ last = Len(messages) + 1
        /\ DOMAIN messages' = DOMAIN messages \cup {last} /\ last \notin DOMAIN messages
        /\ \A i \in DOMAIN messages : messages'[i] = messages[i] /\ i < last
        /\ messages'[last].by = r /\ messages'[last].role = "user"
        /\ messages'[last].conv = request[r].conv
        /\ \A q \in Requests : Written(q)' <=> Written(q) \/ q = r
    <3> DEFINE n == Len(messages)
    <3>1. /\ DOMAIN messages' = DOMAIN messages \cup {n + 1} /\ n + 1 \notin DOMAIN messages
          /\ \A i \in DOMAIN messages : messages'[i] = messages[i] /\ i \in 1 .. n
          /\ messages'[n + 1] = Message(r, "user") /\ n \in Nat
          /\ \A q \in Requests : Written(q)' <=> Written(q) \/ q = r
      BY <1>0, <1>3, Appended DEF Stores
    <3> HIDE DEF n
    <3>2. /\ Message(r, "user").by = r /\ Message(r, "user").role = "user"
          /\ Message(r, "user").conv = request[r].conv
      BY DEF Message
    <3>3. n + 1 \in Nat /\ \A i \in 1 .. n : i < n + 1
      BY <3>1
    <3> QED BY <3>1, <3>2, <3>3 DEF n
  <2>1. ~Written(r) /\ request[r].stage = "store"
    BY <1>3 DEF Stores, RepliesInv, Before
  <2>2. request'[r].stage \in {"agent", "ended"}
    <3>1. Goto(r, "agent") \/ End(r, "error")
      BY <1>3 DEF persistUserMessage
    <3> QED BY <1>0, <3>1, GotoEffect, EndEffect
  <2>3. request'[r].conv = request[r].conv
    BY <1>0, <2>1, Frame DEF Arrived, Went, Same, Proposed
  <2>4. ASSUME NEW q \in Requests
        PROVE  /\ request'[q].stage \in Before => ~Written(q)'
               /\ request'[q].stage \in {"agent", "offer", "reply"} =>
                    NoReplyYet(q)' /\ \E j \in DOMAIN messages' : UserMessage(q, j)'
    <3>1. CASE q = r
      <4>1. NoReplyYet(r)'
        BY <2>0, <2>1 DEF NoReplyYet, Written
      <4>2. UserMessage(r, last)'
        BY <2>0, <2>3 DEF UserMessage
      <4> QED BY <2>0, <2>2, <3>1, <4>1, <4>2 DEF Before
    <3>2. CASE q # r
      <4>1. request'[q].stage \in Before => ~Written(q)'
        BY <1>1, <2>0, <3>2 DEF RepliesInv
      <4>2. ASSUME request'[q].stage \in {"agent", "offer", "reply"}
            PROVE  NoReplyYet(q)' /\ \E j \in DOMAIN messages' : UserMessage(q, j)'
        <5>1. request[q].stage \in {"agent", "offer", "reply"}
          <6>1. Stores(q) => FALSE
            <7>1. Stores(q) => messages'[last].by = q
              BY <1>0, <2>0, Appended DEF Stores, Message
            <7> QED BY <2>0, <3>2, <7>1
          <6> QED BY <1>0, <4>2, <6>1, PostingStep
        <5>2. request'[q].conv = request[q].conv
          BY <1>0, <5>1, Frame DEF Arrived, Went, Same, Proposed
        <5>3. NoReplyYet(q) /\ \E j \in DOMAIN messages : UserMessage(q, j)
          BY <5>1 DEF RepliesInv
        <5>4. NoReplyYet(q)'
          BY <2>0, <5>3 DEF NoReplyYet
        <5> QED BY <2>0, <5>2, <5>3, <5>4 DEF UserMessage
      <4> QED BY <4>1, <4>2
    <3> QED BY <3>1, <3>2
  <2>5. RepliesFollow'
    <3> SUFFICES ASSUME NEW i \in DOMAIN messages', messages'[i].role = "assistant"
                 PROVE  /\ \E j \in 1 .. i : /\ messages'[j].by = messages'[i].by
                                             /\ messages'[j].role = "user"
                                             /\ messages'[j].conv = messages'[i].conv
                        /\ \A j \in DOMAIN messages' : j # i /\ messages'[j].by = messages'[i].by
                                                         => messages'[j].role = "user"
      BY DEF RepliesFollow
    <3>1. i \in DOMAIN messages /\ messages'[i] = messages[i]
      BY <2>0
    <3>2. \A j \in 1 .. i : j \in DOMAIN messages
      BY <3>1 DEF Base, TypeOK
    <3>3. PICK j \in 1 .. i : /\ messages[j].by = messages[i].by /\ messages[j].role = "user"
                              /\ messages[j].conv = messages[i].conv
      BY <3>1 DEF RepliesInv, RepliesFollow
    <3>4. \A k \in DOMAIN messages : k # i /\ messages[k].by = messages[i].by
                                       => messages[k].role = "user"
      BY <3>1 DEF RepliesInv, RepliesFollow
    <3> QED BY <2>0, <3>1, <3>2, <3>3, <3>4
  <2> QED BY <2>4, <2>5 DEF RepliesInv
<1>4. ASSUME NEW r \in Requests, Replies(r), persistAssistantMessage(r) PROVE RepliesInv'
  <2>0. PICK last \in Nat :
        /\ last = Len(messages) + 1
        /\ DOMAIN messages' = DOMAIN messages \cup {last} /\ last \notin DOMAIN messages
        /\ \A i \in DOMAIN messages : messages'[i] = messages[i] /\ i \in 1 .. last
        /\ messages'[last].by = r /\ messages'[last].role = "assistant"
        /\ messages'[last].conv = request[r].conv
        /\ \A q \in Requests : Written(q)' <=> Written(q) \/ q = r
    <3> DEFINE n == Len(messages)
    <3>1. /\ DOMAIN messages' = DOMAIN messages \cup {n + 1} /\ n + 1 \notin DOMAIN messages
          /\ \A i \in DOMAIN messages : messages'[i] = messages[i] /\ i \in 1 .. n
          /\ messages'[n + 1] = Message(r, "assistant") /\ n \in Nat
          /\ \A q \in Requests : Written(q)' <=> Written(q) \/ q = r
      BY <1>0, <1>4, Appended DEF Replies
    <3> HIDE DEF n
    <3>2. /\ Message(r, "assistant").by = r /\ Message(r, "assistant").role = "assistant"
          /\ Message(r, "assistant").conv = request[r].conv
      BY DEF Message
    <3>3. n + 1 \in Nat /\ \A i \in 1 .. n : i \in 1 .. n + 1
      BY <3>1
    <3> QED BY <3>1, <3>2, <3>3 DEF n
  <2>1. request[r].stage = "reply"
    BY <1>4 DEF Replies
  <2>2. request'[r].stage = "ended"
    BY <1>0, <1>4, EndEffect DEF persistAssistantMessage
  <2>3. NoReplyYet(r) /\ \E j \in DOMAIN messages : UserMessage(r, j)
    BY <2>1 DEF RepliesInv
  <2>4. ASSUME NEW q \in Requests
        PROVE  /\ request'[q].stage \in Before => ~Written(q)'
               /\ request'[q].stage \in {"agent", "offer", "reply"} =>
                    NoReplyYet(q)' /\ \E j \in DOMAIN messages' : UserMessage(q, j)'
    <3>1. CASE q = r
      BY <2>2, <3>1 DEF Before
    <3>2. CASE q # r
      <4>1. request'[q].stage \in Before => ~Written(q)'
        BY <1>1, <2>0, <3>2 DEF RepliesInv
      <4>2. ASSUME request'[q].stage \in {"agent", "offer", "reply"}
            PROVE  NoReplyYet(q)' /\ \E j \in DOMAIN messages' : UserMessage(q, j)'
        <5>1. request[q].stage \in {"agent", "offer", "reply"}
          <6>1. Stores(q) => messages'[last].by = q
            BY <1>0, <2>0, Appended DEF Stores, Message
          <6> QED BY <1>0, <2>0, <3>2, <4>2, <6>1, PostingStep
        <5>2. request'[q].conv = request[q].conv
          BY <1>0, <5>1, Frame DEF Arrived, Went, Same, Proposed
        <5>3. NoReplyYet(q) /\ \E j \in DOMAIN messages : UserMessage(q, j)
          BY <5>1 DEF RepliesInv
        <5>4. NoReplyYet(q)'
          BY <2>0, <3>2, <5>3 DEF NoReplyYet
        <5> QED BY <2>0, <5>2, <5>3, <5>4 DEF UserMessage
      <4> QED BY <4>1, <4>2
    <3> QED BY <3>1, <3>2
  <2>5. RepliesFollow'
    <3> SUFFICES ASSUME NEW i \in DOMAIN messages', messages'[i].role = "assistant"
                 PROVE  /\ \E j \in 1 .. i : /\ messages'[j].by = messages'[i].by
                                             /\ messages'[j].role = "user"
                                             /\ messages'[j].conv = messages'[i].conv
                        /\ \A j \in DOMAIN messages' : j # i /\ messages'[j].by = messages'[i].by
                                                         => messages'[j].role = "user"
      BY DEF RepliesFollow
    <3>1. CASE i = last
      <4>1. PICK j \in DOMAIN messages : UserMessage(r, j)
        BY <2>3
      <4>2. j \in 1 .. last /\ messages'[j].by = r /\ messages'[j].role = "user"
            /\ messages'[j].conv = request[r].conv
        BY <2>0, <4>1 DEF UserMessage
      <4> QED BY <2>0, <2>3, <3>1, <4>2 DEF NoReplyYet
    <3>2. CASE i # last
      <4>1. i \in DOMAIN messages /\ messages'[i] = messages[i]
        BY <2>0, <3>2
      <4>2. messages[i].by # r
        BY <2>3, <4>1 DEF NoReplyYet
      <4>3. \A j \in 1 .. i : j \in DOMAIN messages
        BY <4>1 DEF Base, TypeOK
      <4>4. PICK j \in 1 .. i : /\ messages[j].by = messages[i].by /\ messages[j].role = "user"
                                /\ messages[j].conv = messages[i].conv
        BY <4>1 DEF RepliesInv, RepliesFollow
      <4>5. \A k \in DOMAIN messages : k # i /\ messages[k].by = messages[i].by
                                         => messages[k].role = "user"
        BY <4>1 DEF RepliesInv, RepliesFollow
      <4> QED BY <2>0, <4>1, <4>2, <4>3, <4>4, <4>5
    <3> QED BY <3>1, <3>2
  <2> QED BY <2>4, <2>5 DEF RepliesInv
<1> QED BY <1>2, <1>3, <1>4, MessageCases

\* A conversation can be read as one.
THEOREM RepliesStand == Spec => []RepliesFollow
<1>1. Init => Base /\ RepliesInv
  <2> SUFFICES ASSUME Init PROVE RepliesInv
    BY BaseInit
  <2>1. DOMAIN messages = {}
    BY DEF Init
  <2>2. \A r \in Requests : request[r].stage = "idle"
    BY DEF Init, Idle
  <2> QED BY <2>1, <2>2 DEF RepliesInv, RepliesFollow, Written, Before
<1>2. Base /\ RepliesInv /\ [Next]_vars => (Base /\ RepliesInv)'
  BY BaseStep, RepliesStep
<1>3. RepliesInv => RepliesFollow
  BY DEF RepliesInv
<1>4. QED
  BY <1>1, <1>2, <1>3, PTL DEF Spec

-----------------------------------------------------------------------------
(* OwnProposalOffered: the proposals of a message are made before its reply  *)
(* is put together, and the newest of them that waits is found then.         *)

\* The answer to r has its proposal a, or one it made later.
OwnNewer(r, a) == request[r].offered \in {b \in Correlated(r) : a <= b}

ProposalInv ==
  /\ \A a \in DOMAIN actions : actions[a].by \in Requests =>
       /\ request[actions[a].by].proposed
       /\ request[actions[a].by].conv = actions[a].conv
       /\ request[actions[a].by].stage \notin Before
  /\ faults = 0 => \A r \in Requests : \A a \in DOMAIN actions :
       /\ request[r].stage = "reply" \/ Answered(r, "post")
       /\ actions[a].by = r /\ actions[a].correlated /\ actions[a].status = "pending"
       => OwnNewer(r, a)

\* Only a request that was about to reply is answered.
LEMMA AnsweredFromReply ==
    ASSUME Base, [Next]_vars, NEW q \in Requests, Answered(q, "post")', ~Answered(q, "post")
    PROVE  request[q].stage = "reply" /\ request'[q].offered = request[q].offered
<1>0. TypeOK /\ request[q] \in Request
  BY DEF Base, TypeOK
<1>1. request'[q].stage = "ended" /\ request'[q].answer = "ok" /\ request'[q].op = "post"
  BY DEF Answered
<1>2. request[q].op = "post" /\ request[q].stage # "ended" /\ Went(q)
  BY <1>0, <1>1, Frame DEF Arrived, Went, Same, Proposed, Answered
<1>3. PICK r \in Requests : Handle(r)
  <2>1. ~Crash
    BY <1>0, <1>1, <1>2 DEF Crash, Running, Went, Request
  <2>2. ASSUME NEW p \in Requests, AgentProposes(p) PROVE FALSE
    BY <1>0, <1>1, <1>2, <2>2 DEF AgentProposes, TypeOK, Request
  <2>3. ASSUME NEW p \in Requests, Arrive(p) PROVE FALSE
    BY <1>0, <1>1, <1>2, <2>3 DEF Arrive, Idle, TypeOK
  <2>4. ~(WindowPasses \/ SettleAction \/ UNCHANGED vars)
    BY <1>1, <1>2 DEF WindowPasses, SettleAction, vars
  <2> QED BY <2>1, <2>2, <2>3, <2>4 DEF Next
<1>4. Handle(q)
  BY <1>0, <1>1, <1>2, <1>3, HandleCases DEF Moves, Ends, Offers, Goto, End, TypeOK
<1>5. \A stage : Goto(q, stage) => stage = "ended"
  BY <1>0, <1>1, GotoEffect
<1>6. \A answer : End(q, answer) => answer = "ok"
  BY <1>0, <1>1, EndEffect
<1>7. ~Offers(q)
  BY <1>0, <1>1 DEF Offers, TypeOK, Request
<1>8. ~RateIncr(q) /\ ~RateExpire(q) /\ ~Unauthorized(q)
  <2>1. RateIncr(q) \/ RateExpire(q) \/ Unauthorized(q) =>
          Goto(q, "auth") \/ Goto(q, "expire") \/ End(q, "too many") \/ End(q, "unauthorized")
    BY DEF RateIncr, RateExpire, Unauthorized
  <2> QED BY <2>1, <1>5, <1>6
<1>9. ~handleCreateConversation(q) /\ ~handleDeleteConversation(q)
  BY <1>2 DEF handleCreateConversation, handleDeleteConversation, Base, StageOp, At
<1>10. ~LookupConversation(q)
  <2> DEFINE found == getConversationForUser(request[q].user, request[q].conv)
  <2>1. LookupConversation(q) =>
          End(q, "not found") \/ (found # "ok" /\ End(q, found)) \/ Goto(q, "store")
    BY <1>2 DEF LookupConversation
  <2> HIDE DEF found
  <2>2. ~End(q, "not found") /\ ~Goto(q, "store") /\ (End(q, found) => found = "ok")
    BY <1>5, <1>6
  <2> QED BY <2>1, <2>2
<1>11. ~persistUserMessage(q) /\ ~forwardToAgent(q) /\ ~OfferAction(q)
  <2>1. persistUserMessage(q) => Goto(q, "agent") \/ End(q, "error")
    BY DEF persistUserMessage
  <2>2. forwardToAgent(q) => Goto(q, "offer") \/ End(q, "agent error")
    BY DEF forwardToAgent
  <2>3. OfferAction(q) => Goto(q, "reply") \/ Offers(q)
    BY <1>0, OfferedNat DEF OfferAction, Offers
  <2> QED BY <2>1, <2>2, <2>3, <1>5, <1>6, <1>7
<1>12. persistAssistantMessage(q)
  BY <1>4, <1>8, <1>9, <1>10, <1>11 DEF Handle
<1> QED BY <1>0, <1>12, EndEffect DEF persistAssistantMessage

\* Without a fault the reply carries what parseProposedAction found.
LEMMA ReplyOffers ==
    ASSUME Base, [Next]_vars, NEW q \in Requests, request'[q].stage = "reply",
           request[q].stage # "reply", faults' = 0
    PROVE  /\ request'[q].offered = parseProposedAction(q) /\ actions' = actions
           /\ request[q].stage = "offer"
<1>0. TypeOK /\ request[q] \in Request /\ faults \in Nat /\ faults = 0
  BY CounterStep, GateAssumption DEF Base, TypeOK
<1>1. PICK r \in Requests : Handle(r)
  <2>1. ~Crash
    BY <1>0 DEF Crash
  <2>2. ASSUME NEW p \in Requests, AgentProposes(p) PROVE FALSE
    BY <1>0, <2>2 DEF AgentProposes, TypeOK, Request
  <2>3. ASSUME NEW p \in Requests, Arrive(p) PROVE FALSE
    BY <1>0, <2>3 DEF Arrive, Idle, TypeOK
  <2>4. ~(WindowPasses \/ SettleAction \/ UNCHANGED vars)
    BY DEF WindowPasses, SettleAction, vars
  <2> QED BY <2>1, <2>2, <2>3, <2>4 DEF Next
<1>2. Handle(q)
  BY <1>0, <1>1, HandleCases DEF Moves, Ends, Offers, Goto, End, TypeOK
<1>3. \A stage : Goto(q, stage) => stage = "reply"
  BY <1>0, GotoEffect
<1>4. \A answer : ~End(q, answer)
  BY <1>0, EndEffect
<1>5. ~RateIncr(q) /\ ~RateExpire(q) /\ ~Unauthorized(q)
  <2>1. RateIncr(q) \/ RateExpire(q) \/ Unauthorized(q) =>
          Goto(q, "auth") \/ Goto(q, "expire") \/ End(q, "too many") \/ End(q, "unauthorized")
    BY DEF RateIncr, RateExpire, Unauthorized
  <2> QED BY <2>1, <1>3, <1>4
<1>6. ~handleCreateConversation(q) /\ ~handleDeleteConversation(q) /\ ~persistAssistantMessage(q)
  BY <1>4 DEF handleCreateConversation, handleDeleteConversation, persistAssistantMessage
<1>7. ~LookupConversation(q)
  <2>1. LookupConversation(q) =>
          (\E answer : End(q, answer)) \/ Goto(q, "store") \/ Goto(q, "delete")
    BY DEF LookupConversation
  <2> QED BY <2>1, <1>3, <1>4
<1>8. ~persistUserMessage(q) /\ ~forwardToAgent(q)
  <2>1. persistUserMessage(q) => Goto(q, "agent") \/ End(q, "error")
    BY DEF persistUserMessage
  <2>2. forwardToAgent(q) => Goto(q, "offer") \/ End(q, "agent error")
    BY DEF forwardToAgent
  <2> QED BY <2>1, <2>2, <1>3, <1>4
<1>9. OfferAction(q)
  BY <1>2, <1>5, <1>6, <1>7, <1>8 DEF Handle
<1>10. request' = [request EXCEPT ![q].stage = "reply", ![q].offered = parseProposedAction(q)]
  BY <1>0, <1>9 DEF OfferAction
<1> QED BY <1>0, <1>9, <1>10 DEF OfferAction, TypeOK, Request

LEMMA StaysAtReply ==
    ASSUME TypeOK, [Next]_vars, NEW q \in Requests,
           request[q].stage = "reply", request'[q].stage = "reply"
    PROVE  request'[q].offered = request[q].offered
<1>0. request[q] \in Request
  BY DEF TypeOK
<1>1. ASSUME NEW r \in Requests, Handle(r) PROVE request'[q] = request[q]
  <2>1. CASE r # q
    BY <1>1, <2>1, HandleCases DEF Moves, Ends, Offers, Goto, End, TypeOK
  <2>2. CASE r = q
    <3>1. persistAssistantMessage(q)
      BY <1>1, <2>2 DEF Handle, RateIncr, RateExpire, Unauthorized, LookupConversation, At,
         handleCreateConversation, handleDeleteConversation, persistUserMessage,
         forwardToAgent, OfferAction
    <3> QED BY <3>1, EndEffect DEF persistAssistantMessage
  <2> QED BY <2>1, <2>2
<1>2. ASSUME NEW r \in Requests, AgentProposes(r) PROVE request'[q].offered = request[q].offered
  BY <1>0, <1>2 DEF AgentProposes, TypeOK, Request
<1>3. ASSUME NEW r \in Requests, Arrive(r) PROVE request'[q] = request[q]
  BY <1>3 DEF Arrive, TypeOK
<1>4. ~Crash
  BY <1>0 DEF Crash, Running, Request
<1>5. WindowPasses \/ SettleAction \/ UNCHANGED vars => request'[q] = request[q]
  BY DEF WindowPasses, SettleAction, vars
<1> QED BY <1>1, <1>2, <1>3, <1>4, <1>5 DEF Next

LEMMA ProposalStep ==
    ASSUME Base, ProposalInv, [Next]_vars
    PROVE  ProposalInv'
<1>0. /\ TypeOK /\ faults \in Nat /\ faults' \in Nat /\ faults' >= faults
      /\ actions \in Seq(ActionRow) /\ \A a \in DOMAIN actions : a \in 1 .. Len(actions)
  BY CounterStep, GateAssumption DEF Base, TypeOK
<1> DEFINE New(a) == a \in DOMAIN actions' /\ a \notin DOMAIN actions
<1>1. ASSUME NEW a, New(a)
      PROVE  /\ actions'[a].by \in Requests /\ AgentProposes(actions'[a].by)
             /\ actions'[a].conv = request[actions'[a].by].conv
             /\ \A b : New(b) => b = a
  <2>1. actions' = actions \/ SettleAction \/ \E r \in Requests : AgentProposes(r)
    BY DEF Next, vars, Handle, Arrive, RateIncr, RateExpire, Unauthorized,
           LookupConversation, persistUserMessage, forwardToAgent, OfferAction,
           persistAssistantMessage, WindowPasses, Crash,
           handleCreateConversation, handleDeleteConversation
  <2>2. actions' # actions /\ ~SettleAction
    BY <1>1 DEF SettleAction
  <2>3. PICK r \in Requests : AgentProposes(r)
    BY <2>1, <2>2
  <2>4. PICK row \in ActionRow : actions' = Append(actions, row) /\ row.by = r /\ row.conv = request[r].conv
    <3>1. PICK correlated \in BOOLEAN :
            actions' = Append(actions, [by |-> r, conv |-> request[r].conv,
                                        correlated |-> correlated, status |-> "pending"])
      BY <2>3 DEF AgentProposes
    <3>2. [by |-> r, conv |-> request[r].conv, correlated |-> correlated, status |-> "pending"] \in ActionRow
      BY <1>0 DEF ActionRow, TypeOK, Request
    <3> QED BY <3>1, <3>2
  <2>5. a = Len(actions) + 1 /\ actions'[a] = row /\ \A b : New(b) => b = a
    BY <1>0, <1>1, <2>4, AppendProperties, LenProperties
  <2> QED BY <2>3, <2>4, <2>5
<1>2. ASSUME NEW a \in DOMAIN actions
      PROVE  /\ a \in DOMAIN actions' /\ actions'[a].by = actions[a].by
             /\ actions'[a].conv = actions[a].conv /\ actions'[a].correlated = actions[a].correlated
             /\ actions'[a].status = "pending" => actions[a].status = "pending"
  BY <1>0, ActionsKept
<1> HIDE DEF New
<1>3. \A a \in DOMAIN actions' : a \in DOMAIN actions \/ New(a)
  BY DEF New
<1>4. ASSUME NEW r \in Requests, NEW a \in DOMAIN actions, OwnNewer(r, a),
             request'[r].offered = request[r].offered
      PROVE  OwnNewer(r, a)'
  BY <1>2, <1>4 DEF OwnNewer, Correlated, ProposedFor
<1>5. ASSUME NEW a \in DOMAIN actions', actions'[a].by \in Requests
      PROVE  /\ request'[actions'[a].by].proposed
             /\ request'[actions'[a].by].conv = actions'[a].conv
             /\ request'[actions'[a].by].stage \notin Before
  <2> DEFINE r == actions'[a].by
  <2>1. request[r].stage \notin Before
    <3>1. CASE New(a)
      BY <1>1, <3>1 DEF AgentProposes, At, Before
    <3>2. CASE a \in DOMAIN actions
      BY <1>2, <1>5, <3>2 DEF ProposalInv
    <3> QED BY <1>3, <3>1, <3>2
  <2>2. request'[r].stage \notin Before
    BY <1>5, <2>1, BackwardStep
  <2>3. CASE New(a)
    <3>1. /\ request' = [request EXCEPT ![r].proposed = TRUE]
          /\ r \in Requests /\ request[r] \in Request
      BY <1>0, <1>1, <2>3 DEF AgentProposes, TypeOK
    <3>2. PICK q \in Requests : q = r
      BY <3>1
    <3>3. request' = [request EXCEPT ![q].proposed = TRUE]
      BY <3>1, <3>2
    <3>4. request'[q].proposed /\ request'[q].conv = request[q].conv
      BY <1>0, <3>3 DEF TypeOK, Request
    <3> QED BY <1>1, <2>2, <2>3, <3>2, <3>4
  <2>4. CASE a \in DOMAIN actions
    <3>1. request[r].proposed /\ request[r].conv = actions'[a].conv
      BY <1>2, <1>5, <2>4 DEF ProposalInv
    <3>2. request'[r].proposed /\ request'[r].conv = request[r].conv
      BY <1>0, <1>5, <2>1, <3>1, Frame DEF Arrived, Went, Same, Proposed, Before
    <3> QED BY <2>2, <3>1, <3>2
  <2> QED BY <1>3, <2>3, <2>4
<1>7. ASSUME NEW r \in Requests, NEW a \in DOMAIN actions', faults' = 0,
             request'[r].stage = "reply" \/ Answered(r, "post")',
             actions'[a].by = r, actions'[a].correlated, actions'[a].status = "pending"
      PROVE  OwnNewer(r, a)'
  <2>1. CASE request'[r].stage = "reply" /\ request[r].stage # "reply"
    <3>1. request'[r].offered = parseProposedAction(r) /\ actions' = actions
      BY <1>7, <2>1, ReplyOffers
    <3>2. actions[a].conv = request[r].conv
      BY <1>7, <3>1 DEF ProposalInv
    <3> DEFINE own == {b \in PendingIn(request[r].conv) : actions[b].by = r /\ actions[b].correlated}
    <3>3. a \in own
      BY <1>7, <3>1, <3>2 DEF PendingIn
    <3>4. Max(own) \in own /\ Max(own) >= a
      <4>1. own \subseteq 1 .. Len(actions) /\ Len(actions) \in Nat
        BY <1>0 DEF PendingIn
      <4> QED BY <3>3, <4>1, MaxIn
    <3>5. parseProposedAction(r) = Max(own)
      BY <3>3 DEF parseProposedAction
    <3>6. Max(own) \in Correlated(r) /\ a <= Max(own)
      <4>1. own \subseteq Correlated(r) /\ own \subseteq Nat /\ a \in Nat
        BY <1>0, <3>1 DEF PendingIn, Correlated, ProposedFor
      <4> QED BY <3>4, <4>1
    <3>7. Correlated(r)' = Correlated(r)
      BY <3>1 DEF Correlated, ProposedFor
    <3> HIDE DEF own
    <3> QED BY <3>1, <3>5, <3>6, <3>7 DEF OwnNewer
  <2>2. CASE request[r].stage = "reply" \/ Answered(r, "post")
    <3>1. ~AgentProposes(r)
      BY <2>2 DEF AgentProposes, At, Answered
    <3>2. a \in DOMAIN actions
      BY <1>1, <1>3, <1>7, <3>1
    <3>3. OwnNewer(r, a)
      BY <1>0, <1>2, <1>7, <2>2, <3>2 DEF ProposalInv
    <3>4. request'[r].offered = request[r].offered
      <4>1. CASE Answered(r, "post")
        BY <1>0, <4>1, Frame DEF Arrived, Went, Proposed, Answered
      <4>2. CASE request[r].stage = "reply" /\ Answered(r, "post")'
        <5>1. ~Answered(r, "post")
          BY <4>2 DEF Answered
        <5> QED BY <4>2, <5>1, AnsweredFromReply
      <4>3. CASE request[r].stage = "reply" /\ request'[r].stage = "reply"
        BY <1>0, <3>1, <4>3, StaysAtReply
      <4> QED BY <1>7, <2>2, <4>1, <4>2, <4>3
    <3> QED BY <1>4, <3>2, <3>3, <3>4
  <2>3. CASE Answered(r, "post")' /\ ~Answered(r, "post")
    <3>1. request[r].stage = "reply"
      BY <2>3, AnsweredFromReply
    <3> QED BY <2>2, <3>1
  <2> QED BY <1>7, <2>1, <2>2, <2>3
<1> QED BY <1>5, <1>7 DEF ProposalInv

\* If nothing failed, a message with correlated proposals that still wait was
\* answered with one of its own correlated proposals, no older than any of those,
\* for any number of messages and of proposals of each.
THEOREM OwnIsOffered == Spec => []OwnProposalOffered
<1>1. Init => Base /\ ProposalInv
  <2> SUFFICES ASSUME Init PROVE ProposalInv
    BY BaseInit
  <2>1. \A a \in DOMAIN actions : actions[a].by = OldAuthor /\ a = 1
    BY DEF Init
  <2>2. \A r \in Requests : request[r].stage = "idle"
    BY DEF Init, Idle
  <2> QED BY <2>1, <2>2, GateAssumption DEF ProposalInv, Answered
<1>2. Base /\ ProposalInv /\ [Next]_vars => (Base /\ ProposalInv)'
  BY BaseStep, ProposalStep
<1>3. ProposalInv => OwnProposalOffered
  BY DEF ProposalInv, OwnProposalOffered, OwnNewer, Correlated, ProposedFor
<1>4. QED
  BY <1>1, <1>2, <1>3, PTL DEF Spec

=============================================================================
