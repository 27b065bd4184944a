----------------------------- MODULE Conversations -----------------------------
(***************************************************************************)
(* Conversations with the agent (internal/chat/handlers.go) behind the     *)
(* gateway (internal/gateway, pkg/middleware): a request passes the rate   *)
(* limiter and the check of its JWT, then creates, deletes, reads or       *)
(* writes a conversation.  A message is stored, forwarded to the agent,    *)
(* which may propose changes meanwhile, and answered with the agent's      *)
(* reply and an action.  What becomes of an action is PendingActions' part *)
(* and appears here as the one step SettleAction.                          *)
(*                                                                         *)
(* A conversation is named by the request that created it, a message is an *)
(* index in the order of created_at, and so is an action.                  *)
(***************************************************************************)
EXTENDS RateLimiter, Sequences, FiniteSetsExt

CONSTANTS
  Requests,
  Alice, Bob,
  OldTalk,       \* Alice's conversation at the start, with an open proposal
  OldAuthor,     \* the message that the proposal came from
  Absent, NoAction,
  RateLimit,     \* requests per window, 100 in the code
  MaxProposals,  \* calls of CalendarService per message, a bound
  MaxFaults      \* failed calls of a database and crashes

ASSUME GateAssumption ==
  /\ RateLimit \in Nat \ {0} /\ MaxProposals \in Nat /\ MaxFaults \in Nat
  /\ {OldTalk, OldAuthor} \cap Requests = {}
  /\ Absent \notin [owner : {Alice, Bob}, status : {"active", "deleted"}] /\ NoAction \notin Nat

VARIABLES
  conversations, messages, actions,   \* the collections of MongoDB
  counter,       \* Redis: the requests of the connection in its window
  admitted,      \* those of them that got past the limit
  request,       \* per request, where its handler is and what it has read
  faults

vars == <<conversations, messages, actions, counter, admitted, request, faults>>

Users == {Alice, Bob}
Talks == Requests \cup {OldTalk}
Ops   == {"create", "delete", "post", "get"}

Idle == [op |-> "none", stage |-> "idle", user |-> Alice, conv |-> OldTalk, proposed |-> FALSE,
         offered |-> NoAction, answer |-> "none", saw |-> {}]

Init ==
  /\ conversations = [c \in Talks |-> IF c = OldTalk THEN [owner |-> Alice, status |-> "active"]
                                      ELSE Absent]
  /\ messages = << >>
  /\ actions = << [by |-> OldAuthor, conv |-> OldTalk, correlated |-> TRUE, status |-> "pending"] >>
  /\ counter = NoKey /\ admitted = 0
  /\ request = [r \in Requests |-> Idle]
  /\ faults = 0

-----------------------------------------------------------------------------

Ended   == {r \in Requests : request[r].stage = "ended"}
Running == {r \in Requests : request[r].stage \notin {"idle", "ended"}}
At(r, op, stage) == request[r].op = op /\ request[r].stage = stage

Goto(r, stage) == request' = [request EXCEPT ![r].stage = stage]
End(r, answer) == request' = [request EXCEPT ![r].stage = "ended", ![r].answer = answer]

\* A call is done; or it fails and has changed nothing; or its reply is lost.
Outcomes == {"done"} \cup IF faults < MaxFaults THEN {"refused", "lost"} ELSE {}
Spend(outcome) == faults' = IF outcome = "done" THEN faults ELSE faults + 1
Result(outcome, before, after) == IF outcome = "refused" THEN before ELSE after

\* The id of a conversation is known once it is stored.  The requests come over
\* one connection, whose address is the key of the counter, as through a proxy.
Arrive(r) ==
  /\ request[r].stage = "idle"
  /\ \E op \in Ops, user \in Users, conv \in {c \in Talks : conversations[c] # Absent} :
       /\ op = "create" => conv = OldTalk
       /\ request' = [request EXCEPT ![r] =
            [Idle EXCEPT !.op = op, !.stage = "gate", !.user = user, !.conv = conv, !.saw = Ended]]
  /\ UNCHANGED <<conversations, messages, actions, counter, admitted, faults>>

-----------------------------------------------------------------------------
(* RateLimiter.Middleware and AuthMiddleware.Middleware *)

\* When Redis fails the request is let through.
RateIncr(r) ==
  /\ request[r].stage = "gate"
  /\ LET count == counter.n + 1 IN \E outcome \in Outcomes :
       /\ counter' = Result(outcome, counter, Incr(counter))
       /\ IF outcome # "done" THEN Goto(r, "auth") /\ UNCHANGED admitted
          ELSE IF FirstOfWindow(count) \/ WithinLimit(count, RateLimit)
          THEN /\ Goto(r, IF FirstOfWindow(count) THEN "expire" ELSE "auth")
               /\ admitted' = admitted + 1
          ELSE End(r, "too many") /\ UNCHANGED admitted
       /\ Spend(outcome)
  /\ UNCHANGED <<conversations, messages, actions>>

\* The error of EXPIRE is not looked at.
RateExpire(r) ==
  /\ request[r].stage = "expire"
  /\ \E outcome \in Outcomes :
       /\ counter' = Result(outcome, counter, Expire(counter))
       /\ Spend(outcome)
  /\ Goto(r, "auth")
  /\ UNCHANGED <<conversations, messages, actions, admitted>>

\* The JWT may be missing, forged or too old; otherwise the handler begins.
Unauthorized(r) ==
  /\ request[r].stage = "auth"
  /\ End(r, "unauthorized")
  /\ UNCHANGED <<conversations, messages, actions, counter, admitted, faults>>

-----------------------------------------------------------------------------
(* Conversations *)

handleCreateConversation(r) ==
  /\ At(r, "create", "auth")
  /\ \E outcome \in Outcomes :
       /\ conversations' = Result(outcome, conversations, [conversations EXCEPT
            ![r] = [owner |-> request[r].user, status |-> "active"]])
       /\ End(r, IF outcome = "done" THEN "ok" ELSE "error")
       /\ Spend(outcome)
  /\ UNCHANGED <<messages, actions, counter, admitted>>

\* Mutant: a deleted conversation is found.
FoundThoughDeleted(user, conv) ==
  IF conversations[conv].owner # user THEN "forbidden" ELSE "ok"

getConversationForUser(user, conv) ==
  CASE conversations[conv].owner # user -> "forbidden"
    [] conversations[conv].owner = user /\ conversations[conv].status = "deleted" -> "not found"
    [] OTHER -> "ok"

\* The first step of three handlers; a failed read counts as not found.  The
\* messages and actions of handleGetConversation are read next, and that they
\* could not be is logged only.
LookupConversation(r) ==
  /\ request[r].stage = "auth" /\ request[r].op # "create"
  /\ LET found == getConversationForUser(request[r].user, request[r].conv) IN
     \/ /\ \/ found # "ok" /\ End(r, found)
           \/ found = "ok" /\ request[r].op = "get" /\ End(r, "ok")
           \/ found = "ok" /\ request[r].op = "delete" /\ Goto(r, "delete")
           \/ found = "ok" /\ request[r].op = "post" /\ Goto(r, "store")
        /\ UNCHANGED faults
     \/ faults < MaxFaults /\ End(r, "not found") /\ faults' = faults + 1
  /\ UNCHANGED <<conversations, messages, actions, counter, admitted>>


handleDeleteConversation(r) ==
  /\ request[r].stage = "delete"
  /\ \E outcome \in Outcomes :
       /\ conversations' = Result(outcome, conversations,
                                  [conversations EXCEPT ![request[r].conv].status = "deleted"])
       /\ End(r, IF outcome = "done" THEN "ok" ELSE "error")
       /\ Spend(outcome)
  /\ UNCHANGED <<messages, actions, counter, admitted>>

-----------------------------------------------------------------------------
(* handlePostMessage *)

Message(r, role) == [conv |-> request[r].conv, role |-> role, by |-> r]


persistUserMessage(r) ==
  /\ request[r].stage = "store"
  /\ \E outcome \in Outcomes :
       /\ messages' = Result(outcome, messages, Append(messages, Message(r, "user")))
       /\ IF outcome = "done" THEN Goto(r, "agent") ELSE End(r, "error")
       /\ Spend(outcome)
  /\ UNCHANGED <<conversations, actions, counter, admitted>>

\* The actions that the calls of CalendarService for one message became.
ProposedFor(r) == {a \in DOMAIN actions : actions[a].by = r}

\* The agent works on the message: each of its calls of CalendarService that
\* changes something becomes a pending action (interceptMutatingOperation), under
\* the correlation id of the message if the agent passes it on.  Calls may come
\* after the handler has given up.
AgentProposes(r) ==
  /\ Cardinality(ProposedFor(r)) < MaxProposals
  /\ At(r, "post", "agent") \/ (At(r, "post", "ended") /\ request[r].answer = "agent error")
  /\ \E correlated \in BOOLEAN :
       actions' = Append(actions, [by |-> r, conv |-> request[r].conv, correlated |-> correlated,
                                   status |-> "pending"])
  /\ request' = [request EXCEPT ![r].proposed = TRUE]
  /\ UNCHANGED <<conversations, messages, counter, admitted, faults>>

\* ProcessMessage returns a reply; or an error, or nothing within agentRPCTimeout.
forwardToAgent(r) ==
  /\ At(r, "post", "agent")
  /\ Goto(r, "offer") \/ End(r, "agent error")
  /\ UNCHANGED <<conversations, messages, actions, counter, admitted, faults>>

PendingIn(conv) == {a \in DOMAIN actions : actions[a].conv = conv /\ actions[a].status = "pending"}

\* Mutant: the newest action, whoever it is for.
NewestOfAll(r) ==
  IF PendingIn(request[r].conv) = {} THEN NoAction ELSE Max(PendingIn(request[r].conv))

\* The newest pending action with the correlation id of the message; without one,
\* the newest pending action of the conversation.
parseProposedAction(r) ==
  LET pending == PendingIn(request[r].conv)
      own     == {a \in pending : actions[a].by = r /\ actions[a].correlated}
  IN IF own # {} THEN Max(own) ELSE IF pending # {} THEN Max(pending) ELSE NoAction

OfferAction(r) ==
  /\ request[r].stage = "offer"
  /\ \/ /\ request' = [request EXCEPT ![r].stage = "reply", ![r].offered = parseProposedAction(r)]
        /\ UNCHANGED faults
     \/ faults < MaxFaults /\ Goto(r, "reply") /\ faults' = faults + 1
  /\ UNCHANGED <<conversations, messages, actions, counter, admitted>>

\* A reply that could not be stored is sent all the same.
persistAssistantMessage(r) ==
  /\ request[r].stage = "reply"
  /\ \E outcome \in Outcomes :
       /\ messages' = Result(outcome, messages, Append(messages, Message(r, "assistant")))
       /\ Spend(outcome)
  /\ End(r, "ok")
  /\ UNCHANGED <<conversations, actions, counter, admitted>>

-----------------------------------------------------------------------------

\* The user confirms or cancels an action, or it expires.
SettleAction ==
  /\ \E a \in DOMAIN actions :
       actions[a].status = "pending" /\ actions' = [actions EXCEPT ![a].status = "settled"]
  /\ UNCHANGED <<conversations, messages, counter, admitted, request, faults>>

\* The time to live of a counter is over.
WindowPasses ==
  /\ counter.expires
  /\ counter' = NoKey /\ admitted' = 0
  /\ UNCHANGED <<conversations, messages, actions, request, faults>>

Crash ==
  /\ Running # {} /\ faults < MaxFaults
  /\ request' = [r \in Requests |-> IF r \in Running
                   THEN [request[r] EXCEPT !.stage = "ended", !.answer = "none"] ELSE request[r]]
  /\ faults' = faults + 1
  /\ UNCHANGED <<conversations, messages, actions, counter, admitted>>

Handle(r) ==
  \/ RateIncr(r) \/ RateExpire(r) \/ Unauthorized(r)
  \/ handleCreateConversation(r) \/ LookupConversation(r) \/ handleDeleteConversation(r)
  \/ persistUserMessage(r) \/ forwardToAgent(r) \/ OfferAction(r)
  \/ persistAssistantMessage(r)

Next ==
  \/ Crash \/ WindowPasses \/ SettleAction
  \/ \E r \in Requests : Arrive(r) \/ Handle(r) \/ AgentProposes(r)

Spec == Init /\ [][Next]_vars

-----------------------------------------------------------------------------
(* Properties *)

Conversation == [owner : Users, status : {"active", "deleted"}]
MessageRow == [conv : Talks, role : {"user", "assistant"}, by : Requests]
ActionRow == [by : Requests \cup {OldAuthor}, conv : Talks, correlated : BOOLEAN,
              status : {"pending", "settled"}]
Stages == {"idle", "gate", "expire", "auth", "delete", "store", "agent", "offer", "reply", "ended"}
Answers == {"none", "ok", "too many", "unauthorized", "forbidden", "not found", "agent error", "error"}
Request == [op : Ops \cup {"none"}, stage : Stages, user : Users, conv : Talks, proposed : BOOLEAN,
            offered : Nat \cup {NoAction}, answer : Answers, saw : SUBSET Requests]

TypeOK ==
  /\ conversations \in [Talks -> Conversation \cup {Absent}]
  /\ messages \in Seq(MessageRow)
  /\ actions \in Seq(ActionRow)
  /\ counter \in [n : Nat, expires : BOOLEAN]
  /\ admitted \in Nat
  /\ request \in [Requests -> Request]
  /\ faults \in 0 .. MaxFaults

Answered(r, op) == request[r].op = op /\ request[r].stage = "ended" /\ request[r].answer = "ok"

\* A conversation is its owner's: nobody else writes a message into it, reads or
\* deletes it, or is offered one of its actions, nor the owner one of another's.
OwnersOnly ==
  \A r \in Requests :
    LET owner == conversations[request[r].conv].owner IN
    /\ (\E i \in DOMAIN messages : messages[i].by = r) => request[r].user = owner
    /\ Answered(r, "get") \/ Answered(r, "delete") => request[r].user = owner
    /\ request[r].offered # NoAction => actions[request[r].offered].conv = request[r].conv

\* Once a deletion was answered, a request that comes after it finds nothing: no
\* message, proposal or answer of it is about the conversation.  Only a request
\* that had begun before may still add to it (handlePostMessage looks once).
DeletedIsGone ==
  \A d, r \in Requests :
    /\ Answered(d, "delete") /\ d \in request[r].saw
    /\ request[r].op # "create" /\ request[r].conv = request[d].conv
    => /\ request[r].answer # "ok" /\ ~request[r].proposed
       /\ \A i \in DOMAIN messages : messages[i].by # r

\* A conversation can be read as one: every reply stands after the message it
\* replies to, and no message has two replies, though messages overlap and any
\* store may fail.
RepliesFollow ==
  \A i \in DOMAIN messages : messages[i].role = "assistant" =>
    /\ \E j \in 1 .. i : /\ messages[j].by = messages[i].by /\ messages[j].role = "user"
                         /\ messages[j].conv = messages[i].conv
    /\ \A j \in DOMAIN messages : j # i /\ messages[j].by = messages[i].by
                                    => messages[j].role = "user"

\* A message with a proposal that still waits for the user was answered with a
\* proposal of its own, this one or one made later, whatever other messages of the
\* conversation propose meanwhile; that is, if the agent passed the correlation id
\* on and no read failed.  The earlier proposals of a message that led to several
\* are stored and wait, but are not in the answer (parseProposedAction).
Correlated(r) == {a \in ProposedFor(r) : actions[a].correlated}
OwnProposalOffered ==
  \A r \in Requests : \A a \in Correlated(r) :
    Answered(r, "post") /\ actions[a].status = "pending" /\ faults = 0
    => request[r].offered \in {b \in Correlated(r) : a <= b}

\* "If the interceptor created an action, include it in response": what is offered
\* as the proposal of a message is one.
OfferedIsOwn ==
  \A r \in Requests : request[r].offered # NoAction => actions[request[r].offered].by = r

\* In one window no more requests of a connection get past the limiter than it
\* allows, also when they are counted at once; those it let through because Redis
\* failed are not counted.
GateHolds == admitted <= RateLimit

\* A counter without a time to live, which would lock its connection out for good,
\* is about to get one, or a call failed.
LockedOutOnlyByFault ==
  counter.n > 0 /\ ~counter.expires =>
    \/ \E r \in Requests : request[r].stage = "expire"
    \/ faults > 0

\* The limit holds in each window, and a window comes to its end.
LimiterSound == GateHolds /\ LockedOutOnlyByFault
=============================================================================
