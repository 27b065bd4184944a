---------------------------- MODULE GoogleCalendar ----------------------------
(***************************************************************************)
(* The Google Calendar integration (internal/integration/google, and its   *)
(* handlers in internal/integration/service.go): the states of logins at   *)
(* Google that are under way and the tokens of connected users, both kept  *)
(* in memory only; and the synchronisation, which copies a user's events   *)
(* one by one from Google to the table events and back.                    *)
(*                                                                         *)
(* A state and an access token are named by the request that made them.    *)
(* An event is its owner, its title, the request that copied it and its    *)
(* place in the calendar it was copied of; one made here is titled by its  *)
(* owner.  The calendars only grow, so an event is an index; all lie in    *)
(* the window of every synchronisation.                                    *)
(***************************************************************************)
EXTENDS Naturals, Sequences, FiniteSetsExt

CONSTANTS
  Requests,
  Alice, Bob,
  OldToken,      \* Alice's access token at the start
  NoToken,
  OldCopy,       \* the author of an event that is no copy
  Untitled,      \* the empty summary
  PendingMax,    \* pendingAuthMaxSize, 1000 in the code
  MaxSyncs,      \* synchronisations
  MaxFaults      \* failed calls and crashes

ASSUME StoreAssumption ==
  /\ PendingMax \in Nat \ {0} /\ {MaxSyncs, MaxFaults} \subseteq Nat
  /\ {OldToken, NoToken, OldCopy} \cap Requests = {} /\ OldToken # NoToken
  /\ Alice # Bob /\ {Untitled, "meeting"} \cap {Alice, Bob} = {} /\ Untitled # "meeting"

VARIABLES
  pending,       \* pendingAuth: states, each with its user and whether it is too old
  tokens,        \* InMemoryTokenStore
  events,        \* the table events
  google,        \* per user, the primary calendar at Google
  request,       \* per request, where its handler is and what it has read
  faults

vars == <<pending, tokens, events, google, request, faults>>

Users == {Alice, Bob}
Tokens == Requests \cup {OldToken, NoToken}
Directions == {"from_google", "to_google", "bidirectional"}

Idle == [op |-> "none", stage |-> "idle", user |-> Alice, direction |-> "from_google",
         phase |-> "none", state |-> OldToken, todo |-> {},
         imported |-> 0, exported |-> 0, wrote |-> FALSE, answer |-> "none", saw |-> {}]

Init ==
  /\ pending = {}
  /\ tokens = [u \in Users |-> IF u = Alice THEN OldToken ELSE NoToken]
  /\ events = << [user |-> Alice, title |-> Alice, by |-> OldCopy, of |-> 0],
                 [user |-> Bob, title |-> Bob, by |-> OldCopy, of |-> 0] >>
  /\ google = [u \in Users |-> << [title |-> Untitled, by |-> OldCopy, of |-> 0],
                                  [title |-> "meeting", by |-> OldCopy, of |-> 0] >>]
  /\ request = [r \in Requests |-> Idle]
  /\ faults = 0

-----------------------------------------------------------------------------

Ended == {r \in Requests : request[r].stage = "ended"}
Running == {r \in Requests : request[r].stage \notin {"idle", "ended"}}
At(r, op, stage) == request[r].op = op /\ request[r].stage = stage

Goto(r, stage) == request' = [request EXCEPT ![r].stage = stage]
End(r, answer) == request' = [request EXCEPT ![r].stage = "ended", ![r].answer = answer]

\* A call over the network is done; or it fails and has changed nothing; or its
\* reply is lost.
Outcomes == {"done"} \cup IF faults < MaxFaults THEN {"refused", "lost"} ELSE {}
Spend(outcome) == faults' = IF outcome = "done" THEN faults ELSE faults + 1

Arrive(r, req) ==
  /\ request[r].stage = "idle"
  /\ request' = [request EXCEPT ![r] = [req EXCEPT !.saw = Ended]]
  /\ UNCHANGED <<pending, tokens, events, google, faults>>

\* The direction that was left out is "from_google".
ArriveAuth(r) == \E u \in Users : Arrive(r, [Idle EXCEPT !.op = "auth", !.stage = "begun", !.user = u])
ArriveDisconnect(r) == Arrive(r, [Idle EXCEPT !.op = "disconnect", !.stage = "begun"])
ArriveSync(r) == \E d \in Directions :
  /\ Cardinality({q \in Requests : request[q].op = "sync"}) < MaxSyncs
  /\ Arrive(r, [Idle EXCEPT !.op = "sync", !.stage = "token", !.direction = d,
                            !.phase = IF d = "to_google" THEN "export" ELSE "import"])
ArriveStatus(r) == Arrive(r, [Idle EXCEPT !.op = "status", !.stage = "begun"])
ArriveWatch(r) == Arrive(r, [Idle EXCEPT !.op = "watch", !.stage = "token"])
\* Google sends the browser back with the state it was given; the user may load
\* the address again.
ArriveCallback(r) == \E a \in Ended :
  /\ request[a].op = "auth"
  /\ Arrive(r, [Idle EXCEPT !.op = "callback", !.stage = "begun", !.state = a])

-----------------------------------------------------------------------------
(* Connecting and disconnecting *)

\* Mutant: no state goes.
KeepAllPendingAuth(states) == states

cleanupExpiredPendingAuth(states) == {s \in states : ~s.old}

\* The state is added even when nothing could be cleaned up.
GetAuthURL(r) ==
  /\ At(r, "auth", "begun")
  /\ pending' = (IF Cardinality(pending) >= PendingMax
                 THEN cleanupExpiredPendingAuth(pending) ELSE pending)
                \cup {[state |-> r, user |-> request[r].user, old |-> FALSE]}
  /\ End(r, "ok")
  /\ UNCHANGED <<tokens, events, google, faults>>

\* Mutant: the state stays.
PeekState(r) ==
  /\ At(r, "callback", "begun")
  /\ \/ \E s \in pending :
          /\ s.state = request[r].state
          /\ request' = [request EXCEPT ![r].user = s.user, ![r].answer = IF s.old THEN "expired" ELSE @,
                                        ![r].stage = IF s.old THEN "ended" ELSE "exchange"]
     \/ (\A s \in pending : s.state # request[r].state) /\ End(r, "invalid")
  /\ UNCHANGED <<pending, tokens, events, google, faults>>

\* The state is taken out under the lock, whatever comes of the callback.
HandleCallback(r) ==
  /\ At(r, "callback", "begun")
  /\ \/ \E s \in pending :
          /\ s.state = request[r].state
          /\ pending' = pending \ {s}
          /\ request' = [request EXCEPT ![r].user = s.user, ![r].answer = IF s.old THEN "expired" ELSE @,
                                        ![r].stage = IF s.old THEN "ended" ELSE "exchange"]
     \/ /\ \A s \in pending : s.state # request[r].state
        /\ End(r, "invalid") /\ UNCHANGED pending
  /\ UNCHANGED <<tokens, events, google, faults>>

\* Google trades the code for a token, unless the call fails.
Exchange(r) ==
  /\ At(r, "callback", "exchange")
  /\ \E outcome \in Outcomes :
       /\ IF outcome = "done" THEN Goto(r, "save") ELSE End(r, "error")
       /\ Spend(outcome)
  /\ UNCHANGED <<pending, tokens, events, google>>

\* HandleCallback and getClient save the token they got, under the lock, and look
\* at nothing that happened since they began.
SaveToken(r) ==
  /\ request[r].stage = "save"
  /\ tokens' = [tokens EXCEPT ![request[r].user] = r]
  /\ request' = [request EXCEPT ![r].wrote = TRUE,
       ![r].stage  = IF request[r].op = "callback" THEN "ended" ELSE "client",
       ![r].answer = IF request[r].op = "callback" THEN "ok" ELSE @]
  /\ UNCHANGED <<pending, events, google, faults>>

\* Mutant: the token is kept, and only the answer says otherwise.
ForgetDisconnect(r) ==
  /\ At(r, "disconnect", "begun")
  /\ End(r, "ok")
  /\ UNCHANGED <<pending, tokens, events, google, faults>>

Disconnect(r) ==
  /\ At(r, "disconnect", "begun")
  /\ tokens' = [tokens EXCEPT ![request[r].user] = NoToken]
  /\ End(r, "ok")
  /\ UNCHANGED <<pending, events, google, faults>>

-----------------------------------------------------------------------------
(* getClient, which every call of Google begins with *)

\* A request that has no client, or no list, ends with the error.  Each half of a
\* bidirectional synchronisation leaves it in the result, and after the import the
\* export goes on.
WithoutClient(r) ==
  LET both == request[r].op = "sync" /\ request[r].direction = "bidirectional"
  IN IF both /\ request[r].phase = "import"
     THEN request' = [request EXCEPT ![r].phase = "export", ![r].stage = "token",
                                     ![r].answer = "with errors"]
     ELSE End(r, IF both THEN "with errors" ELSE "error")

\* GetConnectionStatus looks for a token once more before it asks for a client.
GetStatus(r) ==
  /\ At(r, "status", "begun")
  /\ IF tokens[request[r].user] = NoToken THEN End(r, "not connected") ELSE Goto(r, "token")
  /\ UNCHANGED <<pending, tokens, events, google, faults>>

GetToken(r) ==
  /\ request[r].stage = "token"
  /\ IF tokens[request[r].user] = NoToken THEN WithoutClient(r) ELSE Goto(r, "refresh")
  /\ UNCHANGED <<pending, tokens, events, google, faults>>

\* A token that has not expired is used as it is; another one, and any may have
\* expired, is refreshed at Google, saved, and used by this request.
Refresh(r) ==
  /\ request[r].stage = "refresh"
  /\ \/ Goto(r, "client") /\ UNCHANGED faults
     \/ \E outcome \in Outcomes :
          /\ IF outcome = "done" THEN Goto(r, "save") ELSE WithoutClient(r)
          /\ Spend(outcome)
  /\ UNCHANGED <<pending, tokens, events, google>>

\* The one call of googleStatus (CalendarList.Get) and of googleWatch
\* (Events.Watch); they leave nothing behind here.
AskGoogle(r) ==
  /\ At(r, "status", "client") \/ At(r, "watch", "client")
  /\ \E outcome \in Outcomes :
       /\ End(r, IF outcome = "done" THEN "ok" ELSE "error")
       /\ Spend(outcome)
  /\ UNCHANGED <<pending, tokens, events, google>>

-----------------------------------------------------------------------------
(* SyncFromGoogle *)


\* googleEventToModel: an event without a title is left out.
Importable(user) == {i \in DOMAIN google[user] : google[user][i].title # Untitled}

ListGoogleEvents(r) ==
  /\ At(r, "sync", "client") /\ request[r].phase = "import"
  /\ \E outcome \in Outcomes :
       /\ IF outcome = "done"
          THEN request' = [request EXCEPT ![r].stage = "copy", ![r].todo = Importable(request[r].user)]
          ELSE WithoutClient(r)
       /\ Spend(outcome)
  /\ UNCHANGED <<pending, tokens, events, google>>

\* Mutant: an event whose import failed is imported again.
ImportRetried(r) ==
  /\ At(r, "sync", "copy") /\ request[r].phase = "import"
  /\ request[r].todo # {}
  /\ LET i == Min(request[r].todo) IN \E outcome \in Outcomes :
       /\ events' = IF outcome = "refused" THEN events ELSE Append(events,
                      [user |-> request[r].user, title |-> google[request[r].user][i].title,
                       by |-> r, of |-> i])
       /\ request' = [request EXCEPT
            ![r].todo = IF outcome = "done" THEN @ \ {i} ELSE @,
            ![r].imported = IF outcome = "done" THEN @ + 1 ELSE @]
       /\ Spend(outcome)
  /\ UNCHANGED <<pending, tokens, google>>

\* The next event through CreateEventAdapter, under an id that is new each time; an
\* event that fails is left out and not counted.
ImportOne(r) ==
  /\ At(r, "sync", "copy") /\ request[r].phase = "import"
  /\ request[r].todo # {}
  /\ LET i == Min(request[r].todo) IN \E outcome \in Outcomes :
       /\ events' = IF outcome = "refused" THEN events ELSE Append(events,
                      [user |-> request[r].user, title |-> google[request[r].user][i].title,
                       by |-> r, of |-> i])
       /\ request' = [request EXCEPT
            ![r].todo = @ \ {i},
            ![r].imported = IF outcome = "done" THEN @ + 1 ELSE @]
       /\ Spend(outcome)
  /\ UNCHANGED <<pending, tokens, google>>

-----------------------------------------------------------------------------
(* SyncToGoogle *)


\* ListEventsAdapter returns the events of every user; the others' are left out.
Exportable(user) == {i \in DOMAIN events : events[i].user = user}

ListLocalEvents(r) ==
  /\ At(r, "sync", "client") /\ request[r].phase = "export"
  /\ \E outcome \in Outcomes :
       /\ IF outcome = "done"
          THEN request' = [request EXCEPT ![r].stage = "copy", ![r].todo = Exportable(request[r].user)]
          ELSE WithoutClient(r)
       /\ Spend(outcome)
  /\ UNCHANGED <<pending, tokens, events, google>>


ExportOne(r) ==
  /\ At(r, "sync", "copy") /\ request[r].phase = "export"
  /\ request[r].todo # {}
  /\ LET i == Min(request[r].todo) IN \E outcome \in Outcomes :
       /\ google' = IF outcome = "refused" THEN google
                    ELSE [google EXCEPT ![request[r].user] =
                            Append(@, [title |-> events[i].title, by |-> r, of |-> i])]
       /\ request' = [request EXCEPT
            ![r].todo = @ \ {i},
            ![r].exported = IF outcome = "done" THEN @ + 1 ELSE @]
       /\ Spend(outcome)
  /\ UNCHANGED <<pending, tokens, events>>

\* performBidirectionalSync exports after it has imported, with a client of its
\* own; the other directions are done.
EndOfCopying(r) ==
  /\ At(r, "sync", "copy") /\ request[r].todo = {}
  /\ IF request[r].direction = "bidirectional" /\ request[r].phase = "import"
     THEN request' = [request EXCEPT ![r].phase = "export", ![r].stage = "token"]
     ELSE End(r, IF request[r].answer = "none" THEN "ok" ELSE request[r].answer)
  /\ UNCHANGED <<pending, tokens, events, google, faults>>

-----------------------------------------------------------------------------

\* pendingAuthTTL passes for a state.
Age ==
  /\ \E s \in pending : ~s.old /\ pending' = (pending \ {s}) \cup {[s EXCEPT !.old = TRUE]}
  /\ UNCHANGED <<tokens, events, google, request, faults>>

\* The process stops: states and tokens were in its memory, and the requests it
\* was serving get no answer.
Crash ==
  /\ faults < MaxFaults
  /\ pending' = {} /\ tokens' = [u \in Users |-> NoToken]
  /\ request' = [r \in Requests |-> IF r \in Running
                   THEN [request[r] EXCEPT !.stage = "ended", !.answer = "none"] ELSE request[r]]
  /\ faults' = faults + 1
  /\ UNCHANGED <<events, google>>

Arrivals(r) ==
  \/ ArriveAuth(r) \/ ArriveCallback(r) \/ ArriveDisconnect(r)
  \/ ArriveSync(r) \/ ArriveStatus(r) \/ ArriveWatch(r)

Handle(r) ==
  \/ GetAuthURL(r) \/ HandleCallback(r) \/ Exchange(r) \/ SaveToken(r) \/ Disconnect(r)
  \/ GetStatus(r) \/ GetToken(r) \/ Refresh(r) \/ AskGoogle(r)
  \/ ListGoogleEvents(r) \/ ImportOne(r) \/ ListLocalEvents(r) \/ ExportOne(r) \/ EndOfCopying(r)

Next == Crash \/ Age \/ \E r \in Requests : Arrivals(r) \/ Handle(r)

Spec == Init /\ [][Next]_vars

-----------------------------------------------------------------------------
(* Properties *)

Titles == Users \cup {Untitled, "meeting"}
Authors == Requests \cup {OldCopy}
Pending == [state : Requests, user : Users, old : BOOLEAN]
Event   == [user : Users, title : Titles, by : Authors, of : Nat]
GoogleEvent == [title : Titles, by : Authors, of : Nat]
Stages == {"idle", "begun", "exchange", "save", "token", "refresh", "client", "copy", "ended"}
Answers == {"none", "ok", "with errors", "expired", "invalid", "not connected", "error"}
Request == [op : {"none", "auth", "callback", "disconnect", "sync", "status", "watch"},
            stage : Stages, user : Users, direction : Directions,
            phase : {"none", "import", "export"}, state : Requests \cup {OldToken},
            todo : SUBSET Nat, imported : Nat, exported : Nat, wrote : BOOLEAN,
            answer : Answers, saw : SUBSET Requests]

TypeOK ==
  /\ pending \subseteq Pending
  /\ tokens \in [Users -> Tokens]
  /\ events \in Seq(Event)
  /\ google \in [Users -> Seq(GoogleEvent)]
  /\ request \in [Requests -> Request]
  /\ \A r \in Requests : At(r, "sync", "copy") => request[r].todo \subseteq
       (IF request[r].phase = "import" THEN DOMAIN google[request[r].user] ELSE DOMAIN events)
  /\ faults \in 0 .. MaxFaults

Answered(r, op) == request[r].op = op /\ request[r].stage = "ended" /\ request[r].answer = "ok"

\* A user is connected by a callback that carried the state of a login of that
\* user's own, and one state connects once: an address that is loaded again, or
\* by two browsers at once, connects nobody.
StateConnectsOnce ==
  \A r \in Requests : request[r].op = "callback" /\ request[r].wrote =>
    /\ request[request[r].state].user = request[r].user
    /\ \A q \in Requests \ {r} :
         request[q].op = "callback" /\ request[q].wrote => request[q].state # request[r].state

\* A login that was begun can be completed: its state leaves the map only by its
\* callback, when it is too old, or with the process; and logins that are given up
\* do not pile up: the map grows past its bound only while no state is too old.
PendingLogins ==
  [][/\ \A s \in pending : ~s.old /\ (\A t \in pending' : t.state # s.state) =>
          \/ faults' > faults
          \/ \E r \in Requests : request[r].op = "callback" /\ request[r].state = s.state
     /\ Cardinality(pending') > Cardinality(pending) /\ Cardinality(pending') > PendingMax =>
          \A s \in pending' : ~s.old]_vars

\* Who has disconnected stays so, unless a login that was not yet over, or another
\* request of the user that ran beside the disconnection, saved its token since.
ReconnectedOnlyByOverlap ==
  \A d \in Requests : Answered(d, "disconnect") /\ tokens[Alice] # NoToken =>
    \E w \in Requests : /\ request[w].wrote /\ request[w].user = Alice
                        /\ w \notin request[d].saw
                        /\ request[w].op = "callback" \/ d \notin request[w].saw

\* Who has disconnected stays so until the next login.
DisconnectSticks ==
  \A d \in Requests : Answered(d, "disconnect") /\ tokens[Alice] # NoToken =>
    \E w \in Requests : Answered(w, "callback") /\ request[w].user = Alice

\* Nobody's calendar at Google gets another user's events, although the list
\* that is exported holds the events of all.
OthersStayOut ==
  \A u \in Users : \A i \in DOMAIN google[u] :
    google[u][i].title \in Users => google[u][i].title = u

CopiesBy(calendar, r) == Cardinality({i \in DOMAIN calendar : calendar[i].by = r})
SourcesBy(calendar, r) ==
  {calendar[i].of : i \in {j \in DOMAIN calendar : calendar[j].by = r}}

\* What an answer counts was copied, and when no call failed nothing else was:
\* with synchronisations side by side, and for each half of a bidirectional one,
\* also when the other half failed.
CountsTrue ==
  \A r \in Requests : At(r, "sync", "ended") /\ request[r].answer \in {"ok", "with errors"} =>
    LET imported == CopiesBy(events, r)
        exported == CopiesBy(google[request[r].user], r)
    IN /\ request[r].imported <= imported /\ request[r].exported <= exported
       /\ faults = 0 => request[r].imported = imported /\ request[r].exported = exported

\* No synchronisation copies an event twice, to the table or to Google, whatever
\* fails while it runs and whoever synchronises beside it.
Once(calendar) == \A i, j \in DOMAIN calendar :
  calendar[i].by \in Requests /\ calendar[i].by = calendar[j].by /\ calendar[i].of = calendar[j].of
    => i = j
NoneTwice == Once(events) /\ \A u \in Users : Once(google[u])

\* The events request r is to copy that were there when it began.
Before(r) == request[r].saw \cup {OldCopy}
ToImport(r) == LET mine == google[request[r].user]
               IN {i \in Importable(request[r].user) : mine[i].by \in Before(r)}
ToExport(r) == {i \in Exportable(request[r].user) : events[i].by \in Before(r)}

\* When no call failed, a synchronisation that reports no error has copied every
\* event that was there when it began and is to be copied in its direction.
NoneMissing ==
  \A r \in Requests : Answered(r, "sync") /\ faults = 0 =>
    /\ request[r].direction # "to_google" => ToImport(r) \subseteq SourcesBy(events, r)
    /\ request[r].direction # "from_google" =>
         ToExport(r) \subseteq SourcesBy(google[request[r].user], r)

\* What one synchronisation leaves in the two calendars is what it says: every
\* event that is to be copied, once, and nobody else's.  It says nothing of two:
\* an event and its copy are not told apart, so a later synchronisation copies
\* again what an earlier one brought, and a bidirectional one exports the copies
\* it has just imported, after which Google has those events twice.
SyncTrue == OthersStayOut /\ CountsTrue /\ NoneTwice /\ NoneMissing
=============================================================================
