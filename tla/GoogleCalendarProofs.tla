------------------------- MODULE GoogleCalendarProofs -------------------------
(***************************************************************************)
(* Proofs about GoogleCalendar, for any requests, bounds and faults.       *)
(***************************************************************************)
EXTENDS GoogleCalendar, FiniteSetTheorems, SequenceTheorems, TLAPS

-----------------------------------------------------------------------------
(* Types.                                                                  *)

\* What a step of a handler may make of its request.
Goes(r) == \E stage \in Stages \ {"idle", "begun"} : Goto(r, stage)
Ends(r) == \E answer \in Answers : End(r, answer)
Turns(r) ==
  \/ request' = [request EXCEPT ![r].phase = "export", ![r].stage = "token"]
  \/ request' = [request EXCEPT ![r].phase = "export", ![r].stage = "token",
                                ![r].answer = "with errors"]
TakesState(r) == \E s \in pending :
  /\ s.state = request[r].state
  /\ request' = [request EXCEPT ![r].user = s.user, ![r].answer = IF s.old THEN "expired" ELSE @,
                                ![r].stage = IF s.old THEN "ended" ELSE "exchange"]
Saves(r) == request' = [request EXCEPT ![r].wrote = TRUE,
       ![r].stage  = IF request[r].op = "callback" THEN "ended" ELSE "client",
       ![r].answer = IF request[r].op = "callback" THEN "ok" ELSE @]
Lists(r) == \E todo \in SUBSET Nat : request' = [request EXCEPT ![r].stage = "copy", ![r].todo = todo]
Imports(r) == \E todo \in SUBSET Nat, n \in {request[r].imported, request[r].imported + 1} :
  request' = [request EXCEPT ![r].todo = todo, ![r].imported = n]
Exports(r) == \E todo \in SUBSET Nat, n \in {request[r].exported, request[r].exported + 1} :
  request' = [request EXCEPT ![r].todo = todo, ![r].exported = n]
ArrivesAs(r, req) == request' = [request EXCEPT ![r] = [req EXCEPT !.saw = Ended]]

LEMMA TodoType ==
    ASSUME TypeOK, NEW r \in Requests
    PROVE  /\ Importable(request[r].user) \subseteq DOMAIN google[request[r].user]
           /\ Exportable(request[r].user) \subseteq DOMAIN events
           /\ Importable(request[r].user) \subseteq Nat /\ Exportable(request[r].user) \subseteq Nat
<1>1. google[request[r].user] \in Seq(GoogleEvent) /\ events \in Seq(Event)
  BY DEF TypeOK, Request
<1>2. DOMAIN google[request[r].user] \subseteq Nat /\ DOMAIN events \subseteq Nat
  BY <1>1
<1> QED BY <1>2 DEF Importable, Exportable

LEMMA HandleCases ==
    ASSUME TypeOK, NEW r \in Requests, Handle(r)
    PROVE  \/ Goes(r) \/ Ends(r) \/ Turns(r)
           \/ HandleCallback(r) /\ TakesState(r)
           \/ SaveToken(r) /\ Saves(r)
           \/ (ListGoogleEvents(r) \/ ListLocalEvents(r)) /\ Lists(r)
           \/ ImportOne(r) /\ Imports(r)
           \/ ExportOne(r) /\ Exports(r)
<1>0. request[r].answer \in Answers
  BY DEF TypeOK, Request
<1>1. CASE GetAuthURL(r) \/ Exchange(r) \/ Disconnect(r) \/ GetStatus(r) \/ AskGoogle(r) \/ EndOfCopying(r)
  BY <1>0, <1>1 DEF GetAuthURL, Exchange, Disconnect, GetStatus, AskGoogle, EndOfCopying,
              Goes, Ends, Turns, Stages, Answers
<1>2. CASE GetToken(r) \/ Refresh(r)
  BY <1>2 DEF GetToken, Refresh, WithoutClient, Goes, Ends, Turns, Stages, Answers
<1>3. CASE HandleCallback(r)
  BY <1>3 DEF HandleCallback, TakesState, Ends, Answers
<1>4. CASE SaveToken(r)
  BY <1>4 DEF SaveToken, Saves
<1>5. CASE ListGoogleEvents(r) \/ ListLocalEvents(r)
  <2>1. Importable(request[r].user) \in SUBSET Nat /\ Exportable(request[r].user) \in SUBSET Nat
    BY TodoType
  <2> QED BY <1>5, <2>1 DEF ListGoogleEvents, ListLocalEvents, WithoutClient, Lists, Ends, Turns, Answers
<1>6. CASE ImportOne(r) \/ ExportOne(r)
  <2>1. request[r].todo \in SUBSET Nat
    BY DEF TypeOK, Request
  <2>2. \A i : request[r].todo \ {i} \in SUBSET Nat
    BY <2>1
  <2>3. CASE ImportOne(r)
    <3>1. PICK outcome \in Outcomes : request' = [request EXCEPT
            ![r].todo = request[r].todo \ {Min(request[r].todo)},
            ![r].imported = IF outcome = "done" THEN request[r].imported + 1 ELSE request[r].imported]
      BY <2>3 DEF ImportOne
    <3> QED BY <2>2, <2>3, <3>1 DEF Imports
  <2>4. CASE ExportOne(r)
    <3>1. PICK outcome \in Outcomes : request' = [request EXCEPT
            ![r].todo = request[r].todo \ {Min(request[r].todo)},
            ![r].exported = IF outcome = "done" THEN request[r].exported + 1 ELSE request[r].exported]
      BY <2>4 DEF ExportOne
    <3> QED BY <2>2, <2>4, <3>1 DEF Exports
  <2> QED BY <1>6, <2>3, <2>4
<1> QED BY <1>1, <1>2, <1>3, <1>4, <1>5, <1>6 DEF Handle

\* What stays of a request while it is handled.
Stays(q) == /\ request'[q].op = request[q].op /\ request'[q].direction = request[q].direction
            /\ request'[q].state = request[q].state /\ request'[q].saw = request[q].saw
            /\ request'[q].stage \notin {"idle", "begun"}
Others(r) == \A q \in Requests \ {r} : request'[q] = request[q]

\* The fields of the request that a handler writes.
LEMMA FieldEffect ==
    ASSUME TypeOK, NEW r \in Requests, Handle(r)
    PROVE  /\ request' \in [Requests -> Request] /\ Others(r) /\ Stays(r)
           /\ request'[r].imported # request[r].imported => ImportOne(r)
           /\ request'[r].exported # request[r].exported => ExportOne(r)
           /\ request'[r].wrote # request[r].wrote => SaveToken(r)
           /\ request'[r].user # request[r].user => HandleCallback(r)
           /\ request'[r].phase # request[r].phase => request'[r].phase = "export" /\ request'[r].stage = "token"
<1>0. request \in [Requests -> Request] /\ request[r] \in Request
  BY DEF TypeOK
<1>1. CASE Goes(r)
  <2>1. PICK stage \in Stages \ {"idle", "begun"} : request' = [request EXCEPT ![r].stage = stage]
    BY <1>1 DEF Goes, Goto
  <2> QED BY <1>0, <2>1 DEF Request, Stays, Others
<1>2. CASE Ends(r)
  <2>1. PICK answer \in Answers :
          request' = [request EXCEPT ![r].stage = "ended", ![r].answer = answer]
    BY <1>2 DEF Ends, End
  <2> QED BY <1>0, <2>1 DEF Request, Stages, Stays, Others
<1>3. CASE Turns(r)
  <2>1. CASE request' = [request EXCEPT ![r].phase = "export", ![r].stage = "token"]
    BY <1>0, <2>1 DEF Request, Stages, Stays, Others
  <2>2. CASE request' = [request EXCEPT ![r].phase = "export", ![r].stage = "token",
                                       ![r].answer = "with errors"]
    BY <1>0, <2>2 DEF Request, Stages, Stays, Others, Answers
  <2> QED BY <1>3, <2>1, <2>2 DEF Turns
<1>4. CASE HandleCallback(r) /\ TakesState(r)
  <2>1. PICK s \in pending : request' = [request EXCEPT ![r].user = s.user,
          ![r].answer = IF s.old THEN "expired" ELSE request[r].answer,
          ![r].stage = IF s.old THEN "ended" ELSE "exchange"]
    BY <1>4 DEF TakesState
  <2>2. s.user \in Users
    BY DEF TypeOK, Pending
  <2> QED BY <1>0, <1>4, <2>1, <2>2 DEF Request, Stages, Answers, Stays, Others
<1>5. CASE SaveToken(r) /\ Saves(r)
  <2>1. PICK stage \in {"ended", "client"}, answer \in {"ok", request[r].answer} :
          request' = [request EXCEPT ![r].wrote = TRUE, ![r].stage = stage, ![r].answer = answer]
    BY <1>5 DEF Saves
  <2>2. answer \in Answers
    BY <1>0, <2>1 DEF Request, Answers
  <2> QED BY <1>0, <1>5, <2>1, <2>2 DEF Request, Stages, Stays, Others
<1>6. CASE (ListGoogleEvents(r) \/ ListLocalEvents(r)) /\ Lists(r)
  <2>1. PICK todo \in SUBSET Nat : request' = [request EXCEPT ![r].stage = "copy", ![r].todo = todo]
    BY <1>6 DEF Lists
  <2> QED BY <1>0, <2>1 DEF Request, Stages, Stays, Others
<1>7. CASE ImportOne(r) /\ Imports(r)
  <2>1. PICK todo \in SUBSET Nat, n \in {request[r].imported, request[r].imported + 1} :
          request' = [request EXCEPT ![r].todo = todo, ![r].imported = n]
    BY <1>7 DEF Imports
  <2>2. request[r].imported \in Nat /\ request[r].stage = "copy"
    BY <1>0, <1>7 DEF ImportOne, At, Request
  <2>3. n \in Nat
    BY <2>2
  <2> QED BY <1>0, <1>7, <2>1, <2>2, <2>3 DEF Request, Stays, Others
<1>8. CASE ExportOne(r) /\ Exports(r)
  <2>1. PICK todo \in SUBSET Nat, n \in {request[r].exported, request[r].exported + 1} :
          request' = [request EXCEPT ![r].todo = todo, ![r].exported = n]
    BY <1>8 DEF Exports
  <2>2. request[r].exported \in Nat /\ request[r].stage = "copy"
    BY <1>0, <1>8 DEF ExportOne, At, Request
  <2>3. n \in Nat
    BY <2>2
  <2> QED BY <1>0, <1>8, <2>1, <2>2, <2>3 DEF Request, Stays, Others
<1> QED BY <1>1, <1>2, <1>3, <1>4, <1>5, <1>6, <1>7, <1>8, HandleCases

\* A request that has just arrived.
Fresh(req) ==
  /\ req.stage \in {"begun", "token"} /\ req.op # "none" /\ ~req.wrote
  /\ req.imported = 0 /\ req.exported = 0 /\ req.answer = "none" /\ req.todo = {}
  /\ req.saw = Ended
  /\ req.op \in {"auth", "callback", "disconnect", "status"} => req.stage = "begun"
  /\ req.op \in {"disconnect", "sync", "status", "watch"} => req.user = Alice
  /\ req.op = "callback" => req.state \in Ended /\ request[req.state].op = "auth"
  /\ req.op = "sync" =>
       /\ req.stage = "token"
       /\ req.phase = IF req.direction = "to_google" THEN "export" ELSE "import"

LEMMA ArriveEffect ==
    ASSUME TypeOK, NEW r \in Requests, Arrivals(r)
    PROVE  /\ request' \in [Requests -> Request] /\ Others(r)
           /\ request[r].stage = "idle" /\ Fresh(request'[r])
           /\ UNCHANGED <<pending, tokens, events, google, faults>>
<1>0. request \in [Requests -> Request] /\ Ended \in SUBSET Requests
  BY DEF TypeOK, Ended
<1>1. ASSUME NEW req \in Request, Arrive(r, req), Fresh([req EXCEPT !.saw = Ended])
      PROVE  /\ request' \in [Requests -> Request] /\ Others(r)
             /\ request[r].stage = "idle" /\ Fresh(request'[r])
             /\ UNCHANGED <<pending, tokens, events, google, faults>>
  <2>1. [req EXCEPT !.saw = Ended] \in Request
    BY <1>0 DEF Request
  <2>2. request' = [request EXCEPT ![r] = [req EXCEPT !.saw = Ended]]
    BY <1>1 DEF Arrive
  <2>3. request'[r] = [req EXCEPT !.saw = Ended]
    BY <1>0, <2>2
  <2> QED BY <1>0, <1>1, <2>1, <2>2, <2>3 DEF Arrive, Others
<1>2. Idle \in Request
  BY DEF Idle, Request, Stages, Users, Directions, Answers
<1>3. CASE ArriveAuth(r)
  <2>1. PICK u \in Users : Arrive(r, [Idle EXCEPT !.op = "auth", !.stage = "begun", !.user = u])
    BY <1>3 DEF ArriveAuth
  <2> DEFINE req == [Idle EXCEPT !.op = "auth", !.stage = "begun", !.user = u]
  <2>2. req \in Request /\ Fresh([req EXCEPT !.saw = Ended])
    BY <1>2 DEF Idle, Request, Stages, Fresh
  <2> QED BY <1>1, <2>1, <2>2
<1>4. CASE ArriveDisconnect(r) \/ ArriveStatus(r)
  <2>1. PICK op \in {"disconnect", "status"} : Arrive(r, [Idle EXCEPT !.op = op, !.stage = "begun"])
    BY <1>4 DEF ArriveDisconnect, ArriveStatus
  <2> DEFINE req == [Idle EXCEPT !.op = op, !.stage = "begun"]
  <2>2. req \in Request /\ Fresh([req EXCEPT !.saw = Ended])
    BY <1>2 DEF Idle, Request, Stages, Fresh
  <2> QED BY <1>1, <2>1, <2>2
<1>5. CASE ArriveSync(r)
  <2>1. PICK d \in Directions :
          Arrive(r, [Idle EXCEPT !.op = "sync", !.stage = "token", !.direction = d,
                                 !.phase = IF d = "to_google" THEN "export" ELSE "import"])
    BY <1>5 DEF ArriveSync
  <2> DEFINE req == [Idle EXCEPT !.op = "sync", !.stage = "token", !.direction = d,
                                 !.phase = IF d = "to_google" THEN "export" ELSE "import"]
  <2>2. req \in Request /\ Fresh([req EXCEPT !.saw = Ended])
    BY <1>2 DEF Idle, Request, Stages, Fresh
  <2> QED BY <1>1, <2>1, <2>2
<1>6. CASE ArriveWatch(r)
  <2> DEFINE req == [Idle EXCEPT !.op = "watch", !.stage = "token"]
  <2>1. Arrive(r, req)
    BY <1>6 DEF ArriveWatch
  <2>2. req \in Request /\ Fresh([req EXCEPT !.saw = Ended])
    BY <1>2 DEF Idle, Request, Stages, Fresh
  <2> QED BY <1>1, <2>1, <2>2
<1>7. CASE ArriveCallback(r)
  <2>1. PICK a \in Ended : request[a].op = "auth" /\
          Arrive(r, [Idle EXCEPT !.op = "callback", !.stage = "begun", !.state = a])
    BY <1>7 DEF ArriveCallback
  <2> DEFINE req == [Idle EXCEPT !.op = "callback", !.stage = "begun", !.state = a]
  <2>2. a \in Requests
    BY DEF Ended
  <2>3. req \in Request /\ Fresh([req EXCEPT !.saw = Ended])
    BY <1>2, <2>1, <2>2 DEF Idle, Request, Stages, Fresh
  <2> QED BY <1>1, <2>1, <2>3
<1> QED BY <1>3, <1>4, <1>5, <1>6, <1>7 DEF Arrivals

LEMMA CrashEffect ==
    ASSUME TypeOK, Crash
    PROVE  /\ request' \in [Requests -> Request]
           /\ \A q \in Requests :
                \/ request'[q] = request[q] /\ q \notin Running
                \/ /\ q \in Running /\ Stays(q)
                   /\ request'[q].stage = "ended" /\ request'[q].answer = "none"
                   /\ request'[q].user = request[q].user /\ request'[q].wrote = request[q].wrote
                   /\ request'[q].phase = request[q].phase
                   /\ request'[q].imported = request[q].imported
                   /\ request'[q].exported = request[q].exported
<1>1. \A q \in Requests : request[q] \in Request
  BY DEF TypeOK
<1>2. \A q \in Requests : request'[q] = IF q \in Running
        THEN [request[q] EXCEPT !.stage = "ended", !.answer = "none"] ELSE request[q]
  BY DEF Crash
<1>3. \A q \in Requests : [request[q] EXCEPT !.stage = "ended", !.answer = "none"] \in Request
  BY <1>1 DEF Request, Stages, Answers
<1>4. \A q \in Requests : request'[q] \in Request
  BY <1>1, <1>2, <1>3
<1>5. request' = [q \in Requests |-> request'[q]]
  BY DEF Crash
<1>6. ASSUME NEW q \in Requests, q \in Running
      PROVE  /\ Stays(q) /\ request'[q].stage = "ended" /\ request'[q].answer = "none"
             /\ request'[q].user = request[q].user /\ request'[q].wrote = request[q].wrote
             /\ request'[q].phase = request[q].phase
             /\ request'[q].imported = request[q].imported
             /\ request'[q].exported = request[q].exported
  <2>1. request'[q] = [request[q] EXCEPT !.stage = "ended", !.answer = "none"]
    BY <1>2, <1>6
  <2> QED BY <1>1, <2>1 DEF Request, Stays
<1>7. \A q \in Requests : q \notin Running => request'[q] = request[q]
  BY <1>2
<1> HIDE DEF Stays
<1> QED BY <1>4, <1>5, <1>6, <1>7

\* The next event of a list is one of it.
LEMMA MinIn ==
    ASSUME NEW n \in Nat, NEW S, S \subseteq 1 .. n, S # {}
    PROVE  Min(S) \in S /\ \A b \in S : Min(S) <= b
<1> DEFINE Below(a) == {b \in S : b < a}
           Lowers == {Below(a) : a \in S}
           Order == StrictSubsetOrdering(S)
<1>1. IsFiniteSet(S)
  <2>1. IsFiniteSet(1 .. n)
    BY FS_Interval
  <2> QED BY <2>1, FS_Subset
<1>2. Lowers \subseteq FiniteSubsetsOf(S) /\ Lowers # {}
  <2>1. \A a \in S : Below(a) \in SUBSET S
    OBVIOUS
  <2>2. \A a \in S : IsFiniteSet(Below(a))
    BY <1>1, <2>1, FS_Subset
  <2> QED BY <2>1, <2>2 DEF FiniteSubsetsOf
<1>3. PICK least \in Lowers : \A other \in Lowers : <<other, least>> \notin Order
  <2> HIDE DEF Lowers, Order
  <2> QED BY <1>2, FS_StrictSubsetOrderingWellFounded, WFMin DEF Order
<1>4. PICK a \in S : least = Below(a)
  BY <1>3
<1>5. \A b \in S : a <= b
  <2> SUFFICES ASSUME NEW b \in S, b < a PROVE FALSE
    OBVIOUS
  <2>1. ~(b < b) /\ \A c \in S : c < b => c < a
    OBVIOUS
  <2>2. Below(b) \subseteq Below(a) /\ b \in Below(a) /\ b \notin Below(b)
    BY <2>1, Zenon
  <2>3. <<Below(b), least>> \in Order
    BY <1>4, <2>2 DEF StrictSubsetOrdering
  <2> QED BY <2>3, <1>3
<1> QED BY <1>5 DEF Min

LEMMA NextInList ==
    ASSUME TypeOK, NEW r \in Requests, At(r, "sync", "copy"), request[r].todo # {}
    PROVE  /\ Min(request[r].todo) \in request[r].todo
           /\ Min(request[r].todo) \in Nat
           /\ request[r].phase = "import" =>
                /\ Min(request[r].todo) \in DOMAIN google[request[r].user]
                /\ google[request[r].user][Min(request[r].todo)] \in GoogleEvent
           /\ request[r].phase # "import" =>
                Min(request[r].todo) \in DOMAIN events /\ events[Min(request[r].todo)] \in Event
<1>1. google[request[r].user] \in Seq(GoogleEvent) /\ events \in Seq(Event)
  BY DEF TypeOK, Request
<1>2. PICK n \in Nat : request[r].todo \subseteq 1 .. n
  <2>1. CASE request[r].phase = "import"
    <3>1. request[r].todo \subseteq DOMAIN google[request[r].user]
      BY <2>1 DEF TypeOK
    <3> QED BY <1>1, <3>1, LenProperties
  <2>2. CASE request[r].phase # "import"
    <3>1. request[r].todo \subseteq DOMAIN events
      BY <2>2 DEF TypeOK
    <3> QED BY <1>1, <3>1, LenProperties
  <2> QED BY <2>1, <2>2
<1>3. Min(request[r].todo) \in request[r].todo
  BY <1>2, MinIn
<1>4. request[r].todo \subseteq
       (IF request[r].phase = "import" THEN DOMAIN google[request[r].user] ELSE DOMAIN events)
  BY DEF TypeOK
<1>5. Min(request[r].todo) \in Nat
  BY <1>3 DEF TypeOK, Request
<1> QED BY <1>1, <1>3, <1>4, <1>5, ElementOfSeq

\* The calendars only grow, by one event at a time.
Imported(r) ==
  /\ ImportOne(r) /\ google' = google
  /\ \/ events' = events /\ faults' = faults + 1 /\ request'[r].imported = request[r].imported
     \/ \E row \in Event :
          /\ events' = Append(events, row) /\ row.user = request[r].user
          /\ row.by = r /\ row.of = Min(request[r].todo)
          /\ row.title = google[request[r].user][Min(request[r].todo)].title
          /\ \/ faults' = faults /\ request'[r].imported = request[r].imported + 1
             \/ faults' = faults + 1 /\ request'[r].imported = request[r].imported
Exported(r) ==
  /\ ExportOne(r) /\ events' = events
  /\ \/ google' = google /\ faults' = faults + 1 /\ request'[r].exported = request[r].exported
     \/ \E row \in GoogleEvent :
          /\ google' = [google EXCEPT ![request[r].user] = Append(@, row)] /\ row.by = r
          /\ row.of = Min(request[r].todo) /\ row.title = events[Min(request[r].todo)].title
          /\ \/ faults' = faults /\ request'[r].exported = request[r].exported + 1
             \/ faults' = faults + 1 /\ request'[r].exported = request[r].exported

LEMMA OutcomeCases ==
    ASSUME NEW outcome \in Outcomes, Spend(outcome)
    PROVE  IF outcome = "done" THEN faults' = faults ELSE faults' = faults + 1
BY DEF Outcomes, Spend

LEMMA ImportEffect ==
    ASSUME TypeOK, NEW r \in Requests, ImportOne(r)
    PROVE  Imported(r)
<1> DEFINE i == Min(request[r].todo)
           row == [user |-> request[r].user, title |-> google[request[r].user][i].title,
                   by |-> r, of |-> i]
<1>1. PICK outcome \in Outcomes :
        /\ events' = IF outcome = "refused" THEN events ELSE Append(events, row)
        /\ request' = [request EXCEPT ![r].todo = @ \ {i},
                         ![r].imported = IF outcome = "done" THEN @ + 1 ELSE @]
        /\ Spend(outcome)
  BY DEF ImportOne
<1>2. request[r] \in Request /\ google' = google
  BY DEF TypeOK, ImportOne
<1>3. row \in Event
  <2>1. google[request[r].user][i] \in GoogleEvent /\ i \in Nat
    BY NextInList DEF ImportOne
  <2> QED BY <1>2, <2>1 DEF Event, GoogleEvent, Request, Authors
<1>4. request'[r].imported = IF outcome = "done" THEN request[r].imported + 1 ELSE request[r].imported
  BY <1>1, <1>2 DEF TypeOK, Request
<1>5. IF outcome = "done" THEN faults' = faults ELSE faults' = faults + 1
  BY <1>1, OutcomeCases
<1>6. row.user = request[r].user /\ row.by = r /\ row.of = i /\ row.title = google[request[r].user][i].title
  OBVIOUS
<1> HIDE DEF row
<1> QED BY <1>1, <1>2, <1>3, <1>4, <1>5, <1>6 DEF Imported

LEMMA ExportEffect ==
    ASSUME TypeOK, NEW r \in Requests, ExportOne(r)
    PROVE  Exported(r)
<1> DEFINE i == Min(request[r].todo)
           row == [title |-> events[i].title, by |-> r, of |-> i]
<1>1. PICK outcome \in Outcomes :
        /\ google' = IF outcome = "refused" THEN google
                     ELSE [google EXCEPT ![request[r].user] = Append(@, row)]
        /\ request' = [request EXCEPT ![r].todo = @ \ {i},
                         ![r].exported = IF outcome = "done" THEN @ + 1 ELSE @]
        /\ Spend(outcome)
  BY DEF ExportOne
<1>2. request[r] \in Request /\ events' = events
  BY DEF TypeOK, ExportOne
<1>3. row \in GoogleEvent
  <2>1. events[i] \in Event /\ i \in Nat
    BY NextInList DEF ExportOne
  <2> QED BY <2>1 DEF Event, GoogleEvent, Authors
<1>4. request'[r].exported = IF outcome = "done" THEN request[r].exported + 1 ELSE request[r].exported
  BY <1>1, <1>2 DEF TypeOK, Request
<1>5. IF outcome = "done" THEN faults' = faults ELSE faults' = faults + 1
  BY <1>1, OutcomeCases
<1>6. row.by = r /\ row.of = i /\ row.title = events[i].title
  OBVIOUS
<1> HIDE DEF row
<1> QED BY <1>1, <1>2, <1>3, <1>4, <1>5, <1>6 DEF Exported

LEMMA CalendarCases ==
    ASSUME TypeOK, [Next]_vars
    PROVE  \/ UNCHANGED <<events, google>>
           \/ \E r \in Requests : Imported(r) \/ Exported(r)
<1>1. \/ UNCHANGED <<events, google>>
      \/ \E r \in Requests : ImportOne(r) \/ ExportOne(r)
  BY DEF Next, vars, Handle, GetAuthURL, HandleCallback, Exchange, SaveToken, Disconnect,
         GetStatus, GetToken, Refresh, AskGoogle, ListGoogleEvents, ListLocalEvents,
         EndOfCopying, Age, Crash, Arrivals, ArriveAuth, ArriveCallback, ArriveDisconnect,
         ArriveSync, ArriveStatus, ArriveWatch, Arrive
<1> QED BY <1>1, ImportEffect, ExportEffect

LEMMA CalendarStep ==
    ASSUME TypeOK, [Next]_vars
    PROVE  /\ events' \in Seq(Event) /\ google' \in [Users -> Seq(GoogleEvent)]
           /\ DOMAIN events \subseteq DOMAIN events'
           /\ \A i \in DOMAIN events : events'[i] = events[i]
           /\ \A u \in Users : /\ DOMAIN google[u] \subseteq DOMAIN google'[u]
                               /\ \A i \in DOMAIN google[u] : google'[u][i] = google[u][i]
<1>0. events \in Seq(Event) /\ \A u \in Users : google[u] \in Seq(GoogleEvent)
  BY DEF TypeOK
<1>1. CASE events' = events /\ google' = google
  BY <1>1 DEF TypeOK
<1>2. ASSUME NEW row \in Event, events' = Append(events, row), google' = google
      PROVE  /\ events' \in Seq(Event) /\ google' \in [Users -> Seq(GoogleEvent)]
             /\ DOMAIN events \subseteq DOMAIN events'
             /\ \A i \in DOMAIN events : events'[i] = events[i]
  BY <1>0, <1>2, AppendProperties DEF TypeOK
<1>3. ASSUME NEW r \in Requests, NEW row \in GoogleEvent, events' = events,
             google' = [google EXCEPT ![request[r].user] = Append(@, row)]
      PROVE  /\ google' \in [Users -> Seq(GoogleEvent)]
             /\ \A u \in Users : /\ DOMAIN google[u] \subseteq DOMAIN google'[u]
                                 /\ \A i \in DOMAIN google[u] : google'[u][i] = google[u][i]
  <2>1. request[r].user \in Users /\ google \in [Users -> Seq(GoogleEvent)]
    BY DEF TypeOK, Request
  <2>2. \A u \in Users : google'[u] = IF u = request[r].user THEN Append(google[u], row) ELSE google[u]
    BY <1>3, <2>1
  <2>3. \A u \in Users : /\ Append(google[u], row) \in Seq(GoogleEvent)
                         /\ DOMAIN google[u] \subseteq DOMAIN Append(google[u], row)
                         /\ \A i \in DOMAIN google[u] : Append(google[u], row)[i] = google[u][i]
    BY <1>0, AppendProperties
  <2> QED BY <1>3, <2>1, <2>2, <2>3
<1> QED BY <1>0, <1>1, <1>2, <1>3, CalendarCases DEF Imported, Exported, TypeOK

LEMMA FaultsStep ==
    ASSUME TypeOK, [Next]_vars
    PROVE  faults' \in 0 .. MaxFaults /\ faults' >= faults
<1>1. \/ faults' = faults
      \/ \E outcome \in Outcomes : Spend(outcome)
      \/ faults < MaxFaults /\ faults' = faults + 1
  <2>1. ASSUME NEW r \in Requests, Handle(r)
        PROVE  faults' = faults \/ \E outcome \in Outcomes : Spend(outcome)
    <3>1. CASE GetAuthURL(r) \/ HandleCallback(r) \/ SaveToken(r) \/ Disconnect(r)
               \/ GetStatus(r) \/ GetToken(r) \/ EndOfCopying(r)
      BY <3>1 DEF GetAuthURL, HandleCallback, SaveToken, Disconnect, GetStatus, GetToken, EndOfCopying
    <3>2. CASE Exchange(r) \/ Refresh(r) \/ AskGoogle(r) \/ ListGoogleEvents(r) \/ ListLocalEvents(r)
      BY <3>2 DEF Exchange, Refresh, AskGoogle, ListGoogleEvents, ListLocalEvents
    <3>3. CASE ImportOne(r) \/ ExportOne(r)
      BY <3>3 DEF ImportOne, ExportOne
    <3> QED BY <2>1, <3>1, <3>2, <3>3 DEF Handle
  <2>2. CASE Crash \/ Age \/ UNCHANGED vars
    BY <2>2 DEF Crash, Age, vars
  <2> QED BY <2>1, <2>2, ArriveEffect DEF Next
<1> QED BY <1>1, StoreAssumption DEF TypeOK, Outcomes, Spend

LEMMA StoreStep ==
    ASSUME TypeOK, [Next]_vars
    PROVE  pending' \subseteq Pending /\ tokens' \in [Users -> Tokens]
<1>1. \A r \in Requests : request[r] \in Request
  BY DEF TypeOK
<1>2. \/ pending' \subseteq pending
      \/ \E r \in Requests : GetAuthURL(r)
      \/ Age
  BY DEF Next, vars, Handle, HandleCallback, Exchange, SaveToken, Disconnect,
         GetStatus, GetToken, Refresh, AskGoogle, ListGoogleEvents, ListLocalEvents,
         ImportOne, ExportOne, EndOfCopying, Crash, Arrivals, ArriveAuth, ArriveCallback,
         ArriveDisconnect, ArriveSync, ArriveStatus, ArriveWatch, Arrive
<1>3. ASSUME NEW r \in Requests, GetAuthURL(r) PROVE pending' \subseteq Pending
  <2>1. [state |-> r, user |-> request[r].user, old |-> FALSE] \in Pending
    BY <1>1 DEF Pending, Request
  <2> QED BY <1>3, <2>1 DEF GetAuthURL, cleanupExpiredPendingAuth, TypeOK
<1>4. CASE Age
  <2>1. \A s \in Pending : [s EXCEPT !.old = TRUE] \in Pending
    BY DEF Pending
  <2> QED BY <1>4, <2>1 DEF Age, TypeOK
<1>5. \/ tokens' = tokens \/ tokens' = [u \in Users |-> NoToken]
      \/ \E r \in Requests : tokens' = [tokens EXCEPT ![request[r].user] = r]
                             \/ tokens' = [tokens EXCEPT ![request[r].user] = NoToken]
  BY DEF Next, vars, Handle, GetAuthURL, HandleCallback, Exchange, SaveToken, Disconnect,
         GetStatus, GetToken, Refresh, AskGoogle, ListGoogleEvents, ListLocalEvents, Age,
         ImportOne, ExportOne, EndOfCopying, Crash, Arrivals, ArriveAuth, ArriveCallback,
         ArriveDisconnect, ArriveSync, ArriveStatus, ArriveWatch, Arrive
<1>6. tokens' \in [Users -> Tokens]
  BY <1>5 DEF TypeOK, Tokens
<1> QED BY <1>2, <1>3, <1>4, <1>6 DEF TypeOK

LEMMA RequestStep ==
    ASSUME TypeOK, [Next]_vars
    PROVE  request' \in [Requests -> Request]
<1>1. request' = request \/ Crash \/ \E r \in Requests : Arrivals(r) \/ Handle(r)
  BY DEF Next, vars, Age
<1> QED BY <1>1, FieldEffect, ArriveEffect, CrashEffect DEF TypeOK

\* The list of a synchronisation lies in the calendar it was made from.
TodoIn(q) == request[q].todo \subseteq
  (IF request[q].phase = "import" THEN DOMAIN google[request[q].user] ELSE DOMAIN events)

LEMMA StageEffect ==
    ASSUME TypeOK, NEW r \in Requests
    PROVE  /\ \A stage : Goto(r, stage) => request'[r].stage = stage
           /\ \A answer : End(r, answer) => request'[r].stage = "ended" /\ request'[r].answer = answer
           /\ Turns(r) => request'[r].stage = "token"
           /\ WithoutClient(r) => request'[r].stage \in {"token", "ended"}
<1>1. request \in [Requests -> Request] /\ request[r] \in Request
  BY DEF TypeOK
<1>2. \A stage : Goto(r, stage) => request'[r].stage = stage
  BY <1>1 DEF Goto, Request
<1>3. \A answer : End(r, answer) => request'[r].stage = "ended" /\ request'[r].answer = answer
  BY <1>1 DEF End, Request
<1>4. ASSUME Turns(r) PROVE request'[r].stage = "token"
  BY <1>1, <1>4 DEF Turns, Request
<1> QED BY <1>2, <1>3, <1>4 DEF WithoutClient, Turns

LEMMA TodoStep ==
    ASSUME TypeOK, [Next]_vars, NEW q \in Requests, At(q, "sync", "copy")'
    PROVE  /\ request'[q].user = request[q].user /\ request'[q].phase = request[q].phase
           /\ \/ At(q, "sync", "copy") /\ request'[q].todo \subseteq request[q].todo
              \/ request[q].phase = "import" /\ request'[q].todo = Importable(request[q].user)
              \/ request[q].phase # "import" /\ request'[q].todo = Exportable(request[q].user)
<1>0. request[q] \in Request
  BY DEF TypeOK
<1>1. CASE request'[q] = request[q]
  BY <1>1 DEF At
<1>2. ASSUME Handle(q) PROVE
           /\ request'[q].user = request[q].user /\ request'[q].phase = request[q].phase
           /\ \/ At(q, "sync", "copy") /\ request'[q].todo \subseteq request[q].todo
              \/ request[q].phase = "import" /\ request'[q].todo = Importable(request[q].user)
              \/ request[q].phase # "import" /\ request'[q].todo = Exportable(request[q].user)
  <2>0. request'[q].op = "sync" /\ request'[q].stage = "copy" /\ request[q].op = "sync"
    BY <1>2, FieldEffect DEF At, Stays
  <2>1. request'[q].user = request[q].user /\ request'[q].phase = request[q].phase
    BY <1>2, <2>0, FieldEffect DEF HandleCallback, At
  <2>2. CASE ImportOne(q) \/ ExportOne(q)
    <3>1. request'[q].todo = request[q].todo \ {Min(request[q].todo)}
      <4>1. CASE ImportOne(q)
        <5>1. PICK n : request' = [request EXCEPT ![q].todo = @ \ {Min(request[q].todo)},
                                                 ![q].imported = n]
          BY <4>1 DEF ImportOne
        <5> QED BY <1>0, <5>1 DEF TypeOK, Request
      <4>2. CASE ExportOne(q)
        <5>1. PICK n : request' = [request EXCEPT ![q].todo = @ \ {Min(request[q].todo)},
                                                 ![q].exported = n]
          BY <4>2 DEF ExportOne
        <5> QED BY <1>0, <5>1 DEF TypeOK, Request
      <4> QED BY <2>2, <4>1, <4>2
    <3> QED BY <2>1, <2>2, <3>1 DEF ImportOne, ExportOne
  <2>3. CASE ListGoogleEvents(q)
    <3>1. request' = [request EXCEPT ![q].stage = "copy", ![q].todo = Importable(request[q].user)]
      BY <2>0, <2>3, StageEffect DEF ListGoogleEvents
    <3> QED BY <1>0, <2>1, <2>3, <3>1 DEF ListGoogleEvents, TypeOK, Request
  <2>4. CASE ListLocalEvents(q)
    <3>1. request' = [request EXCEPT ![q].stage = "copy", ![q].todo = Exportable(request[q].user)]
      BY <2>0, <2>4, StageEffect DEF ListLocalEvents
    <3> QED BY <1>0, <2>1, <2>4, <3>1 DEF ListLocalEvents, TypeOK, Request
  <2>5. CASE GetAuthURL(q) \/ HandleCallback(q) \/ Exchange(q) \/ SaveToken(q) \/ Disconnect(q)
             \/ GetStatus(q) \/ GetToken(q) \/ Refresh(q) \/ AskGoogle(q) \/ EndOfCopying(q)
    <3>1. request'[q].stage # "copy"
      <4>1. CASE GetAuthURL(q) \/ Exchange(q) \/ Disconnect(q) \/ GetStatus(q) \/ AskGoogle(q)
                 \/ EndOfCopying(q)
        <5>1. CASE EndOfCopying(q)
          BY <5>1, StageEffect DEF EndOfCopying, Turns
        <5> QED BY <4>1, <5>1, StageEffect DEF GetAuthURL, Exchange, Disconnect, GetStatus, AskGoogle
      <4>2. CASE GetToken(q) \/ Refresh(q) \/ SaveToken(q)
        <5>1. CASE SaveToken(q)
          <6>1. PICK answer : request' = [request EXCEPT ![q].wrote = TRUE, ![q].stage = "client",
                                                        ![q].answer = answer]
            BY <2>0, <5>1 DEF SaveToken
          <6> QED BY <1>0, <6>1 DEF TypeOK, Request
        <5> QED BY <4>2, <5>1, StageEffect DEF GetToken, Refresh
      <4>3. CASE HandleCallback(q)
        BY <2>0, <4>3 DEF HandleCallback, At
      <4> QED BY <2>5, <4>1, <4>2, <4>3
    <3> QED BY <2>0, <3>1
  <2> QED BY <1>2, <2>2, <2>3, <2>4, <2>5 DEF Handle
<1>3. ASSUME NEW r \in Requests, Arrivals(r) \/ (Handle(r) /\ r # q) PROVE request'[q] = request[q]
  <2>1. CASE r # q
    BY <1>3, <2>1, FieldEffect, ArriveEffect DEF Others
  <2>2. CASE r = q
    BY <1>3, <2>2, ArriveEffect DEF Fresh, At
  <2> QED BY <2>1, <2>2
<1>4. CASE Crash
  BY <1>1, <1>4, CrashEffect DEF At
<1> QED BY <1>1, <1>2, <1>3, <1>4 DEF Next, Age, vars

LEMMA TypeStep == TypeOK /\ [Next]_vars => TypeOK'
<1> SUFFICES ASSUME TypeOK, [Next]_vars PROVE TypeOK'
  OBVIOUS
<1>1. ASSUME NEW q \in Requests, At(q, "sync", "copy")' PROVE TodoIn(q)'
  <2>1. request[q] \in Request /\ request[q].user \in Users
    BY DEF TypeOK, Request
  <2>2. /\ DOMAIN google[request[q].user] \subseteq DOMAIN google'[request[q].user]
        /\ DOMAIN events \subseteq DOMAIN events'
    BY <2>1, CalendarStep
  <2>3. TodoIn(q) \/ ~At(q, "sync", "copy")
    BY DEF TodoIn, TypeOK
  <2>4. /\ Importable(request[q].user) \subseteq DOMAIN google[request[q].user]
        /\ Exportable(request[q].user) \subseteq DOMAIN events
    BY DEF Importable, Exportable
  <2> QED BY <1>1, <2>2, <2>3, <2>4, TodoStep DEF TodoIn
<1>2. \A q \in Requests : At(q, "sync", "copy")' => TodoIn(q)'
  BY <1>1
<1> QED BY <1>2, FaultsStep, StoreStep, RequestStep, CalendarStep DEF TypeOK, TodoIn

LEMMA TypeInit == Init => TypeOK
<1> SUFFICES ASSUME Init PROVE TypeOK
  OBVIOUS
<1>1. \A u \in Users : [user |-> u, title |-> u, by |-> OldCopy, of |-> 0] \in Event
  BY DEF Event, Titles, Authors
<1>2. events \in Seq(Event)
  BY <1>1 DEF Init, Users
<1>3. /\ [title |-> Untitled, by |-> OldCopy, of |-> 0] \in GoogleEvent
      /\ [title |-> "meeting", by |-> OldCopy, of |-> 0] \in GoogleEvent
  BY DEF GoogleEvent, Titles, Authors
<1>4. google \in [Users -> Seq(GoogleEvent)]
  BY <1>3 DEF Init
<1>5. Idle \in Request
  BY DEF Idle, Request, Stages, Users, Directions, Answers
<1>6. request \in [Requests -> Request] /\ \A r \in Requests : ~At(r, "sync", "copy")
  BY <1>5 DEF Init, At, Idle
<1>7. tokens \in [Users -> Tokens] /\ pending \subseteq Pending /\ faults \in 0 .. MaxFaults
  BY StoreAssumption DEF Init, Tokens
<1> QED BY <1>2, <1>4, <1>6, <1>7 DEF TypeOK

\* States, tokens and calendars keep their types, and the list a synchronisation
\* works on stays within the calendar it was made from.
THEOREM TypeCorrect == Spec => []TypeOK
BY TypeInit, TypeStep, PTL DEF Spec

-----------------------------------------------------------------------------
(* Which handler a request is in, and what it has seen.                    *)

OpStage == \A r \in Requests :
  /\ request[r].op = "none" <=> request[r].stage = "idle"
  /\ request[r].wrote => request[r].stage # "idle"
  /\ request[r].op = "auth" => request[r].stage \in {"begun", "ended"}
  /\ request[r].op = "disconnect" => request[r].stage \in {"begun", "ended"} /\ request[r].user = Alice
  /\ request[r].op = "callback" =>
       /\ request[r].stage \in {"begun", "exchange", "save", "ended"}
       /\ request[r].wrote => request[r].stage = "ended"
       /\ request[r].state \in Ended /\ request[request[r].state].op = "auth"
  /\ request[r].saw \subseteq Ended

Base == TypeOK /\ OpStage

LEMMA HandleLive ==
    ASSUME NEW r \in Requests, Handle(r)
    PROVE  /\ request[r].stage \notin {"idle", "ended"}
           /\ request[r].stage = "begun" =>
                GetAuthURL(r) \/ HandleCallback(r) \/ Disconnect(r) \/ GetStatus(r)
           /\ request[r].stage \in {"exchange", "save"} => Exchange(r) \/ SaveToken(r)
BY DEF Handle, GetAuthURL, HandleCallback, Exchange, SaveToken, Disconnect, GetStatus, GetToken,
       Refresh, AskGoogle, ListGoogleEvents, ListLocalEvents, ImportOne, ExportOne, EndOfCopying, At

\* What a step makes of one request.
Arrived(q) == request[q].stage = "idle" /\ Arrivals(q) /\ Fresh(request'[q])
Handled(q) == request[q].stage \notin {"idle", "ended"} /\ Handle(q) /\ Stays(q)
Crashed(q) == /\ Crash /\ Stays(q) /\ request'[q].stage = "ended" /\ request'[q].answer = "none"
              /\ request[q].stage \notin {"idle", "ended"}
              /\ request'[q].user = request[q].user /\ request'[q].wrote = request[q].wrote
              /\ request'[q].phase = request[q].phase

LEMMA Frame ==
    ASSUME TypeOK, [Next]_vars, NEW q \in Requests
    PROVE  request'[q] = request[q] \/ Arrived(q) \/ Handled(q) \/ Crashed(q)
<1>1. ASSUME NEW r \in Requests, Handle(r) PROVE request'[q] = request[q] \/ Handled(q)
  BY <1>1, FieldEffect, HandleLive DEF Handled, Others
<1>2. ASSUME NEW r \in Requests, Arrivals(r) PROVE request'[q] = request[q] \/ Arrived(q)
  BY <1>2, ArriveEffect DEF Arrived, Others
<1>3. CASE Crash
  BY <1>3, CrashEffect DEF Crashed, Running
<1> QED BY <1>1, <1>2, <1>3 DEF Next, vars, Age

LEMMA EndedStays ==
    ASSUME TypeOK, [Next]_vars
    PROVE  /\ Ended \subseteq Ended'
           /\ \A q \in Ended : request'[q] = request[q]
BY Frame DEF Ended, Arrived, Handled, Crashed

LEMMA OpStageStep ==
    ASSUME Base, [Next]_vars
    PROVE  OpStage'
<1> SUFFICES ASSUME NEW q \in Requests
    PROVE /\ request'[q].op = "none" <=> request'[q].stage = "idle"
          /\ request'[q].wrote => request'[q].stage # "idle"
          /\ request'[q].op = "auth" => request'[q].stage \in {"begun", "ended"}
          /\ request'[q].op = "disconnect" =>
               request'[q].stage \in {"begun", "ended"} /\ request'[q].user = Alice
          /\ request'[q].op = "callback" =>
               /\ request'[q].stage \in {"begun", "exchange", "save", "ended"}
               /\ request'[q].wrote => request'[q].stage = "ended"
               /\ request'[q].state \in Ended' /\ request'[request'[q].state].op = "auth"
          /\ request'[q].saw \subseteq Ended'
  BY DEF OpStage
<1>0. request[q] \in Request /\ TypeOK /\ Ended \subseteq Ended' /\ Ended \subseteq Requests
      /\ \A e \in Ended : request'[e] = request[e]
  BY EndedStays DEF Base, TypeOK, Ended
<1>1. CASE request'[q] = request[q]
  BY <1>0, <1>1 DEF Base, OpStage
<1>2. CASE Arrived(q)
  BY <1>0, <1>2 DEF Arrived, Fresh
<1>3. CASE Handled(q)
  <2>1. /\ request'[q].op = request[q].op /\ request'[q].state = request[q].state
        /\ request'[q].saw = request[q].saw /\ request'[q].stage \notin {"idle", "begun"}
        /\ request[q].stage \notin {"idle", "ended"} /\ Handle(q)
    BY <1>3 DEF Handled, Stays
  <2>2. request[q].op \in {"auth", "disconnect"} => request'[q].stage = "ended"
    BY <1>0, <2>1, HandleLive, StageEffect
       DEF Base, OpStage, GetAuthURL, HandleCallback, Disconnect, GetStatus, At
  <2>3. request[q].op = "disconnect" => request'[q].user = Alice
    <3>1. ASSUME request[q].op = "disconnect" PROVE request[q].user = Alice /\ ~HandleCallback(q)
      BY <3>1 DEF Base, OpStage, HandleCallback, At
    <3> QED BY <1>0, <2>1, <3>1, FieldEffect
  <2>4. request[q].op = "callback" => request'[q].stage \in {"exchange", "save", "ended"}
    <3>1. CASE HandleCallback(q)
      <4>1. TakesState(q) \/ Ends(q)
        BY <3>1 DEF HandleCallback, TakesState, Ends, Answers
      <4>2. ASSUME TakesState(q) PROVE request'[q].stage \in {"exchange", "ended"}
        <5>1. PICK s \in pending : request' = [request EXCEPT ![q].user = s.user,
                ![q].answer = IF s.old THEN "expired" ELSE request[q].answer,
                ![q].stage = IF s.old THEN "ended" ELSE "exchange"]
          BY <4>2 DEF TakesState
        <5> QED BY <1>0, <5>1 DEF TypeOK, Request
      <4> QED BY <1>0, <4>1, <4>2, StageEffect DEF Ends
    <3>2. CASE Exchange(q)
      BY <1>0, <3>2, StageEffect DEF Exchange
    <3>3. ASSUME SaveToken(q), request[q].op = "callback" PROVE request'[q].stage = "ended"
      <4>1. request' = [request EXCEPT ![q].wrote = TRUE, ![q].stage = "ended", ![q].answer = "ok"]
        BY <3>3 DEF SaveToken
      <4> QED BY <1>0, <4>1 DEF TypeOK, Request
    <3> QED BY <1>0, <2>1, <3>1, <3>2, <3>3, HandleLive
            DEF Base, OpStage, GetAuthURL, Disconnect, GetStatus, At
  <2>5. request[q].op = "callback" /\ request'[q].wrote => request'[q].stage = "ended"
    <3>1. ASSUME SaveToken(q), request[q].op = "callback" PROVE request'[q].stage = "ended"
      <4>1. request' = [request EXCEPT ![q].wrote = TRUE, ![q].stage = "ended", ![q].answer = "ok"]
        BY <3>1 DEF SaveToken
      <4> QED BY <1>0, <4>1 DEF TypeOK, Request
    <3>2. request[q].op = "callback" => ~request[q].wrote
      BY <2>1 DEF Base, OpStage
    <3> QED BY <1>0, <2>1, <3>1, <3>2, FieldEffect
  <2>6. request[q].op = "callback" =>
          request'[q].state \in Ended' /\ request'[request'[q].state].op = "auth"
    BY <1>0, <2>1 DEF Base, OpStage
  <2>7. request'[q].saw \subseteq Ended' /\ request[q].op # "none"
    BY <1>0, <2>1 DEF Base, OpStage
  <2> QED BY <1>0, <2>1, <2>2, <2>3, <2>4, <2>5, <2>6, <2>7
<1>4. CASE Crashed(q)
  BY <1>0, <1>4 DEF Crashed, Stays, Base, OpStage
<1> QED BY <1>0, <1>1, <1>2, <1>3, <1>4, Frame

LEMMA BaseStep == Base /\ [Next]_vars => Base'
BY TypeStep, OpStageStep DEF Base

LEMMA BaseInit == Init => Base
<1> SUFFICES ASSUME Init PROVE OpStage
  BY TypeInit DEF Base
<1>1. \A r \in Requests : /\ request[r].op = "none" /\ request[r].stage = "idle"
                          /\ request[r].saw = {} /\ ~request[r].wrote
  BY DEF Init, Idle
<1> QED BY <1>1 DEF OpStage

-----------------------------------------------------------------------------
(* The states of logins.                                                   *)

\* The callbacks that have taken their state and not failed.
Holds(r) == request[r].op = "callback" /\ (request[r].stage \in {"exchange", "save"} \/ request[r].wrote)

\* A state is in the map for its own user, once, or has been taken by one callback.
StateInv ==
  /\ \A s, t \in pending : s.state = t.state => s = t
  /\ \A s \in pending : s.state \in Ended /\ request[s.state].user = s.user
  /\ \A r \in Requests : Holds(r) =>
       /\ request[request[r].state].user = request[r].user
       /\ \A s \in pending : s.state # request[r].state
       /\ \A q \in Requests : Holds(q) /\ request[q].state = request[r].state => q = r

\* What a callback that takes its state leaves.
LEMMA CallbackEffect ==
    ASSUME TypeOK, NEW r \in Requests, HandleCallback(r), Holds(r)', ~Holds(r)
    PROVE  \E s \in pending : /\ s.state = request[r].state /\ pending' = pending \ {s}
                              /\ request'[r].user = s.user
<1>0. request \in [Requests -> Request]
  BY DEF TypeOK
<1>1. \/ \E s \in pending :
           /\ s.state = request[r].state /\ pending' = pending \ {s}
           /\ request' = [request EXCEPT ![r].user = s.user, ![r].answer = IF s.old THEN "expired" ELSE @,
                                         ![r].stage = IF s.old THEN "ended" ELSE "exchange"]
      \/ End(r, "invalid")
  BY DEF HandleCallback
<1>2. CASE End(r, "invalid")
  <2>1. request[r] \in Request /\ request'[r] = [request[r] EXCEPT !.stage = "ended", !.answer = "invalid"]
    BY <1>2 DEF End, TypeOK
  <2>2. request'[r].stage = "ended" /\ request'[r].wrote = request[r].wrote /\ request'[r].op = request[r].op
    BY <2>1 DEF Request
  <2> QED BY <2>2 DEF Holds
<1>3. ASSUME NEW s \in pending,
             request' = [request EXCEPT ![r].user = s.user, ![r].answer = IF s.old THEN "expired" ELSE @,
                                        ![r].stage = IF s.old THEN "ended" ELSE "exchange"]
      PROVE  request'[r].user = s.user
  <2>1. PICK answer, stage : request' =
          [request EXCEPT ![r].user = s.user, ![r].answer = answer, ![r].stage = stage]
    BY <1>3
  <2>2. request[r] \in Request
    BY <1>0
  <2>3. request'[r] = [request[r] EXCEPT !.user = s.user, !.answer = answer, !.stage = stage]
    BY <1>0, <2>1
  <2> QED BY <2>2, <2>3 DEF Request
<1> QED BY <1>1, <1>2, <1>3

LEMMA HoldsStep ==
    ASSUME Base, [Next]_vars, NEW q \in Requests, Holds(q)'
    PROVE  /\ request'[q].state = request[q].state /\ request[q].op = "callback"
           /\ \/ Holds(q) /\ request'[q].user = request[q].user
              \/ \E s \in pending : /\ s.state = request[q].state /\ pending' = pending \ {s}
                                    /\ request'[q].user = s.user /\ Others(q)
<1>0. TypeOK /\ request[q] \in Request
  BY DEF Base, TypeOK
<1>1. CASE request'[q] = request[q]
  BY <1>1 DEF Holds
<1>2. CASE Arrived(q)
  BY <1>2 DEF Arrived, Fresh, Holds
<1>3. CASE Crashed(q)
  BY <1>3 DEF Crashed, Stays, Holds
<1>4. CASE Handled(q)
  <2>1. Handle(q) /\ request[q].op = "callback" /\ request'[q].state = request[q].state
    BY <1>4 DEF Handled, Stays, Holds
  <2>2. CASE request[q].stage = "begun"
    <3>1. HandleCallback(q)
      BY <2>1, <2>2, HandleLive DEF GetAuthURL, Disconnect, GetStatus, At
    <3>2. ~Holds(q)
      BY <2>1, <2>2 DEF Holds, Base, OpStage
    <3> QED BY <1>0, <2>1, <3>1, <3>2, CallbackEffect, FieldEffect
  <2>3. CASE request[q].stage \in {"exchange", "save"}
    <3>1. Holds(q)
      BY <2>1, <2>3 DEF Holds
    <3>2. request'[q].user = request[q].user
      BY <1>0, <2>1, <2>3, FieldEffect DEF HandleCallback, At
    <3> QED BY <2>1, <3>1, <3>2
  <2> QED BY <1>4, <2>1, <2>2, <2>3 DEF Base, OpStage, Handled
<1> QED BY <1>0, <1>1, <1>2, <1>3, <1>4, Frame

LEMMA PendingStep ==
    ASSUME Base, [Next]_vars
    PROVE  \/ pending' \subseteq pending
           \/ \E r \in Requests :
                /\ request[r].op = "auth" /\ request[r].stage = "begun"
                /\ request'[r].stage = "ended" /\ request'[r].user = request[r].user
                /\ pending' \subseteq pending \cup {[state |-> r, user |-> request[r].user, old |-> FALSE]}
           \/ \E s \in pending : ~s.old /\ pending' = (pending \ {s}) \cup {[s EXCEPT !.old = TRUE]}
<1>1. \/ pending' \subseteq pending
      \/ \E r \in Requests : GetAuthURL(r)
      \/ Age
  BY DEF Next, vars, Handle, HandleCallback, Exchange, SaveToken, Disconnect,
         GetStatus, GetToken, Refresh, AskGoogle, ListGoogleEvents, ListLocalEvents,
         ImportOne, ExportOne, EndOfCopying, Crash, Arrivals, ArriveAuth, ArriveCallback,
         ArriveDisconnect, ArriveSync, ArriveStatus, ArriveWatch, Arrive
<1>2. ASSUME NEW r \in Requests, GetAuthURL(r)
      PROVE  /\ request[r].op = "auth" /\ request[r].stage = "begun"
             /\ request'[r].stage = "ended" /\ request'[r].user = request[r].user
             /\ pending' \subseteq pending \cup {[state |-> r, user |-> request[r].user, old |-> FALSE]}
  <2>1. request'[r].user = request[r].user
    BY <1>2, FieldEffect DEF Base, GetAuthURL, HandleCallback, At, Handle
  <2>2. request'[r].stage = "ended"
    BY <1>2, StageEffect DEF GetAuthURL, Base
  <2> QED BY <1>2, <2>1, <2>2 DEF GetAuthURL, At, cleanupExpiredPendingAuth
<1> QED BY <1>1, <1>2 DEF Age

LEMMA PendingElement ==
    ASSUME Base, [Next]_vars, NEW t \in pending'
    PROVE  \/ t \in pending
           \/ /\ t.state \in Requests /\ request[t.state].stage = "begun"
              /\ t.state \in Ended' /\ request'[t.state].user = t.user
           \/ \E s \in pending : s \notin pending' /\ t.state = s.state /\ t.user = s.user
<1>1. CASE pending' \subseteq pending
  BY <1>1
<1>2. ASSUME NEW r \in Requests, request[r].stage = "begun",
             request'[r].stage = "ended", request'[r].user = request[r].user,
             t = [state |-> r, user |-> request[r].user, old |-> FALSE]
      PROVE  /\ t.state \in Requests /\ request[t.state].stage = "begun"
             /\ t.state \in Ended' /\ request'[t.state].user = t.user
  BY <1>2 DEF Ended
<1>3. ASSUME NEW s \in pending, ~s.old, pending' = (pending \ {s}) \cup {[s EXCEPT !.old = TRUE]},
             t \notin pending
      PROVE  s \notin pending' /\ t.state = s.state /\ t.user = s.user
  <2>1. s \in Pending
    BY DEF Base, TypeOK
  <2>2. t = [s EXCEPT !.old = TRUE] /\ t.old /\ t.state = s.state /\ t.user = s.user
    BY <1>3, <2>1 DEF Pending
  <2> QED BY <1>3, <2>2
<1> QED BY <1>1, <1>2, <1>3, PendingStep

LEMMA StateStep ==
    ASSUME Base, StateInv, [Next]_vars
    PROVE  StateInv'
<1>0. /\ TypeOK /\ Ended \subseteq Ended' /\ \A e \in Ended : request'[e] = request[e]
      /\ Ended \subseteq Requests
      /\ \A s \in pending : s.state \in Requests
      /\ \A r \in Requests : request[r].op = "callback" => request[r].state \in Ended
  BY EndedStays DEF Base, TypeOK, Pending, Ended, OpStage
<1>1. \A s, t \in pending' : s.state = t.state => s = t
  <2>1. ASSUME NEW r \in Requests, request[r].stage = "begun" PROVE \A s \in pending : s.state # r
    BY <2>1 DEF StateInv, Ended
  <2>2. CASE pending' \subseteq pending
    BY <2>2 DEF StateInv
  <2>3. ASSUME NEW r \in Requests, request[r].stage = "begun",
               pending' \subseteq pending \cup {[state |-> r, user |-> request[r].user, old |-> FALSE]}
        PROVE  \A s, t \in pending' : s.state = t.state => s = t
    <3> DEFINE new == [state |-> r, user |-> request[r].user, old |-> FALSE]
    <3>1. new.state = r
      OBVIOUS
    <3> HIDE DEF new
    <3> QED BY <2>1, <2>3, <3>1 DEF StateInv, new
  <2>4. ASSUME NEW s \in pending, pending' = (pending \ {s}) \cup {[s EXCEPT !.old = TRUE]}
        PROVE  \A t, u \in pending' : t.state = u.state => t = u
    <3> DEFINE aged == [s EXCEPT !.old = TRUE]
    <3>1. aged.state = s.state
      BY <1>0 DEF TypeOK, Pending
    <3>2. \A t \in pending \ {s} : t.state # aged.state
      BY <3>1 DEF StateInv
    <3> HIDE DEF aged
    <3> QED BY <2>4, <3>2 DEF StateInv, aged
  <2> QED BY <2>2, <2>3, <2>4, PendingStep
<1>2. \A s \in pending' : s.state \in Ended' /\ request'[s.state].user = s.user
  <2>1. \A s \in pending : s.state \in Ended' /\ request'[s.state].user = s.user
    BY <1>0 DEF StateInv
  <2> QED BY <2>1, PendingElement
<1>3. ASSUME NEW r \in Requests, Holds(r)'
      PROVE  /\ request'[request'[r].state].user = request'[r].user
             /\ \A s \in pending' : s.state # request'[r].state
             /\ \A q \in Requests : Holds(q)' /\ request'[q].state = request'[r].state => q = r
  <2>1. /\ request'[r].state = request[r].state /\ request[r].op = "callback"
        /\ request[r].state \in Ended
        /\ request'[request[r].state] = request[request[r].state]
        /\ request[request[r].state].stage = "ended"
    BY <1>0, <1>3, HoldsStep DEF Ended
  <2>2. ASSUME NEW s \in pending, s.state = request[r].state, pending' = pending \ {s},
               request'[r].user = s.user, Others(r)
        PROVE  /\ request'[request'[r].state].user = request'[r].user
               /\ \A t \in pending' : t.state # request'[r].state
               /\ \A q \in Requests : Holds(q)' /\ request'[q].state = request'[r].state => q = r
    <3>1. request[s.state].user = s.user /\ \A t \in pending : t.state = s.state => t = s
      BY DEF StateInv
    <3>2. ASSUME NEW q \in Requests, q # r, Holds(q)' PROVE request'[q].state # request[r].state
      <4>1. Holds(q) /\ request'[q] = request[q]
        BY <2>2, <3>2 DEF Others, Holds
      <4> QED BY <2>2, <4>1 DEF StateInv
    <3> QED BY <2>1, <2>2, <3>1, <3>2
  <2>3. ASSUME Holds(r), request'[r].user = request[r].user
        PROVE  /\ request'[request'[r].state].user = request'[r].user
               /\ \A s \in pending' : s.state # request'[r].state
               /\ \A q \in Requests : Holds(q)' /\ request'[q].state = request'[r].state => q = r
    <3>1. /\ request[request[r].state].user = request[r].user
          /\ \A s \in pending : s.state # request[r].state
          /\ \A q \in Requests : Holds(q) /\ request[q].state = request[r].state => q = r
      BY <2>3 DEF StateInv
    <3>2. \A s \in pending' : s.state # request[r].state
      BY <2>1, <3>1, PendingElement
    <3>3. ASSUME NEW q \in Requests, Holds(q)', request'[q].state = request[r].state PROVE q = r
      BY <3>1, <3>3, HoldsStep
    <3> QED BY <2>1, <2>3, <3>1, <3>2, <3>3
  <2> QED BY <1>3, <2>2, <2>3, HoldsStep
<1> QED BY <1>1, <1>2, <1>3 DEF StateInv

\* A state connects once, and its own user.
THEOREM StatesConnectOnce == Spec => []StateConnectsOnce
<1>1. Init => Base /\ StateInv
  <2> SUFFICES ASSUME Init PROVE StateInv
    BY BaseInit
  <2>1. pending = {} /\ \A r \in Requests : request[r].op = "none"
    BY DEF Init, Idle
  <2> QED BY <2>1 DEF StateInv, Holds
<1>2. Base /\ StateInv /\ [Next]_vars => (Base /\ StateInv)'
  BY BaseStep, StateStep
<1>3. StateInv => StateConnectsOnce
  BY DEF StateInv, StateConnectsOnce, Holds
<1>4. QED
  BY <1>1, <1>2, <1>3, PTL DEF Spec

-----------------------------------------------------------------------------
(* The map of logins under way.                                            *)

\* Logins enter the map one at a time, so there are finitely many, and the map
\* never shrinks by a login that is neither too old nor brought back.
LEMMA LoginsStep ==
    ASSUME TypeOK, IsFiniteSet(pending), [Next]_vars
    PROVE  /\ IsFiniteSet(pending')
           /\ \A s \in pending : ~s.old /\ (\A t \in pending' : t.state # s.state) =>
                \/ faults' > faults
                \/ \E r \in Requests : request[r].op = "callback" /\ request[r].state = s.state
           /\ Cardinality(pending') > Cardinality(pending) /\ Cardinality(pending') > PendingMax =>
                \A s \in pending' : ~s.old
<1> DEFINE Leaves(s) == ~s.old /\ \A t \in pending' : t.state # s.state
           Excused(s) == \/ faults' > faults
                         \/ \E r \in Requests : request[r].op = "callback" /\ request[r].state = s.state
           Grows == Cardinality(pending') > Cardinality(pending) /\ Cardinality(pending') > PendingMax
<1>0. Cardinality(pending) \in Nat /\ pending \subseteq Pending
  BY FS_CardinalityType DEF TypeOK
<1>1. ASSUME pending' \subseteq pending PROVE IsFiniteSet(pending') /\ ~Grows
  <2>1. IsFiniteSet(pending') /\ Cardinality(pending') <= Cardinality(pending)
    BY <1>1, FS_Subset
  <2>2. Cardinality(pending') \in Nat
    BY <2>1, FS_CardinalityType
  <2> QED BY <1>0, <2>1, <2>2
<1>2. ASSUME NEW r \in Requests, GetAuthURL(r)
      PROVE  /\ IsFiniteSet(pending')
             /\ \A s \in pending : ~Leaves(s)
             /\ Grows => \A s \in pending' : ~s.old
  <2> DEFINE new == [state |-> r, user |-> request[r].user, old |-> FALSE]
             kept == IF Cardinality(pending) >= PendingMax
                     THEN {s \in pending : ~s.old} ELSE pending
  <2>1. pending' = kept \cup {new}
    BY <1>2 DEF GetAuthURL, cleanupExpiredPendingAuth
  <2>2. kept \subseteq pending /\ (\A s \in pending : ~s.old => s \in kept) /\ ~new.old
    OBVIOUS
  <2>3. IsFiniteSet(kept) /\ Cardinality(kept) <= Cardinality(pending)
    BY <2>2, FS_Subset
  <2>4. /\ IsFiniteSet(kept \cup {new}) /\ Cardinality(kept) \in Nat
        /\ Cardinality(kept \cup {new}) <= Cardinality(kept) + 1
    <3>1. /\ IsFiniteSet(kept \cup {new}) /\ Cardinality(kept) \in Nat
          /\ \/ Cardinality(kept \cup {new}) = Cardinality(kept)
             \/ Cardinality(kept \cup {new}) = Cardinality(kept) + 1
      BY <2>3, FS_AddElement, FS_CardinalityType
    <3> QED BY <3>1
  <2>5. CASE Cardinality(pending) >= PendingMax
    <3>1. \A s \in kept : ~s.old
      BY <2>5
    <3> HIDE DEF kept, new
    <3> QED BY <2>1, <2>2, <2>4, <3>1
  <2>6. CASE ~(Cardinality(pending) >= PendingMax)
    <3>1. Cardinality(kept \cup {new}) \in Nat
      BY <2>4, FS_CardinalityType
    <3> HIDE DEF kept, new
    <3>2. ~Grows
      BY <1>0, <2>1, <2>3, <2>4, <2>6, <3>1, StoreAssumption
    <3> QED BY <2>1, <2>2, <2>4, <3>2
  <2> QED BY <2>5, <2>6
<1>3. ASSUME NEW r \in Requests, HandleCallback(r)
      PROVE  pending' \subseteq pending /\ \A s \in pending : Leaves(s) => Excused(s)
  <2>1. request[r].op = "callback"
    BY <1>3 DEF HandleCallback, At
  <2>2. \/ pending' = pending
        \/ \E s \in pending : s.state = request[r].state /\ pending' = pending \ {s}
    BY <1>3 DEF HandleCallback
  <2> QED BY <2>1, <2>2
<1>4. ASSUME Age PROVE IsFiniteSet(pending') /\ ~Grows /\ \A s \in pending : ~Leaves(s)
  <2>1. PICK s \in pending : pending' = (pending \ {s}) \cup {[s EXCEPT !.old = TRUE]}
    BY <1>4 DEF Age
  <2> DEFINE aged == [s EXCEPT !.old = TRUE]
  <2>2. aged.state = s.state
    BY <1>0 DEF Pending
  <2>3. IsFiniteSet(pending \ {s}) /\ Cardinality(pending \ {s}) = Cardinality(pending) - 1
    BY FS_RemoveElement
  <2>4. /\ IsFiniteSet((pending \ {s}) \cup {aged})
        /\ \/ Cardinality((pending \ {s}) \cup {aged}) = Cardinality(pending \ {s})
           \/ Cardinality((pending \ {s}) \cup {aged}) = Cardinality(pending \ {s}) + 1
    BY <2>3, FS_AddElement
  <2> HIDE DEF aged
  <2>5. IsFiniteSet(pending') /\ ~Grows
    BY <1>0, <2>1, <2>3, <2>4 DEF aged
  <2>6. \A t \in pending : ~Leaves(t)
    BY <2>1, <2>2 DEF aged
  <2> QED BY <2>5, <2>6
<1>5. ASSUME Crash PROVE pending' \subseteq pending /\ \A s \in pending : Excused(s)
  <2>1. pending' = {} /\ faults' = faults + 1
    BY <1>5 DEF Crash
  <2>2. faults \in Nat
    BY StoreAssumption DEF TypeOK
  <2>3. faults' > faults
    BY <2>1, <2>2
  <2> QED BY <2>1, <2>3
<1>6. ASSUME UNCHANGED pending PROVE pending' \subseteq pending /\ \A s \in pending : ~Leaves(s)
  BY <1>6
<1>7. \/ \E r \in Requests : GetAuthURL(r) \/ HandleCallback(r)
      \/ Age \/ Crash \/ UNCHANGED pending
  BY DEF Next, vars, Handle, Exchange, SaveToken, Disconnect,
         GetStatus, GetToken, Refresh, AskGoogle, ListGoogleEvents, ListLocalEvents,
         ImportOne, ExportOne, EndOfCopying, Arrivals, ArriveAuth, ArriveCallback,
         ArriveDisconnect, ArriveSync, ArriveStatus, ArriveWatch, Arrive
<1> HIDE DEF Leaves, Excused, Grows
<1>8. /\ IsFiniteSet(pending')
      /\ \A s \in pending : Leaves(s) => Excused(s)
      /\ Grows => \A s \in pending' : ~s.old
  BY <1>1, <1>2, <1>3, <1>4, <1>5, <1>6, <1>7
<1> QED BY <1>8 DEF Leaves, Excused, Grows

\* For any number of logins and any bound of the map: a login can be completed
\* until it is too old, and those given up do not pile up past the bound.
THEOREM LoginsArePending == Spec => PendingLogins
<1>1. Init => IsFiniteSet(pending)
  BY FS_EmptySet DEF Init
<1>2. TypeOK /\ IsFiniteSet(pending) /\ [Next]_vars => IsFiniteSet(pending)'
  BY LoginsStep
<1>3. TypeOK /\ IsFiniteSet(pending) /\ [Next]_vars =>
        [/\ \A s \in pending : ~s.old /\ (\A t \in pending' : t.state # s.state) =>
              \/ faults' > faults
              \/ \E r \in Requests : request[r].op = "callback" /\ request[r].state = s.state
         /\ Cardinality(pending') > Cardinality(pending) /\ Cardinality(pending') > PendingMax =>
              \A s \in pending' : ~s.old]_vars
  BY LoginsStep
<1> QED BY <1>1, <1>2, <1>3, TypeCorrect, PTL DEF Spec, PendingLogins

-----------------------------------------------------------------------------
(* Disconnections.                                                         *)

\* Somebody saved a token of Alice, and was not over before d nor began after it.
Rewritten(d) ==
  \E w \in Requests : /\ request[w].wrote /\ request[w].user = Alice
                      /\ w \notin request[d].saw
                      /\ request[w].op = "callback" \/ d \notin request[w].saw

\* A request that is about to refresh a token has found one.
Refreshing(d) ==
  \E w \in Requests : /\ request[w].op # "callback" /\ request[w].stage \in {"refresh", "save"}
                      /\ request[w].user = Alice /\ d \in request[w].saw

\* After a disconnection there is a token, or a request that has come since holds
\* one, only if somebody has written.
TokenInv ==
  \A d \in Requests : Answered(d, "disconnect") /\ (tokens[Alice] # NoToken \/ Refreshing(d))
    => Rewritten(d)

LEMMA SaveEffect ==
    ASSUME TypeOK, NEW r \in Requests, SaveToken(r)
    PROVE  request'[r].wrote /\ request'[r].stage \in {"ended", "client"}
<1>1. PICK stage \in {"ended", "client"}, answer \in {"ok", request[r].answer} :
        request' = [request EXCEPT ![r].wrote = TRUE, ![r].stage = stage, ![r].answer = answer]
  BY DEF SaveToken
<1>2. request[r] \in Request
  BY DEF TypeOK
<1>3. request'[r] = [request[r] EXCEPT !.wrote = TRUE, !.stage = stage, !.answer = answer]
  BY <1>1 DEF TypeOK
<1> QED BY <1>2, <1>3 DEF Request

LEMMA WroteStays ==
    ASSUME Base, [Next]_vars, NEW w \in Requests, request[w].wrote
    PROVE  /\ request'[w].wrote /\ request'[w].user = request[w].user
           /\ request'[w].op = request[w].op /\ request'[w].saw = request[w].saw
<1>0. TypeOK /\ request[w].stage # "idle"
  BY DEF Base, OpStage
<1>1. CASE request'[w] = request[w]
  BY <1>1
<1>2. CASE Handled(w)
  <2>1. Handle(w) /\ Stays(w) /\ request[w].stage # "ended"
    BY <1>2 DEF Handled
  <2>2. ~HandleCallback(w)
    BY <2>1 DEF Base, OpStage, HandleCallback, At
  <2>3. request'[w].wrote
    BY <1>0, <2>1, FieldEffect, SaveEffect
  <2> QED BY <1>0, <2>1, <2>2, <2>3, FieldEffect DEF Stays
<1>3. CASE Crashed(w)
  BY <1>3 DEF Crashed, Stays
<1> QED BY <1>0, <1>1, <1>2, <1>3, Frame DEF Arrived

LEMMA TokenStage ==
    ASSUME TypeOK, NEW w \in Requests, Handle(w), request[w].op # "callback",
           request'[w].stage \in {"refresh", "save"}
    PROVE  \/ request[w].stage = "refresh"
           \/ tokens[request[w].user] # NoToken
<1>1. CASE GetAuthURL(w) \/ Disconnect(w) \/ AskGoogle(w) \/ EndOfCopying(w) \/ GetStatus(w)
  <2>1. EndOfCopying(w) => request'[w].stage \in {"token", "ended"}
    BY StageEffect DEF EndOfCopying, Turns
  <2> QED BY <1>1, <2>1, StageEffect DEF GetAuthURL, Disconnect, AskGoogle, GetStatus
<1>2. CASE HandleCallback(w) \/ Exchange(w)
  BY <1>2 DEF HandleCallback, Exchange, At
<1>3. CASE SaveToken(w)
  BY <1>3, SaveEffect
<1>4. CASE GetToken(w) \/ Refresh(w)
  BY <1>4, StageEffect DEF GetToken, Refresh
<1>5. CASE ListGoogleEvents(w) \/ ListLocalEvents(w)
  <2>1. Lists(w) => request'[w].stage = "copy"
    BY DEF Lists, TypeOK, Request
  <2>2. ~Lists(w) => WithoutClient(w)
    BY <1>5, TodoType DEF ListGoogleEvents, ListLocalEvents, Lists
  <2> QED BY <2>1, <2>2, StageEffect
<1>6. CASE ImportOne(w)
  <2>1. PICK n \in {request[w].imported, request[w].imported + 1} :
          request' = [request EXCEPT ![w].todo = @ \ {Min(request[w].todo)}, ![w].imported = n]
    BY <1>6 DEF ImportOne
  <2>2. request[w].stage = "copy" /\ request[w] \in Request
    BY <1>6 DEF ImportOne, At, TypeOK
  <2> QED BY <2>1, <2>2 DEF TypeOK, Request
<1>7. CASE ExportOne(w)
  <2>1. PICK n \in {request[w].exported, request[w].exported + 1} :
          request' = [request EXCEPT ![w].todo = @ \ {Min(request[w].todo)}, ![w].exported = n]
    BY <1>7 DEF ExportOne
  <2>2. request[w].stage = "copy" /\ request[w] \in Request
    BY <1>7 DEF ExportOne, At, TypeOK
  <2> QED BY <2>1, <2>2 DEF TypeOK, Request
<1> QED BY <1>1, <1>2, <1>3, <1>4, <1>5, <1>6, <1>7 DEF Handle

LEMMA TokensStep ==
    ASSUME TypeOK, [Next]_vars
    PROVE  \/ tokens'[Alice] \in {tokens[Alice], NoToken}
           \/ \E r \in Requests : SaveToken(r) /\ request[r].user = Alice
<1>1. \/ tokens' = tokens \/ tokens' = [u \in Users |-> NoToken]
      \/ \E r \in Requests : SaveToken(r) \/ Disconnect(r)
  BY DEF Next, vars, Handle, GetAuthURL, HandleCallback, Exchange,
         GetStatus, GetToken, Refresh, AskGoogle, ListGoogleEvents, ListLocalEvents, Age,
         ImportOne, ExportOne, EndOfCopying, Crash, Arrivals, ArriveAuth, ArriveCallback,
         ArriveDisconnect, ArriveSync, ArriveStatus, ArriveWatch, Arrive
<1>2. Alice \in Users /\ tokens \in [Users -> Tokens] /\ \A r \in Requests : request[r].user \in Users
  BY DEF TypeOK, Users, Request
<1> QED BY <1>1, <1>2 DEF SaveToken, Disconnect

LEMMA DisconnectNews ==
    ASSUME Base, [Next]_vars, NEW d \in Requests, Answered(d, "disconnect")', ~Answered(d, "disconnect")
    PROVE  tokens'[Alice] = NoToken /\ d \notin Ended /\ Others(d)
<1>0. TypeOK
  BY DEF Base
<1>1. request'[d] # request[d] /\ ~Arrived(d) /\ ~Crashed(d)
  BY DEF Answered, Arrived, Fresh, Crashed
<1>2. Handle(d) /\ request[d].op = "disconnect" /\ d \notin Ended
  BY <1>0, <1>1, Frame DEF Handled, Stays, Answered, Ended
<1>3. Disconnect(d) /\ request[d].user = Alice
  BY <1>2, HandleLive DEF Base, OpStage, GetAuthURL, HandleCallback, GetStatus, At, Ended
<1>4. tokens'[Alice] = NoToken
  BY <1>3 DEF Disconnect, Base, TypeOK, Users
<1> QED BY <1>0, <1>2, <1>4, FieldEffect

LEMMA TokenInvStep ==
    ASSUME Base, TokenInv, [Next]_vars
    PROVE  TokenInv'
<1> SUFFICES ASSUME NEW d \in Requests, Answered(d, "disconnect")',
                    tokens'[Alice] # NoToken \/ Refreshing(d)'
             PROVE  Rewritten(d)'
  BY DEF TokenInv
<1>0. TypeOK /\ \A w \in Requests : request[w].saw \subseteq Ended
  BY DEF Base, OpStage
<1>1. CASE ~Answered(d, "disconnect")
  <2>1. tokens'[Alice] = NoToken /\ d \notin Ended /\ Others(d)
    BY <1>1, DisconnectNews
  <2>2. PICK w \in Requests : request'[w].stage \in {"refresh", "save"} /\ d \in request'[w].saw
    BY <2>1 DEF Refreshing
  <2>3. w # d
    BY <2>2 DEF Answered
  <2>4. request'[w] = request[w]
    BY <2>1, <2>3 DEF Others
  <2> QED BY <1>0, <2>1, <2>2, <2>4
<1>2. CASE Answered(d, "disconnect")
  <2>1. request'[d] = request[d] /\ d \in Ended
    BY <1>0, <1>2, EndedStays DEF Answered, Ended
  <2>2. ASSUME Rewritten(d) PROVE Rewritten(d)'
    BY <2>1, <2>2, WroteStays DEF Rewritten
  <2>3. tokens[Alice] # NoToken \/ Refreshing(d) => Rewritten(d)
    BY <1>2 DEF TokenInv
  <2>4. CASE tokens'[Alice] # NoToken
    <3>1. CASE tokens[Alice] # NoToken
      BY <2>2, <2>3, <3>1
    <3>2. CASE tokens[Alice] = NoToken
      <4>1. PICK r \in Requests : SaveToken(r) /\ request[r].user = Alice
        BY <1>0, <2>4, <3>2, TokensStep
      <4>2. /\ request'[r].wrote /\ request'[r].user = Alice /\ request'[r].op = request[r].op
            /\ request'[r].saw = request[r].saw /\ request[r].stage = "save"
        <5>1. Handle(r)
          BY <4>1 DEF Handle
        <5>2. ~HandleCallback(r)
          BY <4>1 DEF SaveToken, HandleCallback, At
        <5> QED BY <1>0, <4>1, <5>1, <5>2, FieldEffect, SaveEffect DEF Stays, SaveToken
      <4>3. r \notin Ended /\ r \notin request'[d].saw
        BY <1>0, <2>1, <4>2 DEF Ended
      <4>4. CASE request[r].op = "callback" \/ d \notin request[r].saw
        BY <4>2, <4>3, <4>4 DEF Rewritten
      <4>5. CASE request[r].op # "callback" /\ d \in request[r].saw
        <5>1. Refreshing(d)
          BY <4>1, <4>2, <4>5 DEF Refreshing
        <5> QED BY <2>2, <2>3, <5>1
      <4> QED BY <4>4, <4>5
    <3> QED BY <3>1, <3>2
  <2>5. CASE Refreshing(d)'
    <3>1. PICK w \in Requests : /\ request'[w].op # "callback" /\ request'[w].stage \in {"refresh", "save"}
                                /\ request'[w].user = Alice /\ d \in request'[w].saw
      BY <2>5 DEF Refreshing
    <3>2. CASE request'[w] = request[w]
      <4>1. Refreshing(d)
        BY <3>1, <3>2 DEF Refreshing
      <4> QED BY <2>2, <2>3, <4>1
    <3>3. CASE Handled(w)
      <4>1. /\ Handle(w) /\ request[w].op # "callback" /\ d \in request[w].saw
            /\ request[w].user = Alice
        <5>1. Handle(w) /\ request[w].op # "callback" /\ d \in request[w].saw
          BY <3>1, <3>3 DEF Handled, Stays
        <5> QED BY <1>0, <3>1, <5>1, FieldEffect DEF HandleCallback, At
      <4>2. request[w].stage = "refresh" \/ tokens[Alice] # NoToken
        BY <1>0, <3>1, <4>1, TokenStage
      <4>3. request[w].stage = "refresh" => Refreshing(d)
        BY <4>1 DEF Refreshing
      <4> QED BY <2>2, <2>3, <4>2, <4>3
    <3> QED BY <1>0, <3>1, <3>2, <3>3, Frame DEF Arrived, Fresh, Crashed
  <2> QED BY <2>4, <2>5
<1> QED BY <1>1, <1>2

\* Only who ran beside a disconnection, or logged in, connects the user again.
THEOREM ReconnectionOverlaps == Spec => []ReconnectedOnlyByOverlap
<1>1. Init => Base /\ TokenInv
  <2> SUFFICES ASSUME Init PROVE TokenInv
    BY BaseInit
  <2>1. \A r \in Requests : request[r].op = "none"
    BY DEF Init, Idle
  <2> QED BY <2>1 DEF TokenInv, Answered
<1>2. Base /\ TokenInv /\ [Next]_vars => (Base /\ TokenInv)'
  BY BaseStep, TokenInvStep
<1>3. TokenInv => ReconnectedOnlyByOverlap
  BY DEF TokenInv, ReconnectedOnlyByOverlap, Rewritten
<1>4. QED
  BY <1>1, <1>2, <1>3, PTL DEF Spec

-----------------------------------------------------------------------------
(* Synchronisations: nobody else's events, and counts that are true.       *)

OwnTitles ==
  /\ \A i \in DOMAIN events : events[i].title \in Users => events[i].title = events[i].user
  /\ OthersStayOut
  /\ \A r \in Requests : At(r, "sync", "copy") /\ request[r].phase # "import" =>
       \A i \in request[r].todo : events[i].user = request[r].user

LEMMA OwnTitlesStep ==
    ASSUME TypeOK, OwnTitles, [Next]_vars
    PROVE  OwnTitles'
<1>0. /\ events \in Seq(Event) /\ google \in [Users -> Seq(GoogleEvent)]
      /\ \A r \in Requests : request[r].user \in Users
  BY DEF TypeOK, Request
<1>1. \A i \in DOMAIN events' : events'[i].title \in Users => events'[i].title = events'[i].user
  <2>1. ASSUME NEW r \in Requests, Imported(r), NEW row \in Event, events' = Append(events, row),
               row.user = request[r].user,
               row.title = google[request[r].user][Min(request[r].todo)].title
        PROVE  \A i \in DOMAIN events' : events'[i].title \in Users => events'[i].title = events'[i].user
    <3>1. Min(request[r].todo) \in DOMAIN google[request[r].user]
      BY <2>1, NextInList DEF Imported, ImportOne
    <3>2. row.title \in Users => row.title = row.user
      BY <1>0, <2>1, <3>1 DEF OwnTitles, OthersStayOut
    <3> QED BY <1>0, <2>1, <3>2, AppendProperties DEF OwnTitles
  <2>2. CASE events' = events
    BY <2>2 DEF OwnTitles
  <2> QED BY <2>1, <2>2, CalendarCases DEF Imported, Exported
<1>2. OthersStayOut'
  <2>1. ASSUME NEW r \in Requests, Exported(r), NEW row \in GoogleEvent,
               google' = [google EXCEPT ![request[r].user] = Append(@, row)],
               row.title = events[Min(request[r].todo)].title
        PROVE  OthersStayOut'
    <3>1. /\ Min(request[r].todo) \in request[r].todo
          /\ Min(request[r].todo) \in DOMAIN events
          /\ At(r, "sync", "copy") /\ request[r].phase # "import"
      BY <2>1, NextInList DEF Exported, ExportOne
    <3>2. row.title \in Users => row.title = request[r].user
      BY <2>1, <3>1 DEF OwnTitles
    <3>3. \A u \in Users : google'[u] = IF u = request[r].user THEN Append(google[u], row) ELSE google[u]
      BY <1>0, <2>1
    <3>4. \A u \in Users : google[u] \in Seq(GoogleEvent)
      BY <1>0
    <3>5. ASSUME NEW u \in Users, NEW i \in DOMAIN google'[u], google'[u][i].title \in Users
          PROVE  google'[u][i].title = u
      <4>1. CASE u # request[r].user
        BY <3>3, <3>5, <4>1 DEF OwnTitles, OthersStayOut
      <4>0. /\ \A k \in DOMAIN google[u] : Append(google[u], row)[k] = google[u][k]
            /\ DOMAIN Append(google[u], row) = DOMAIN google[u] \cup {Len(google[u]) + 1}
            /\ Append(google[u], row)[Len(google[u]) + 1] = row
        <5>1. google[u] \in Seq(GoogleEvent)
          BY <3>4
        <5> QED BY <5>1, AppendProperties
      <4>2. CASE u = request[r].user /\ i \in DOMAIN google[u]
        <5>1. google'[u][i] = google[u][i]
          BY <3>3, <4>0, <4>2
        <5> QED BY <3>5, <4>2, <5>1 DEF OwnTitles, OthersStayOut
      <4>3. CASE u = request[r].user /\ i \notin DOMAIN google[u]
        <5>1. google'[u][i] = row
          BY <3>3, <3>5, <4>0, <4>3
        <5> QED BY <3>2, <3>5, <4>3, <5>1
      <4> QED BY <4>1, <4>2, <4>3
    <3> QED BY <3>5 DEF OthersStayOut
  <2>2. CASE google' = google
    BY <2>2 DEF OwnTitles, OthersStayOut
  <2> QED BY <2>1, <2>2, CalendarCases DEF Imported, Exported
<1>3. ASSUME NEW r \in Requests, At(r, "sync", "copy")', request'[r].phase # "import",
             NEW i \in request'[r].todo
      PROVE  events'[i].user = request'[r].user
  <2>1. i \in DOMAIN events /\ events[i].user = request[r].user
    <3>1. CASE At(r, "sync", "copy") /\ request'[r].todo \subseteq request[r].todo
      BY <1>3, <3>1, TodoStep DEF OwnTitles, TypeOK
    <3>2. CASE request'[r].todo = Exportable(request[r].user)
      BY <1>3, <3>2 DEF Exportable
    <3> QED BY <1>3, <3>1, <3>2, TodoStep
  <2>2. request'[r].user = request[r].user
    BY <1>3, TodoStep
  <2> QED BY <2>1, <2>2, CalendarStep
<1> QED BY <1>1, <1>2, <1>3 DEF OwnTitles

LEMMA CopiesType ==
    ASSUME NEW T, NEW calendar \in Seq(T), NEW r
    PROVE  CopiesBy(calendar, r) \in Nat
<1>1. DOMAIN calendar = 1 .. Len(calendar) /\ Len(calendar) \in Nat
  OBVIOUS
<1>2. IsFiniteSet({i \in DOMAIN calendar : calendar[i].by = r})
  <2>1. IsFiniteSet(DOMAIN calendar)
    BY <1>1, FS_Interval
  <2> QED BY <2>1, FS_Subset
<1> QED BY <1>2, FS_CardinalityType DEF CopiesBy

LEMMA CopiesAppend ==
    ASSUME NEW T, NEW calendar \in Seq(T), NEW row \in T, NEW r
    PROVE  CopiesBy(Append(calendar, row), r) =
             IF row.by = r THEN CopiesBy(calendar, r) + 1 ELSE CopiesBy(calendar, r)
<1> DEFINE Old == {i \in DOMAIN calendar : calendar[i].by = r}
           New == {i \in DOMAIN Append(calendar, row) : Append(calendar, row)[i].by = r}
           next == Len(calendar) + 1
<1>1. /\ DOMAIN calendar = 1 .. Len(calendar) /\ Len(calendar) \in Nat
      /\ DOMAIN Append(calendar, row) = 1 .. next
      /\ \A i \in 1 .. Len(calendar) : Append(calendar, row)[i] = calendar[i]
      /\ Append(calendar, row)[next] = row
  BY AppendProperties
<1>2. next \notin Old /\ DOMAIN Append(calendar, row) = DOMAIN calendar \cup {next}
      /\ next \notin DOMAIN calendar
  BY <1>1
<1>3. IsFiniteSet(Old)
  <2>1. IsFiniteSet(DOMAIN calendar)
    BY <1>1, FS_Interval
  <2> QED BY <2>1, FS_Subset
<1>4. CASE row.by = r
  <2>1. New = Old \cup {next}
    BY <1>1, <1>2, <1>4
  <2>2. Cardinality(New) = Cardinality(Old) + 1
    BY <1>2, <1>3, <2>1, FS_AddElement
  <2> QED BY <1>4, <2>2 DEF CopiesBy
<1>5. CASE row.by # r
  <2>1. New = Old
    BY <1>1, <1>2, <1>5
  <2> QED BY <1>5, <2>1 DEF CopiesBy
<1> QED BY <1>4, <1>5

\* Only synchronisations copy; they count what they have copied, and miss at most
\* copies whose answer was lost.
CountInv ==
  \A r \in Requests :
    /\ request[r].imported <= CopiesBy(events, r)
    /\ request[r].exported <= CopiesBy(google[request[r].user], r)
    /\ faults = 0 => /\ request[r].imported = CopiesBy(events, r)
                     /\ request[r].exported = CopiesBy(google[request[r].user], r)
    /\ request[r].op # "sync" =>
         /\ CopiesBy(events, r) = 0 /\ \A u \in Users : CopiesBy(google[u], r) = 0
         /\ request[r].imported = 0 /\ request[r].exported = 0

LEMMA CountStep ==
    ASSUME Base, CountInv, [Next]_vars
    PROVE  CountInv'
<1> SUFFICES ASSUME NEW q \in Requests
    PROVE /\ request'[q].imported <= CopiesBy(events', q)
          /\ request'[q].exported <= CopiesBy(google'[request'[q].user], q)
          /\ faults' = 0 => /\ request'[q].imported = CopiesBy(events', q)
                            /\ request'[q].exported = CopiesBy(google'[request'[q].user], q)
          /\ request'[q].op # "sync" =>
               /\ CopiesBy(events', q) = 0 /\ \A u \in Users : CopiesBy(google'[u], q) = 0
               /\ request'[q].imported = 0 /\ request'[q].exported = 0
  BY DEF CountInv
<1>0. /\ TypeOK /\ request[q] \in Request /\ request[q].user \in Users
      /\ request[q].imported \in Nat /\ request[q].exported \in Nat
      /\ events \in Seq(Event) /\ google \in [Users -> Seq(GoogleEvent)]
      /\ \A u \in Users : google[u] \in Seq(GoogleEvent)
      /\ faults \in Nat /\ faults' \in Nat /\ faults' >= faults
  <2>1. MaxFaults \in Nat
    BY StoreAssumption
  <2>2. TypeOK /\ faults' \in 0 .. MaxFaults /\ faults' >= faults /\ faults \in 0 .. MaxFaults
    BY FaultsStep DEF Base, TypeOK
  <2>3. faults \in Nat /\ faults' \in Nat
    BY <2>1, <2>2
  <2> QED BY <2>2, <2>3 DEF TypeOK, Request
<1>1. CopiesBy(events, q) \in Nat /\ \A u \in Users : CopiesBy(google[u], q) \in Nat
  BY <1>0, CopiesType
<1>2. ASSUME NEW r \in Requests, Imported(r)
      PROVE  /\ request'[q].imported <= CopiesBy(events', q)
             /\ faults' = 0 => request'[q].imported = CopiesBy(events', q)
             /\ r # q => CopiesBy(events', q) = CopiesBy(events, q)
  <2>0. Handle(r) /\ google' = google
    BY <1>2 DEF Imported, Handle
  <2>1. r # q => request'[q] = request[q]
    BY <1>0, <2>0, FieldEffect DEF Others
  <2>2. CASE events' = events /\ faults' = faults + 1 /\ request'[r].imported = request[r].imported
    BY <1>0, <1>1, <2>1, <2>2 DEF CountInv
  <2>3. ASSUME NEW row \in Event, events' = Append(events, row), row.by = r,
               \/ faults' = faults /\ request'[r].imported = request[r].imported + 1
               \/ faults' = faults + 1 /\ request'[r].imported = request[r].imported
        PROVE  /\ request'[q].imported <= CopiesBy(events', q)
               /\ faults' = 0 => request'[q].imported = CopiesBy(events', q)
               /\ r # q => CopiesBy(events', q) = CopiesBy(events, q)
    <3>1. CopiesBy(events', q) = IF r = q THEN CopiesBy(events, q) + 1 ELSE CopiesBy(events, q)
      BY <1>0, <2>3, CopiesAppend
    <3> QED BY <1>0, <1>1, <2>1, <2>3, <3>1 DEF CountInv
  <2> QED BY <1>2, <2>2, <2>3 DEF Imported
<1>3. ASSUME NEW r \in Requests, Exported(r)
      PROVE  /\ request'[q].exported <= CopiesBy(google'[request[q].user], q)
             /\ faults' = 0 => request'[q].exported = CopiesBy(google'[request[q].user], q)
             /\ r # q => \A u \in Users : CopiesBy(google'[u], q) = CopiesBy(google[u], q)
  <2>0. Handle(r) /\ events' = events
    BY <1>3 DEF Exported, Handle
  <2>1. r # q => request'[q] = request[q]
    BY <1>0, <2>0, FieldEffect DEF Others
  <2>2. CASE google' = google /\ faults' = faults + 1 /\ request'[r].exported = request[r].exported
    BY <1>0, <1>1, <2>1, <2>2 DEF CountInv
  <2>3. ASSUME NEW row \in GoogleEvent, row.by = r,
               google' = [google EXCEPT ![request[r].user] = Append(@, row)],
               \/ faults' = faults /\ request'[r].exported = request[r].exported + 1
               \/ faults' = faults + 1 /\ request'[r].exported = request[r].exported
        PROVE  /\ request'[q].exported <= CopiesBy(google'[request[q].user], q)
               /\ faults' = 0 => request'[q].exported = CopiesBy(google'[request[q].user], q)
               /\ r # q => \A u \in Users : CopiesBy(google'[u], q) = CopiesBy(google[u], q)
    <3>1. \A u \in Users : google'[u] = IF u = request[r].user THEN Append(google[u], row) ELSE google[u]
      BY <1>0, <2>3
    <3>2. \A u \in Users : CopiesBy(Append(google[u], row), q) =
            IF r = q THEN CopiesBy(google[u], q) + 1 ELSE CopiesBy(google[u], q)
      BY <1>0, <2>3, CopiesAppend
    <3>3. CASE r # q
      BY <1>0, <1>1, <2>1, <2>3, <3>1, <3>2, <3>3 DEF CountInv
    <3>4. CASE r = q
      <4>1. CopiesBy(google'[request[q].user], q) = CopiesBy(google[request[q].user], q) + 1
        BY <1>0, <3>1, <3>2, <3>4
      <4> QED BY <1>0, <1>1, <2>3, <3>4, <4>1 DEF CountInv
    <3> QED BY <3>3, <3>4
  <2> QED BY <1>3, <2>2, <2>3 DEF Exported
<1>4. ASSUME NEW r \in Requests, Imported(r) \/ Exported(r)
      PROVE  /\ r # q => request'[q] = request[q]
             /\ request'[q].user = request[q].user /\ request'[q].op = request[q].op
             /\ r = q => request[q].op = "sync"
             /\ Imported(r) => request'[q].exported = request[q].exported
             /\ Exported(r) => request'[q].imported = request[q].imported
  <2>1. Handle(r) /\ request[r].op = "sync" /\ (Imported(r) => ~ExportOne(r)) /\ (Exported(r) => ~ImportOne(r))
    BY <1>4 DEF Imported, Exported, ImportOne, ExportOne, Handle, At
  <2>2. ~HandleCallback(r)
    BY <2>1 DEF HandleCallback, At
  <2> QED BY <1>0, <2>1, <2>2, FieldEffect DEF Others, Stays
<1>5. ASSUME NEW r \in Requests, Imported(r)
      PROVE  /\ request'[q].exported <= CopiesBy(google'[request'[q].user], q)
             /\ faults' = 0 => request'[q].exported = CopiesBy(google'[request'[q].user], q)
             /\ request'[q].op # "sync" =>
                  /\ CopiesBy(events', q) = 0 /\ \A u \in Users : CopiesBy(google'[u], q) = 0
                  /\ request'[q].imported = 0 /\ request'[q].exported = 0
  <2>1. google' = google
    BY <1>5 DEF Imported
  <2>2. /\ request'[q].exported = request[q].exported /\ request'[q].user = request[q].user
        /\ request'[q].op # "sync" => r # q /\ request'[q] = request[q]
    BY <1>4, <1>5
  <2>3. faults' = 0 => faults = 0
    BY <1>0
  <2> QED BY <1>2, <1>5, <2>1, <2>2, <2>3 DEF CountInv
<1>6. ASSUME NEW r \in Requests, Exported(r)
      PROVE  /\ request'[q].imported <= CopiesBy(events', q)
             /\ faults' = 0 => request'[q].imported = CopiesBy(events', q)
             /\ request'[q].op # "sync" =>
                  /\ CopiesBy(events', q) = 0 /\ \A u \in Users : CopiesBy(google'[u], q) = 0
                  /\ request'[q].imported = 0 /\ request'[q].exported = 0
  <2>1. events' = events
    BY <1>6 DEF Exported
  <2>2. /\ request'[q].imported = request[q].imported
        /\ request'[q].op # "sync" => r # q /\ request'[q] = request[q]
    BY <1>4, <1>6
  <2>3. faults' = 0 => faults = 0
    BY <1>0
  <2> QED BY <1>3, <1>6, <2>1, <2>2, <2>3 DEF CountInv
<1>7. CASE /\ UNCHANGED <<events, google>>
           /\ \A r \in Requests : ~Imported(r) /\ ~Exported(r)
  <2>1. \/ /\ request'[q].imported = request[q].imported /\ request'[q].exported = request[q].exported
           /\ request'[q].op = request[q].op
           /\ request'[q].user = request[q].user \/ request[q].op # "sync"
        \/ request[q].op # "sync" /\ request'[q].imported = 0 /\ request'[q].exported = 0
    <3>1. CASE Handled(q)
      <4>1. ~ImportOne(q) /\ ~ExportOne(q)
        BY <1>0, <1>7, ImportEffect, ExportEffect
      <4> QED BY <1>0, <3>1, <4>1, FieldEffect DEF Handled, Stays, HandleCallback, At
    <3>2. CASE Arrived(q)
      BY <3>2 DEF Arrived, Fresh, Base, OpStage
    <3>3. CASE Crashed(q)
      <4>1. /\ request'[q].imported = request[q].imported /\ request'[q].exported = request[q].exported
        BY <1>0, <3>3, CrashEffect DEF Crashed
      <4> QED BY <3>3, <4>1 DEF Crashed, Stays
    <3> QED BY <1>0, <3>1, <3>2, <3>3, Frame
  <2>2. faults' = 0 => faults = 0
    BY <1>0
  <2>3. request'[q] \in Request
    BY <1>0, RequestStep
  <2>4. request'[q].user \in Users
    BY <2>3 DEF Request
  <2> QED BY <1>0, <1>1, <1>7, <2>1, <2>2, <2>4 DEF CountInv
<1> QED BY <1>0, <1>2, <1>3, <1>4, <1>5, <1>6, <1>7, CalendarCases

-----------------------------------------------------------------------------
(* Synchronisations: every event, and each once.                           *)

LEMMA SyncStays ==
    ASSUME Base, [Next]_vars, NEW r \in Requests, request[r].op = "sync"
    PROVE  /\ request'[r].op = "sync" /\ request'[r].user = request[r].user
           /\ request'[r].phase # request[r].phase =>
                request'[r].phase = "export" /\ request'[r].stage = "token"
<1>0. TypeOK /\ request[r].stage # "idle"
  BY DEF Base, OpStage
<1>1. CASE request'[r] = request[r]
  BY <1>1
<1>2. CASE Handled(r)
  <2>1. Handle(r) /\ ~HandleCallback(r)
    BY <1>2 DEF Handled, HandleCallback, At
  <2> QED BY <1>0, <2>1, FieldEffect DEF Stays
<1>3. CASE Crashed(r)
  BY <1>3 DEF Crashed, Stays
<1> QED BY <1>0, <1>1, <1>2, <1>3, Frame DEF Arrived

\* A step that adds to a calendar is one of a synchronisation.
LEMMA EventsCases ==
    ASSUME TypeOK, [Next]_vars
    PROVE  \/ events' = events
           \/ \E r \in Requests, row \in Event :
                /\ Imported(r) /\ ImportOne(r) /\ request[r].op = "sync" /\ request[r].stage = "copy"
                /\ request[r].phase = "import"
                /\ row.by = r /\ events' = Append(events, row)
                /\ \A i \in DOMAIN events : events'[i] = events[i]
                /\ DOMAIN events' = DOMAIN events \cup {Len(events) + 1}
                /\ events'[Len(events) + 1] = row
<1>1. ASSUME NEW r \in Requests, Imported(r), NEW row \in Event, events' = Append(events, row)
      PROVE  /\ ImportOne(r) /\ request[r].op = "sync" /\ request[r].stage = "copy"
             /\ request[r].phase = "import"
             /\ \A i \in DOMAIN events : events'[i] = events[i]
             /\ DOMAIN events' = DOMAIN events \cup {Len(events) + 1}
             /\ events'[Len(events) + 1] = row
  <2>1. events \in Seq(Event)
    BY DEF TypeOK
  <2>2. /\ \A i \in DOMAIN events : Append(events, row)[i] = events[i]
        /\ DOMAIN Append(events, row) = DOMAIN events \cup {Len(events) + 1}
        /\ Append(events, row)[Len(events) + 1] = row
    BY <2>1, AppendProperties
  <2> QED BY <1>1, <2>2 DEF Imported, ImportOne, At
<1> QED BY <1>1, CalendarCases DEF Imported, Exported

LEMMA GoogleCases ==
    ASSUME TypeOK, [Next]_vars, NEW u \in Users
    PROVE  \/ google'[u] = google[u]
           \/ \E r \in Requests, row \in GoogleEvent :
                /\ Exported(r) /\ row.by = r
                /\ \A i \in DOMAIN google[u] : google'[u][i] = google[u][i]
                /\ DOMAIN google'[u] = DOMAIN google[u] \cup {Len(google[u]) + 1}
                /\ google'[u][Len(google[u]) + 1] = row
<1>1. ASSUME NEW r \in Requests, Exported(r), NEW row \in GoogleEvent,
             google' = [google EXCEPT ![request[r].user] = Append(@, row)],
             google'[u] # google[u]
      PROVE  /\ \A i \in DOMAIN google[u] : google'[u][i] = google[u][i]
             /\ DOMAIN google'[u] = DOMAIN google[u] \cup {Len(google[u]) + 1}
             /\ google'[u][Len(google[u]) + 1] = row
  <2>1. google[u] \in Seq(GoogleEvent) /\ google \in [Users -> Seq(GoogleEvent)]
    BY DEF TypeOK
  <2>2. /\ \A i \in DOMAIN google[u] : Append(google[u], row)[i] = google[u][i]
        /\ DOMAIN Append(google[u], row) = DOMAIN google[u] \cup {Len(google[u]) + 1}
        /\ Append(google[u], row)[Len(google[u]) + 1] = row
    BY <2>1, AppendProperties
  <2>3. google'[u] = Append(google[u], row)
    BY <1>1, <2>1
  <2> QED BY <1>1, <2>2, <2>3 DEF Exported
<1> QED BY <1>1, CalendarCases DEF Imported, Exported

LEMMA AppendCopy ==
    ASSUME NEW T, NEW calendar \in Seq(T), NEW row \in T
    PROVE  /\ \A r : SourcesBy(Append(calendar, row), r) =
                IF row.by = r THEN SourcesBy(calendar, r) \cup {row.of} ELSE SourcesBy(calendar, r)
           /\ Once(calendar) /\ row.of \notin SourcesBy(calendar, row.by) => Once(Append(calendar, row))
<1> DEFINE next == Len(calendar) + 1
           longer == Append(calendar, row)
<1>1. /\ DOMAIN longer = DOMAIN calendar \cup {next} /\ next \notin DOMAIN calendar
      /\ \A i \in DOMAIN calendar : longer[i] = calendar[i]
      /\ longer[next] = row
  BY AppendProperties
<1> HIDE DEF longer, next
<1>2. ASSUME NEW r
      PROVE  SourcesBy(longer, r) =
               IF row.by = r THEN SourcesBy(calendar, r) \cup {row.of} ELSE SourcesBy(calendar, r)
  BY <1>1 DEF SourcesBy
<1>3. ASSUME Once(calendar), row.of \notin SourcesBy(calendar, row.by) PROVE Once(longer)
  <2> SUFFICES ASSUME NEW i \in DOMAIN longer, NEW j \in DOMAIN longer, longer[i].by \in Requests,
                      longer[i].by = longer[j].by, longer[i].of = longer[j].of
               PROVE  i = j
    BY DEF Once
  <2>1. CASE i \in DOMAIN calendar /\ j \in DOMAIN calendar
    BY <1>1, <1>3, <2>1 DEF Once
  <2>2. \A k \in DOMAIN calendar : calendar[k].by = row.by => calendar[k].of # row.of
    BY <1>3 DEF SourcesBy
  <2>3. CASE i = next \/ j = next
    BY <1>1, <2>2, <2>3
  <2> QED BY <1>1, <2>1, <2>3
<1> QED BY <1>2, <1>3 DEF longer

LEMMA ImportGrows ==
    ASSUME TypeOK, NEW q \in Requests, ImportOne(q)
    PROVE  /\ google' = google
           /\ \A r \in Requests \ {q} : SourcesBy(events', r) = SourcesBy(events, r)
           /\ SourcesBy(events, q) \subseteq SourcesBy(events', q)
           /\ SourcesBy(events', q) \subseteq SourcesBy(events, q) \cup {Min(request[q].todo)}
           /\ faults' = 0 => Min(request[q].todo) \in SourcesBy(events', q)
           /\ Once(events) /\ Min(request[q].todo) \notin SourcesBy(events, q) => Once(events')
<1>0. faults \in Nat /\ events \in Seq(Event)
  BY StoreAssumption DEF TypeOK
<1>1. Imported(q)
  BY ImportEffect
<1>2. CASE events' = events /\ faults' = faults + 1
  BY <1>0, <1>1, <1>2 DEF Imported
<1>3. ASSUME NEW row \in Event, events' = Append(events, row),
             row.by = q, row.of = Min(request[q].todo)
      PROVE  /\ \A r \in Requests \ {q} : SourcesBy(events', r) = SourcesBy(events, r)
             /\ SourcesBy(events', q) = SourcesBy(events, q) \cup {Min(request[q].todo)}
             /\ Once(events) /\ Min(request[q].todo) \notin SourcesBy(events, q) => Once(events')
  BY <1>0, <1>3, AppendCopy
<1> QED BY <1>1, <1>2, <1>3 DEF Imported

LEMMA ExportGrows ==
    ASSUME TypeOK, NEW q \in Requests, ExportOne(q), NEW u \in Users
    PROVE  /\ events' = events
           /\ \A r \in Requests \ {q} : SourcesBy(google'[u], r) = SourcesBy(google[u], r)
           /\ SourcesBy(google[u], q) \subseteq SourcesBy(google'[u], q)
           /\ SourcesBy(google'[u], q) \subseteq SourcesBy(google[u], q) \cup {Min(request[q].todo)}
           /\ faults' = 0 /\ u = request[q].user =>
                Min(request[q].todo) \in SourcesBy(google'[u], q)
           /\ Once(google[u]) /\ Min(request[q].todo) \notin SourcesBy(google[u], q) => Once(google'[u])
<1>0. faults \in Nat /\ google \in [Users -> Seq(GoogleEvent)] /\ google[u] \in Seq(GoogleEvent)
  BY StoreAssumption DEF TypeOK
<1>1. Exported(q)
  BY ExportEffect
<1>2. CASE google' = google /\ faults' = faults + 1
  BY <1>0, <1>1, <1>2 DEF Exported
<1>3. ASSUME NEW row \in GoogleEvent, google' = [google EXCEPT ![request[q].user] = Append(@, row)],
             row.by = q, row.of = Min(request[q].todo)
      PROVE  /\ \A r \in Requests \ {q} : SourcesBy(google'[u], r) = SourcesBy(google[u], r)
             /\ SourcesBy(google[u], q) \subseteq SourcesBy(google'[u], q)
             /\ SourcesBy(google'[u], q) \subseteq SourcesBy(google[u], q) \cup {Min(request[q].todo)}
             /\ u = request[q].user => Min(request[q].todo) \in SourcesBy(google'[u], q)
             /\ Once(google[u]) /\ Min(request[q].todo) \notin SourcesBy(google[u], q) => Once(google'[u])
  <2>1. CASE u = request[q].user
    <3>1. google'[u] = Append(google[u], row)
      BY <1>0, <1>3, <2>1
    <3> QED BY <1>0, <1>3, <3>1, AppendCopy
  <2>2. CASE u # request[q].user
    <3>1. google'[u] = google[u]
      BY <1>0, <1>3, <2>2
    <3> QED BY <2>2, <3>1
  <2> QED BY <2>1, <2>2
<1> QED BY <1>1, <1>2, <1>3 DEF Exported

\* What was there when a request began is there still, and nothing else counts as such.
LEMMA ThereStays ==
    ASSUME Base, [Next]_vars, NEW r \in Requests,
           request'[r].user = request[r].user, request'[r].saw = request[r].saw
    PROVE  /\ request[r].user \in Users
           /\ ToImport(r)' = ToImport(r) /\ ToExport(r)' = ToExport(r)
<1>0. TypeOK /\ request[r].user \in Users /\ request[r].saw \subseteq Ended
  BY DEF Base, OpStage, TypeOK, Request
<1>1. \A q \in Requests : request[q].stage = "copy" => q \notin Before(r)
  BY <1>0, StoreAssumption DEF Before, Ended
<1>2. Before(r)' = Before(r)
  BY DEF Before
<1>3. ToExport(r)' = ToExport(r)
  <2> DEFINE Wanted(rows) == {i \in DOMAIN rows : rows[i].user = request[r].user /\ rows[i].by \in Before(r)}
  <2>1. ASSUME NEW q \in Requests, NEW row \in Event, row.by = q, request[q].stage = "copy",
               \A i \in DOMAIN events : events'[i] = events[i],
               DOMAIN events' = DOMAIN events \cup {Len(events) + 1},
               events'[Len(events) + 1] = row
        PROVE  Wanted(events') = Wanted(events)
    BY <1>1, <2>1
  <2>2. Wanted(events') = Wanted(events)
    BY <1>0, <2>1, EventsCases
  <2>3. ToExport(r) = Wanted(events) /\ ToExport(r)' = Wanted(events')
    BY <1>2 DEF ToExport, Exportable
  <2> QED BY <2>2, <2>3
<1>4. ToImport(r)' = ToImport(r)
  <2> DEFINE u == request[r].user
             Wanted(rows) == {i \in DOMAIN rows : rows[i].title # Untitled /\ rows[i].by \in Before(r)}
  <2>1. ASSUME NEW q \in Requests, NEW row \in GoogleEvent, row.by = q, Exported(q),
               \A i \in DOMAIN google[u] : google'[u][i] = google[u][i],
               DOMAIN google'[u] = DOMAIN google[u] \cup {Len(google[u]) + 1},
               google'[u][Len(google[u]) + 1] = row
        PROVE  Wanted(google'[u]) = Wanted(google[u])
    <3>1. request[q].stage = "copy"
      BY <2>1 DEF Exported, ExportOne, At
    <3> QED BY <1>1, <2>1, <3>1
  <2>2. Wanted(google'[u]) = Wanted(google[u])
    BY <1>0, <2>1, GoogleCases
  <2>3. ToImport(r) = Wanted(google[u]) /\ ToImport(r)' = Wanted(google'[u])
    BY <1>2 DEF ToImport, Importable
  <2> QED BY <2>2, <2>3
<1> QED BY <1>0, <1>3, <1>4

\* The steps of a synchronisation: on its way to a list, with it, and at its end.
Moves(r) == /\ request[r].stage # "copy" /\ request'[r].stage \notin {"idle", "copy", "ended"}
            /\ request'[r].phase = request[r].phase /\ request'[r].answer = request[r].answer
ListsAll(r) ==
  /\ request[r].stage = "client" /\ request'[r].stage = "copy"
  /\ request'[r].phase = request[r].phase /\ request'[r].answer = request[r].answer
  /\ request'[r].todo = IF request[r].phase = "import" THEN Importable(request[r].user)
                                                       ELSE Exportable(request[r].user)
Takes(r) ==
  /\ \/ ImportOne(r) /\ request[r].phase = "import"
     \/ ExportOne(r) /\ request[r].phase = "export"
  /\ request[r].stage = "copy" /\ request'[r].stage = "copy"
  /\ request'[r].phase = request[r].phase /\ request'[r].answer = request[r].answer
  /\ request[r].todo # {} /\ request'[r].todo = request[r].todo \ {Min(request[r].todo)}
Turned(r) == /\ request[r].direction = "bidirectional" /\ request[r].phase = "import"
             /\ request'[r].phase = "export" /\ request'[r].stage = "token"
             /\ \/ request'[r].answer = "with errors"
                \/ /\ request[r].stage = "copy" /\ request[r].todo = {}
                   /\ request'[r].answer = request[r].answer
Finishes(r) ==
  /\ request'[r].phase = request[r].phase /\ request'[r].stage = "ended"
  /\ \/ request'[r].answer \in {"with errors", "error"}
     \/ /\ request[r].stage = "copy" /\ request[r].todo = {}
        /\ request[r].direction = "bidirectional" => request[r].phase # "import"
        /\ request'[r].answer = IF request[r].answer = "none" THEN "ok" ELSE request[r].answer

LEMMA SyncCases ==
    ASSUME TypeOK, NEW r \in Requests, Handle(r), request[r].op = "sync",
           request[r].phase \in {"import", "export"}
    PROVE  \/ Takes(r)
           \/ /\ UNCHANGED <<events, google>>
              /\ Moves(r) \/ ListsAll(r) \/ Turned(r) \/ Finishes(r)
<1>0. request \in [Requests -> Request] /\ request[r] \in Request
  BY DEF TypeOK
<1>1. \/ GetToken(r) \/ Refresh(r) \/ SaveToken(r) \/ ListGoogleEvents(r) \/ ListLocalEvents(r)
      \/ ImportOne(r) \/ ExportOne(r) \/ EndOfCopying(r)
  BY DEF Handle, GetAuthURL, HandleCallback, Exchange, Disconnect, GetStatus, AskGoogle, At
<1>2. ASSUME WithoutClient(r) PROVE Turned(r) \/ Finishes(r)
  <2>1. CASE request[r].direction = "bidirectional" /\ request[r].phase = "import"
    <3>1. request' = [request EXCEPT ![r].phase = "export", ![r].stage = "token",
                                     ![r].answer = "with errors"]
      BY <1>2, <2>1 DEF WithoutClient
    <3> QED BY <1>0, <2>1, <3>1 DEF Turned, Request
  <2>2. CASE ~(request[r].direction = "bidirectional" /\ request[r].phase = "import")
    <3>1. PICK answer \in {"with errors", "error"} :
            request' = [request EXCEPT ![r].stage = "ended", ![r].answer = answer]
      BY <1>2, <2>2 DEF WithoutClient, End
    <3> QED BY <1>0, <3>1 DEF Finishes, Request
  <2> QED BY <2>1, <2>2
<1>3. ASSUME NEW stage \in {"refresh", "save", "client"}, Goto(r, stage), request[r].stage # "copy"
      PROVE  Moves(r)
  BY <1>0, <1>3 DEF Goto, Moves, Request
<1>4. CASE GetToken(r) \/ Refresh(r)
  BY <1>2, <1>3, <1>4 DEF GetToken, Refresh
<1>5. CASE SaveToken(r)
  <2>1. request[r].stage = "save" /\ UNCHANGED <<events, google>>
        /\ request' = [request EXCEPT ![r].wrote = TRUE, ![r].stage = "client",
                                      ![r].answer = request[r].answer]
    BY <1>5 DEF SaveToken
  <2> QED BY <1>0, <2>1 DEF Moves, Request
<1>6. CASE ListGoogleEvents(r)
  <2>1. ASSUME request' = [request EXCEPT ![r].stage = "copy", ![r].todo = Importable(request[r].user)]
        PROVE  ListsAll(r)
    BY <1>0, <1>6, <2>1 DEF ListGoogleEvents, ListsAll, At, Request
  <2> QED BY <1>2, <1>6, <2>1 DEF ListGoogleEvents
<1>7. CASE ListLocalEvents(r)
  <2>1. ASSUME request' = [request EXCEPT ![r].stage = "copy", ![r].todo = Exportable(request[r].user)]
        PROVE  ListsAll(r)
    BY <1>0, <1>7, <2>1 DEF ListLocalEvents, ListsAll, At, Request
  <2> QED BY <1>2, <1>7, <2>1 DEF ListLocalEvents
<1>8. CASE ImportOne(r)
  <2>1. PICK n : request' = [request EXCEPT ![r].todo = @ \ {Min(request[r].todo)}, ![r].imported = n]
    BY <1>8 DEF ImportOne
  <2> QED BY <1>0, <1>8, <2>1 DEF ImportOne, At, Takes, Request
<1>9. CASE ExportOne(r)
  <2>1. PICK n : request' = [request EXCEPT ![r].todo = @ \ {Min(request[r].todo)}, ![r].exported = n]
    BY <1>9 DEF ExportOne
  <2> QED BY <1>0, <1>9, <2>1 DEF ExportOne, At, Takes, Request
<1>10. CASE EndOfCopying(r)
  <2>1. CASE request[r].direction = "bidirectional" /\ request[r].phase = "import"
    <3>1. request' = [request EXCEPT ![r].phase = "export", ![r].stage = "token"]
      BY <1>10, <2>1 DEF EndOfCopying
    <3> QED BY <1>0, <1>10, <2>1, <3>1 DEF EndOfCopying, At, Turned, Request
  <2>2. CASE ~(request[r].direction = "bidirectional" /\ request[r].phase = "import")
    <3>1. request' = [request EXCEPT ![r].stage = "ended",
                        ![r].answer = IF request[r].answer = "none" THEN "ok" ELSE request[r].answer]
      BY <1>10, <2>2 DEF EndOfCopying, End
    <3> QED BY <1>0, <1>10, <2>2, <3>1 DEF EndOfCopying, At, Finishes, Request
  <2> QED BY <2>1, <2>2
<1> QED BY <1>1, <1>4, <1>5, <1>6, <1>7, <1>8, <1>9, <1>10

\* What a step means for one synchronisation: a step of its own, or of others.
Own(r) == Handle(r) /\ request[r].op = "sync" /\ request'[r].op = "sync"
          /\ request'[r].user = request[r].user /\ request'[r].saw = request[r].saw
          /\ request'[r].direction = request[r].direction
Same(r) ==
  /\ request'[r].op = request[r].op
  /\ request'[r].op = "sync" => /\ request'[r].user = request[r].user /\ request'[r].saw = request[r].saw
                                /\ request'[r].direction = request[r].direction
                                /\ request'[r].phase = request[r].phase
  /\ \/ request'[r] = request[r] \/ request'[r].op # "sync"
     \/ request'[r].stage = "ended" /\ faults' > 0
  /\ SourcesBy(events', r) = SourcesBy(events, r)
  /\ \A u \in Users : SourcesBy(google'[u], r) = SourcesBy(google[u], r)
Begins(r) == /\ request[r].op = "none" /\ Fresh(request'[r])
             /\ UNCHANGED <<events, google>>

LEMMA SyncFrame ==
    ASSUME Base, [Next]_vars, NEW r \in Requests
    PROVE  Own(r) \/ Same(r) \/ Begins(r)
<1>0. TypeOK /\ faults \in Nat
  BY StoreAssumption DEF Base, TypeOK
<1>1. \A q \in Requests : Handle(q) =>
        \/ UNCHANGED <<events, google>>
        \/ ImportOne(q) /\ google' = google
        \/ ExportOne(q) /\ events' = events
  BY DEF Handle, GetAuthURL, HandleCallback, Exchange, SaveToken, Disconnect, GetStatus, GetToken,
         Refresh, AskGoogle, ListGoogleEvents, ListLocalEvents, ImportOne, ExportOne, EndOfCopying
<1>2. ASSUME NEW q \in Requests, q # r, Handle(q) PROVE Same(r)
  <2>1. request'[r] = request[r]
    BY <1>0, <1>2, FieldEffect DEF Others
  <2>2. SourcesBy(events', r) = SourcesBy(events, r)
        /\ \A u \in Users : SourcesBy(google'[u], r) = SourcesBy(google[u], r)
    BY <1>0, <1>1, <1>2, ImportGrows, ExportGrows
  <2> QED BY <2>1, <2>2 DEF Same
<1>3. CASE Handle(r)
  <2>1. request'[r].op = request[r].op /\ request'[r].saw = request[r].saw
        /\ request'[r].direction = request[r].direction
    BY <1>0, <1>3, FieldEffect DEF Stays
  <2>2. CASE request[r].op = "sync"
    <3>1. ~HandleCallback(r)
      BY <2>2 DEF HandleCallback, At
    <3> QED BY <1>0, <1>3, <2>1, <2>2, <3>1, FieldEffect DEF Own
  <2>3. CASE request[r].op # "sync"
    <3>1. UNCHANGED <<events, google>>
      BY <1>1, <1>3, <2>3 DEF ImportOne, ExportOne, At
    <3> QED BY <2>1, <2>3, <3>1 DEF Same
  <2> QED BY <2>2, <2>3
<1>4. ASSUME NEW q \in Requests, Arrivals(q) PROVE Same(r) \/ Begins(r)
  <2>1. /\ Others(q) /\ request[q].stage = "idle" /\ Fresh(request'[q]) /\ UNCHANGED <<events, google>>
    BY <1>0, <1>4, ArriveEffect
  <2>2. CASE q = r
    BY <2>1, <2>2 DEF Begins, Base, OpStage
  <2>3. CASE q # r
    BY <2>1, <2>3 DEF Others, Same
  <2> QED BY <2>2, <2>3
<1>5. CASE Crash
  <2>0. UNCHANGED <<events, google>> /\ faults' = faults + 1
    BY <1>5 DEF Crash
  <2>1. UNCHANGED <<events, google>> /\ faults' > 0
    BY <1>0, <2>0
  <2>2. request'[r] = request[r] \/ /\ Stays(r) /\ request'[r].stage = "ended"
                                    /\ request'[r].user = request[r].user
                                    /\ request'[r].phase = request[r].phase
    BY <1>0, <1>5, CrashEffect
  <2> QED BY <2>1, <2>2 DEF Same, Stays
<1>6. CASE Age \/ UNCHANGED vars
  BY <1>6 DEF Age, vars, Same
<1> QED BY <1>2, <1>3, <1>4, <1>5, <1>6 DEF Next

DirectionInv == \A r \in Requests : request[r].op = "sync" =>
  /\ request[r].phase \in {"import", "export"}
  /\ request[r].direction = "from_google" => request[r].phase = "import"
  /\ request[r].direction = "to_google" => request[r].phase = "export"

LEMMA DirectionStep ==
    ASSUME Base, DirectionInv, [Next]_vars
    PROVE  DirectionInv'
<1> SUFFICES ASSUME NEW r \in Requests, request'[r].op = "sync"
    PROVE /\ request'[r].phase \in {"import", "export"}
          /\ request'[r].direction = "from_google" => request'[r].phase = "import"
          /\ request'[r].direction = "to_google" => request'[r].phase = "export"
  BY DEF DirectionInv
<1>1. CASE Own(r)
  <2>1. Takes(r) \/ Moves(r) \/ ListsAll(r) \/ Turned(r) \/ Finishes(r)
    BY <1>1, SyncCases DEF Own, Base, DirectionInv
  <2> QED BY <1>1, <2>1 DEF Own, DirectionInv, Takes, Moves, ListsAll, Turned, Finishes
<1>2. CASE Same(r)
  BY <1>2 DEF Same, DirectionInv
<1>3. CASE Begins(r)
  BY <1>3 DEF Begins, Fresh
<1> QED BY <1>1, <1>2, <1>3, SyncFrame

\* No list yet: of Google's events, of the user's own.
ToList(r) == request[r].op = "sync" /\ request[r].stage \notin {"copy", "ended"}
ImportAhead(r) ==
  \/ request[r].op = "none"
  \/ ToList(r) /\ request[r].phase = "import"
ExportAhead(r) ==
  \/ request[r].op = "none" \/ ToList(r)
  \/ request[r].op = "sync" /\ request[r].phase = "import"

\* What a synchronisation has copied is not on its list any more, and it has copied
\* nothing in a direction before it has a list for it.
FirstInv(r) ==
  /\ ImportAhead(r) => SourcesBy(events, r) = {}
  /\ ExportAhead(r) => \A u \in Users : SourcesBy(google[u], r) = {}
  /\ At(r, "sync", "copy") /\ request[r].phase = "import" => SourcesBy(events, r) \cap request[r].todo = {}
  /\ At(r, "sync", "copy") /\ request[r].phase = "export" =>
       \A u \in Users : SourcesBy(google[u], r) \cap request[r].todo = {}
OnceInv == NoneTwice /\ \A r \in Requests : FirstInv(r)

LEMMA OnceStep ==
    ASSUME Base, DirectionInv, OnceInv, [Next]_vars
    PROVE  OnceInv'
<1>0. TypeOK
  BY DEF Base
<1>1. NoneTwice'
  <2>1. ASSUME NEW q \in Requests, ImportOne(q) PROVE NoneTwice'
    <3>1. Min(request[q].todo) \in request[q].todo
      BY <1>0, <2>1, NextInList DEF ImportOne
    <3>2. Min(request[q].todo) \notin SourcesBy(events, q)
      BY <2>1, <3>1 DEF OnceInv, FirstInv, ImportAhead, ExportAhead, ToList, ImportOne
    <3> QED BY <1>0, <2>1, <3>2, ImportGrows DEF OnceInv, NoneTwice
  <2>2. ASSUME NEW q \in Requests, ExportOne(q) PROVE NoneTwice'
    <3>1. Min(request[q].todo) \in request[q].todo
      BY <1>0, <2>2, NextInList DEF ExportOne
    <3>2. \A u \in Users : Min(request[q].todo) \notin SourcesBy(google[u], q)
      BY <2>2, <3>1 DEF OnceInv, FirstInv, ImportAhead, ExportAhead, ToList, ExportOne
    <3>3. \A u \in Users : events' = events /\ Once(google'[u])
      BY <1>0, <2>2, <3>2, ExportGrows DEF OnceInv, NoneTwice
    <3>4. events' = events
      BY <2>2 DEF ExportOne
    <3> QED BY <3>3, <3>4 DEF OnceInv, NoneTwice
  <2>3. CASE UNCHANGED <<events, google>>
    BY <2>3 DEF OnceInv, NoneTwice
  <2> QED BY <1>0, <2>1, <2>2, <2>3, CalendarCases DEF Imported, Exported
<1>2. ASSUME NEW r \in Requests PROVE FirstInv(r)'
  <2>0. FirstInv(r)
    BY DEF OnceInv
  <2>1. CASE Own(r)
    <3>0. /\ Handle(r) /\ request[r].op = "sync" /\ request'[r].op = "sync"
          /\ request[r].stage \notin {"idle", "ended"} /\ request[r].phase \in {"import", "export"}
      BY <2>1, HandleLive DEF Own, DirectionInv
    <3>1. CASE Takes(r) /\ ImportOne(r)
      <4>1. google' = google /\ SourcesBy(events', r) \subseteq SourcesBy(events, r) \cup {Min(request[r].todo)}
        BY <1>0, <3>1, ImportGrows
      <4> QED BY <2>0, <3>0, <3>1, <4>1 DEF FirstInv, ImportAhead, ExportAhead, ToList, Takes, ImportOne, At
    <3>2. CASE Takes(r) /\ ExportOne(r)
      <4>1. \A u \in Users :
              SourcesBy(google'[u], r) \subseteq SourcesBy(google[u], r) \cup {Min(request[r].todo)}
        BY <1>0, <3>2, ExportGrows
      <4>2. request[r].phase = "export"
        BY <3>2 DEF Takes, ImportOne, ExportOne
      <4> QED BY <2>0, <3>0, <3>2, <4>1, <4>2 DEF FirstInv, ImportAhead, ExportAhead, ToList, Takes, At
    <3>3. CASE UNCHANGED <<events, google>> /\ (Moves(r) \/ ListsAll(r))
      BY <2>0, <3>0, <3>3 DEF FirstInv, ImportAhead, ExportAhead, ToList, Moves, ListsAll, At
    <3>4. CASE UNCHANGED <<events, google>> /\ (Turned(r) \/ Finishes(r))
      BY <2>0, <3>0, <3>4 DEF FirstInv, ImportAhead, ExportAhead, ToList, Turned, Finishes, At
    <3> QED BY <1>0, <3>0, <3>1, <3>2, <3>3, <3>4, SyncCases DEF Takes
  <2>2. CASE Same(r)
    <3>1. /\ ImportAhead(r)' => ImportAhead(r)
          /\ ExportAhead(r)' => ExportAhead(r)
          /\ At(r, "sync", "copy")' => request'[r] = request[r]
      BY <2>2 DEF Same, ImportAhead, ExportAhead, ToList, At
    <3> QED BY <2>0, <2>2, <3>1 DEF Same, FirstInv, At
  <2>3. CASE Begins(r)
    <3>1. ImportAhead(r) /\ ExportAhead(r) /\ ~At(r, "sync", "copy")' /\ UNCHANGED <<events, google>>
      BY <2>3 DEF Begins, Fresh, ImportAhead, ExportAhead, At
    <3> QED BY <2>0, <3>1 DEF FirstInv
  <2> QED BY <2>1, <2>2, <2>3, SyncFrame
<1> QED BY <1>1, <1>2 DEF OnceInv

\* While no call has failed, what a synchronisation is to copy is copied or on its
\* list, and copied once it is done with the list and has met no error.
DoneInv(r) ==
  /\ At(r, "sync", "copy") /\ request[r].phase = "import" =>
       ToImport(r) \subseteq SourcesBy(events, r) \cup request[r].todo
  /\ /\ request[r].op = "sync" /\ request[r].answer \in {"none", "ok"}
     /\ \/ request[r].phase = "export" /\ request[r].direction = "bidirectional"
        \/ request[r].phase = "import" /\ request[r].stage = "ended"
     => ToImport(r) \subseteq SourcesBy(events, r)
  /\ At(r, "sync", "copy") /\ request[r].phase = "export" =>
       ToExport(r) \subseteq SourcesBy(google[request[r].user], r) \cup request[r].todo
  /\ Answered(r, "sync") /\ request[r].phase = "export" =>
       ToExport(r) \subseteq SourcesBy(google[request[r].user], r)
  /\ Answered(r, "sync") /\ request[r].phase = "import" => request[r].direction = "from_google"
MissingInv == faults = 0 => \A r \in Requests : DoneInv(r)

LEMMA MissingStep ==
    ASSUME Base, DirectionInv, MissingInv, [Next]_vars
    PROVE  MissingInv'
<1> SUFFICES ASSUME faults' = 0, NEW r \in Requests PROVE DoneInv(r)'
  BY DEF MissingInv
<1>0. TypeOK /\ DoneInv(r) /\ request[r] \in Request
  <2>1. faults \in Nat /\ TypeOK
    BY StoreAssumption DEF Base, TypeOK
  <2>2. faults = 0
    BY <2>1, FaultsStep
  <2> QED BY <2>1, <2>2 DEF MissingInv, TypeOK
<1>1. CASE Own(r)
  <2> DEFINE u == request[r].user
             ahead == request[r].todo
  <2>0. /\ Handle(r) /\ request[r].op = "sync" /\ request'[r].op = "sync"
        /\ request[r].phase \in {"import", "export"} /\ request[r].direction \in Directions
        /\ request[r].direction = "to_google" => request[r].phase = "export"
        /\ request'[r].user = u /\ request'[r].direction = request[r].direction
        /\ u \in Users /\ ToImport(r)' = ToImport(r) /\ ToExport(r)' = ToExport(r)
    BY <1>0, <1>1, ThereStays DEF Own, DirectionInv, Request
  <2>1. CASE Takes(r) /\ ImportOne(r)
    <3>1. /\ SourcesBy(events, r) \subseteq SourcesBy(events', r) /\ google' = google
          /\ Min(ahead) \in SourcesBy(events', r)
      BY <1>0, <2>1, ImportGrows
    <3>2. request[r].phase = "import"
      BY <2>1 DEF ImportOne
    <3> QED BY <1>0, <2>0, <2>1, <3>1, <3>2 DEF DoneInv, Takes, At, Answered
  <2>2. CASE Takes(r) /\ ExportOne(r)
    <3>1. /\ SourcesBy(google[u], r) \subseteq SourcesBy(google'[u], r) /\ events' = events
          /\ Min(ahead) \in SourcesBy(google'[u], r)
      BY <1>0, <2>0, <2>2, ExportGrows
    <3>2. request[r].phase = "export"
      BY <2>2 DEF ExportOne
    <3> QED BY <1>0, <2>0, <2>2, <3>1, <3>2 DEF DoneInv, Takes, At, Answered
  <2>3. CASE UNCHANGED <<events, google>> /\ Moves(r)
    BY <1>0, <2>0, <2>3 DEF DoneInv, Moves, At, Answered
  <2>4. CASE UNCHANGED <<events, google>> /\ ListsAll(r)
    <3>1. ToImport(r) \subseteq Importable(u) /\ ToExport(r) \subseteq Exportable(u)
      BY DEF ToImport, ToExport
    <3> QED BY <1>0, <2>0, <2>4, <3>1 DEF DoneInv, ListsAll, At, Answered
  <2>5. CASE UNCHANGED <<events, google>> /\ Turned(r)
    BY <1>0, <2>0, <2>5 DEF DoneInv, Turned, At, Answered
  <2>6. CASE UNCHANGED <<events, google>> /\ Finishes(r)
    BY <1>0, <2>0, <2>6 DEF DoneInv, Finishes, At, Answered, Directions
  <2> QED BY <1>0, <2>0, <2>1, <2>2, <2>3, <2>4, <2>5, <2>6, SyncCases DEF Takes
<1>2. CASE Same(r)
  <2>1. CASE request'[r].op # "sync"
    BY <2>1 DEF DoneInv, At, Answered
  <2>2. CASE request'[r].op = "sync"
    <3>1. /\ request'[r] = request[r]
          /\ request[r].user \in Users /\ ToImport(r)' = ToImport(r) /\ ToExport(r)' = ToExport(r)
      BY <1>2, <2>2, ThereStays DEF Same
    <3> QED BY <1>0, <1>2, <3>1 DEF Same, DoneInv, At, Answered
  <2> QED BY <2>1, <2>2
<1>3. CASE Begins(r)
  BY <1>3 DEF Begins, Fresh, DoneInv, At, Answered
<1> QED BY <1>1, <1>2, <1>3, SyncFrame

LEMMA SyncInit == Init => DirectionInv /\ OnceInv /\ MissingInv /\ CountInv /\ OwnTitles
<1> SUFFICES ASSUME Init PROVE DirectionInv /\ OnceInv /\ MissingInv /\ CountInv /\ OwnTitles
  OBVIOUS
<1>0. /\ TypeOK /\ DOMAIN events = {1, 2}
      /\ events[1] = [user |-> Alice, title |-> Alice, by |-> OldCopy, of |-> 0]
      /\ events[2] = [user |-> Bob, title |-> Bob, by |-> OldCopy, of |-> 0]
      /\ \A u \in Users : /\ DOMAIN google[u] = {1, 2}
                          /\ google[u][1] = [title |-> Untitled, by |-> OldCopy, of |-> 0]
                          /\ google[u][2] = [title |-> "meeting", by |-> OldCopy, of |-> 0]
      /\ \A r \in Requests : /\ request[r].op = "none" /\ request[r].stage = "idle"
                             /\ request[r].imported = 0 /\ request[r].exported = 0
                             /\ request[r].user \in Users
  BY TypeInit DEF Init, Idle, Users
<1>1. ASSUME NEW r \in Requests
      PROVE  /\ {i \in DOMAIN events : events[i].by = r} = {}
             /\ \A u \in Users : {i \in DOMAIN google[u] : google[u][i].by = r} = {}
  BY <1>0, StoreAssumption
<1>2. OnceInv
  <2>1. NoneTwice
    BY <1>0, StoreAssumption DEF NoneTwice, Once
  <2>2. \A r \in Requests : SourcesBy(events, r) = {} /\ \A u \in Users : SourcesBy(google[u], r) = {}
    BY <1>1 DEF SourcesBy
  <2> QED BY <1>0, <2>1, <2>2 DEF OnceInv, FirstInv, ImportAhead, ExportAhead, ToList, At
<1>3. DirectionInv /\ MissingInv
  BY <1>0 DEF DirectionInv, MissingInv, DoneInv, At, Answered
<1>4. OwnTitles
  <2>1. Untitled \notin Users /\ "meeting" \notin Users
    BY StoreAssumption DEF Users
  <2>2. OthersStayOut
    BY <1>0, <2>1 DEF OthersStayOut
  <2> QED BY <1>0, <2>2 DEF OwnTitles, At
<1>5. CountInv
  <2>1. \A r \in Requests : CopiesBy(events, r) = 0 /\ \A u \in Users : CopiesBy(google[u], r) = 0
    BY <1>1, FS_EmptySet DEF CopiesBy
  <2> QED BY <1>0, <2>1 DEF CountInv
<1> QED BY <1>2, <1>3, <1>4, <1>5

\* What a synchronisation leaves in the two calendars is what it says: every event
\* that is to be copied, each once, and nobody else's; whichever synchronisations
\* run before it and beside it.
THEOREM SyncIsTrue == Spec => []SyncTrue
<1> DEFINE Inv == Base /\ OwnTitles /\ CountInv /\ DirectionInv /\ OnceInv /\ MissingInv
<1>1. Init => Inv
  BY BaseInit, SyncInit
<1>2. Inv /\ [Next]_vars => Inv'
  BY BaseStep, OwnTitlesStep, CountStep, DirectionStep, OnceStep, MissingStep DEF Base
<1>3. Inv => SyncTrue
  <2> SUFFICES ASSUME Inv PROVE SyncTrue
    OBVIOUS
  <2>1. OthersStayOut /\ NoneTwice
    BY DEF OwnTitles, OnceInv
  <2>2. CountsTrue
    BY DEF CountInv, CountsTrue
  <2>3. NoneMissing
    <3> SUFFICES ASSUME NEW r \in Requests, Answered(r, "sync"), faults = 0
        PROVE /\ request[r].direction # "to_google" => ToImport(r) \subseteq SourcesBy(events, r)
              /\ request[r].direction # "from_google" =>
                   ToExport(r) \subseteq SourcesBy(google[request[r].user], r)
      BY DEF NoneMissing
    <3>1. /\ DoneInv(r) /\ request[r].op = "sync" /\ request[r].stage = "ended" /\ request[r].answer = "ok"
          /\ request[r].direction \in Directions
      BY DEF MissingInv, Answered, Base, TypeOK, Request
    <3> QED BY <3>1 DEF DoneInv, DirectionInv, Directions, Answered
  <2> QED BY <2>1, <2>2, <2>3 DEF SyncTrue
<1>4. QED
  BY <1>1, <1>2, <1>3, PTL DEF Spec

=============================================================================
