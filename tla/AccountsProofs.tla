---------------------------- MODULE AccountsProofs ----------------------------
(***************************************************************************)
(* Proofs about Accounts, for any requests, addresses, names, limit and    *)
(* faults.                                                                 *)
(***************************************************************************)
EXTENDS Accounts, TLAPS

-----------------------------------------------------------------------------
(* What a step makes of the requests.                                      *)

Others(r) == \A q \in Requests \ {r} : request'[q] = request[q]

\* A handler's step: what the client sent stays.
Moves(r) ==
  /\ request' \in [Requests -> Request] /\ Others(r)
  /\ request'[r].op = request[r].op /\ request'[r].email = request[r].email
  /\ request'[r].password = request[r].password /\ request'[r].username = request[r].username
  /\ request'[r].named = request[r].named
  /\ request'[r].stage \notin {"idle", "begun"}

\* The rest stays too.
Plain(r) ==
  /\ request'[r].user = request[r].user /\ request'[r].token = request[r].token
  /\ request'[r].copy = request[r].copy /\ request'[r].wrote = request[r].wrote
  /\ request'[r].saw = request[r].saw

LEMMA Going ==
    ASSUME TypeOK, NEW r \in Requests, NEW stage \in Stages \ {"idle", "begun"}, Goto(r, stage)
    PROVE  /\ Moves(r) /\ Plain(r)
           /\ request'[r].stage = stage /\ request'[r].answer = request[r].answer
<1>1. request \in [Requests -> Request] /\ request[r] \in Request
  BY DEF TypeOK
<1> QED BY <1>1 DEF Goto, Moves, Others, Plain, Request

LEMMA Ending ==
    ASSUME TypeOK, NEW r \in Requests, NEW answer \in Answers, End(r, answer)
    PROVE  /\ Moves(r) /\ Plain(r)
           /\ request'[r].stage = "ended" /\ request'[r].answer = answer
<1>1. request \in [Requests -> Request] /\ request[r] \in Request
  BY DEF TypeOK
<1> QED BY <1>1 DEF End, Moves, Others, Plain, Request, Stages

\* The steps that change neither what a handler has read nor what it knows.
LEMMA RegisterLookupEffect ==
    ASSUME TypeOK, NEW r \in Requests, RegisterLookup(r)
    PROVE  /\ Moves(r) /\ Plain(r) /\ At(r, "register", "begun")
           /\ \/ request'[r].stage = "create" /\ request'[r].answer = request[r].answer
              \/ request'[r].stage = "ended" /\ request'[r].answer = "exists"
BY Going, Ending DEF RegisterLookup, Stages, Answers

LEMMA RegisterTokenEffect ==
    ASSUME TypeOK, NEW r \in Requests, RegisterToken(r)
    PROVE  /\ Moves(r) /\ Plain(r) /\ At(r, "register", "token")
           /\ request'[r].stage = "session" /\ request'[r].answer = request[r].answer
BY Going DEF RegisterToken, Stages

LEMMA LogoutEffect ==
    ASSUME TypeOK, NEW r \in Requests, Logout(r)
    PROVE  /\ Moves(r) /\ Plain(r) /\ At(r, "logout", "found") /\ request'[r].stage = "ended"
BY Ending DEF Logout, Answers

LEMMA ResetEffect ==
    ASSUME TypeOK, NEW r \in Requests,
           ResetIncr(r) \/ ResetExpire(r) \/ ResetToken(r) \/ ResetMail(r)
    PROVE  /\ Moves(r) /\ Plain(r) /\ request[r].op = "reset"
           /\ ResetIncr(r) => /\ request[r].stage = "begun"
                              /\ request'[r].stage \in {"expire", "lookup", "ended"}
                              /\ request'[r].answer = request[r].answer
           /\ ResetExpire(r) => /\ request[r].stage = "expire"
                                /\ request'[r].stage \in {"lookup", "ended"}
                                /\ request'[r].answer = request[r].answer
           /\ ResetToken(r) => /\ request[r].stage = "lookup"
                               /\ request'[r].stage \in {"mail", "ended"}
                               /\ request'[r].answer = request[r].answer
           /\ ResetMail(r) => request[r].stage = "mail" /\ request'[r].stage = "ended"
<1>1. CASE ResetIncr(r)
  <2>1. \E stage \in {"expire", "lookup", "ended"} : Goto(r, stage)
    BY <1>1 DEF ResetIncr
  <2> QED BY <1>1, <2>1, Going DEF ResetIncr, ResetExpire, ResetToken, ResetMail, At, Stages
<1>2. CASE ResetExpire(r)
  <2>1. \E stage \in {"lookup", "ended"} : Goto(r, stage)
    BY <1>2 DEF ResetExpire
  <2> QED BY <1>2, <2>1, Going DEF ResetIncr, ResetExpire, ResetToken, ResetMail, At, Stages
<1>3. CASE ResetToken(r)
  <2>1. \E stage \in {"mail", "ended"} : Goto(r, stage)
    BY <1>3 DEF ResetToken
  <2> QED BY <1>3, <2>1, Going DEF ResetIncr, ResetExpire, ResetToken, ResetMail, At, Stages
<1>4. CASE ResetMail(r)
  BY <1>4, Ending DEF ResetIncr, ResetExpire, ResetToken, ResetMail, At, Answers
<1> QED BY <1>1, <1>2, <1>3, <1>4

LEMMA DeleteTokenEffect ==
    ASSUME TypeOK, NEW r \in Requests, DeleteToken(r)
    PROVE  /\ Moves(r) /\ Plain(r) /\ request[r].op \in {"confirm", "verify"}
           /\ request[r].stage = "delete" /\ request'[r].stage = "ended" /\ request'[r].answer = "ok"
BY Ending DEF DeleteToken, At, Answers

LEMMA CheckEffect ==
    ASSUME TypeOK, NEW r \in Requests, CheckUsername(r)
    PROVE  /\ Moves(r) /\ Plain(r) /\ At(r, "profile", "check")
           /\ \/ request'[r].stage = "write" /\ request'[r].answer = request[r].answer
              \/ request'[r].stage = "ended" /\ request'[r].answer = "taken"
BY Going, Ending DEF CheckUsername, Stages, Answers

LEMMA AvatarEffect ==
    ASSUME TypeOK, NEW r \in Requests, UpsertAvatar(r) \/ WriteAvatarURL(r) \/ CleanUpAvatar(r)
    PROVE  /\ Moves(r) /\ Plain(r) /\ request[r].op = "avatar"
           /\ UpsertAvatar(r) => /\ request[r].stage = "begun"
                                 /\ \/ /\ request'[r].stage = "find"
                                       /\ request'[r].answer = request[r].answer
                                    \/ request'[r].stage = "ended" /\ request'[r].answer = "error"
           /\ WriteAvatarURL(r) => /\ request[r].stage = "url"
                                   /\ \/ /\ request'[r].stage = "cleanup"
                                         /\ request'[r].answer = request[r].answer
                                      \/ request'[r].stage = "ended" /\ request'[r].answer = "ok"
           /\ CleanUpAvatar(r) => /\ request[r].stage = "cleanup"
                                  /\ request'[r].stage = "ended" /\ request'[r].answer = "error"
<1>1. CASE UpsertAvatar(r)
  BY <1>1, Going, Ending DEF UpsertAvatar, WriteAvatarURL, CleanUpAvatar, At, Stages, Answers
<1>2. CASE WriteAvatarURL(r)
  BY <1>2, Going, Ending DEF UpsertAvatar, WriteAvatarURL, CleanUpAvatar, At, Stages, Answers
<1>3. CASE CleanUpAvatar(r)
  BY <1>3, Ending DEF UpsertAvatar, WriteAvatarURL, CleanUpAvatar, At, Answers
<1> QED BY <1>1, <1>2, <1>3

\* The steps that learn something.
LEMMA RegisterUserEffect ==
    ASSUME TypeOK, NEW r \in Requests, RegisterUser(r)
    PROVE  /\ Moves(r) /\ At(r, "register", "create")
           /\ \/ Plain(r) /\ request'[r].stage = "ended" /\ request'[r].answer = "error"
              \/ /\ request'[r].stage = "token" /\ request'[r].user = r
                 /\ request'[r].token = request[r].token /\ request'[r].copy = request[r].copy
                 /\ request'[r].wrote = request[r].wrote /\ request'[r].saw = request[r].saw
                 /\ request'[r].answer = request[r].answer
<1>1. request \in [Requests -> Request] /\ request[r] \in Request /\ r \in UserIds
  BY DEF TypeOK, UserIds
<1>2. End(r, "error") \/ request' = [request EXCEPT ![r].stage = "token", ![r].user = r]
  BY DEF RegisterUser
<1>3. CASE request' = [request EXCEPT ![r].stage = "token", ![r].user = r]
  BY <1>1, <1>3 DEF RegisterUser, At, Moves, Others, Request, Stages
<1> QED BY <1>2, <1>3, Ending DEF RegisterUser, Answers

LEMMA LoginLookupEffect ==
    ASSUME TypeOK, NEW r \in Requests, LoginLookup(r)
    PROVE  /\ Moves(r) /\ At(r, "login", "begun")
           /\ \/ Plain(r) /\ request'[r].stage = "ended" /\ request'[r].answer = "denied"
              \/ /\ request'[r].stage = "session" /\ request'[r].user \in UserIds
                 /\ request'[r].token = request[r].token /\ request'[r].copy = request[r].copy
                 /\ request'[r].wrote = request[r].wrote /\ request'[r].saw = request[r].saw
                 /\ request'[r].answer = request[r].answer
<1>1. request \in [Requests -> Request] /\ request[r] \in Request
      /\ GetUserByEmail(users, request[r].email) \subseteq UserIds
  BY DEF TypeOK, GetUserByEmail
<1>2. \/ End(r, "denied")
      \/ \E id \in UserIds : request' = [request EXCEPT ![r].stage = "session", ![r].user = id]
  BY <1>1 DEF LoginLookup
<1>3. ASSUME NEW id \in UserIds, request' = [request EXCEPT ![r].stage = "session", ![r].user = id]
      PROVE  /\ Moves(r)
             /\ request'[r].stage = "session" /\ request'[r].user = id
             /\ request'[r].token = request[r].token /\ request'[r].copy = request[r].copy
             /\ request'[r].wrote = request[r].wrote /\ request'[r].saw = request[r].saw
             /\ request'[r].answer = request[r].answer
  BY <1>1, <1>3 DEF Moves, Others, Request, Stages
<1> QED BY <1>2, <1>3, Ending DEF LoginLookup, Answers

LEMMA SaveSessionEffect ==
    ASSUME TypeOK, NEW r \in Requests, SaveSession(r)
    PROVE  /\ Moves(r) /\ request[r].op \in {"login", "register"} /\ request[r].stage = "session"
           /\ request'[r].stage = "ended"
           /\ request'[r].user = request[r].user /\ request'[r].copy = request[r].copy
           /\ request'[r].wrote = request[r].wrote /\ request'[r].saw = request[r].saw
<1>1. request \in [Requests -> Request] /\ request[r] \in Request /\ JWTs(r) \subseteq Tokens
  BY DEF TypeOK, JWTs, SessionRow, Tokens
<1>2. \E jwt \in Tokens, answer \in {"ok", "error"} :
        request' = [request EXCEPT ![r].stage = "ended", ![r].token = jwt, ![r].answer = answer]
  BY <1>1 DEF SaveSession
<1>3. ASSUME NEW jwt \in Tokens, NEW answer \in {"ok", "error"},
        request' = [request EXCEPT ![r].stage = "ended", ![r].token = jwt, ![r].answer = answer]
      PROVE /\ Moves(r) /\ request'[r].stage = "ended"
            /\ request'[r].user = request[r].user /\ request'[r].copy = request[r].copy
            /\ request'[r].wrote = request[r].wrote /\ request'[r].saw = request[r].saw
  <2>1. answer \in Answers
    BY <1>3 DEF Answers
  <2> QED BY <1>1, <1>3, <2>1 DEF Moves, Others, Request, Stages
<1> QED BY <1>2, <1>3 DEF SaveSession, At

LEMMA LogoutLookupEffect ==
    ASSUME TypeOK, NEW r \in Requests, LogoutLookup(r)
    PROVE  /\ Moves(r) /\ At(r, "logout", "begun")
           /\ \/ Plain(r) /\ request'[r].stage = "ended"
              \/ /\ request'[r].stage = "found" /\ request'[r].copy \in SessionRow
                 /\ request'[r].answer = request[r].answer
                 /\ request'[r].user = request[r].user /\ request'[r].token = request[r].token
                 /\ request'[r].wrote = request[r].wrote /\ request'[r].saw = request[r].saw
<1>1. request \in [Requests -> Request] /\ request[r] \in Request
      /\ GetSessionByToken(sessions, request[r].token) \subseteq SessionRow
  BY DEF TypeOK, GetSessionByToken
<1>2. \/ End(r, "denied")
      \/ \E s \in SessionRow : request' = [request EXCEPT ![r].stage = "found", ![r].copy = s]
  BY <1>1 DEF LogoutLookup
<1>3. ASSUME NEW s \in SessionRow, request' = [request EXCEPT ![r].stage = "found", ![r].copy = s]
      PROVE  /\ Moves(r) /\ request'[r].stage = "found" /\ request'[r].copy = s
             /\ request'[r].answer = request[r].answer
             /\ request'[r].user = request[r].user /\ request'[r].token = request[r].token
             /\ request'[r].wrote = request[r].wrote /\ request'[r].saw = request[r].saw
  BY <1>1, <1>3 DEF Moves, Others, Request, Stages
<1> QED BY <1>2, <1>3, Ending DEF LogoutLookup, Answers

LEMMA GetTokenEffect ==
    ASSUME TypeOK, NEW r \in Requests, GetToken(r)
    PROVE  /\ Moves(r) /\ request[r].op \in {"confirm", "verify"} /\ request[r].stage = "begun"
           /\ request'[r].token = request[r].token /\ request'[r].copy = request[r].copy
           /\ request'[r].wrote = request[r].wrote
           /\ \/ Plain(r) /\ request'[r].stage = "ended" /\ request'[r].answer = "invalid"
              \/ /\ request'[r].stage = "token" /\ request'[r].saw = Ended
                 /\ \E t \in Live(r) : t \in TokenRow /\ request'[r].user = t.user
                 /\ request'[r].answer = request[r].answer
<1>1. request \in [Requests -> Request] /\ request[r] \in Request
      /\ Live(r) \subseteq TokenRow /\ Ended \subseteq Requests
  BY DEF TypeOK, Live, Ended
<1>2. \/ End(r, "invalid")
      \/ \E t \in Live(r) : request' = [request EXCEPT ![r].stage = "token", ![r].user = t.user,
                                                    ![r].saw = Ended]
  BY DEF GetToken
<1>3. ASSUME NEW t \in Live(r), request' = [request EXCEPT ![r].stage = "token",
                                              ![r].user = t.user, ![r].saw = Ended]
      PROVE  /\ Moves(r) /\ request'[r].stage = "token" /\ request'[r].saw = Ended
             /\ request'[r].user = t.user /\ request'[r].token = request[r].token
             /\ request'[r].copy = request[r].copy /\ request'[r].wrote = request[r].wrote
             /\ request'[r].answer = request[r].answer
  <2>1. t.user \in UserIds \cup {Nobody} /\ Ended \in SUBSET Requests
    BY <1>1 DEF TokenRow
  <2> HIDE DEF Ended
  <2> QED BY <1>1, <1>3, <2>1 DEF Moves, Others, Request, Stages
<1> QED BY <1>1, <1>2, <1>3, Ending DEF GetToken, At, Answers, Plain

LEMMA ReadForTokenEffect ==
    ASSUME TypeOK, NEW r \in Requests, ReadForToken(r), request[r].user \in UserIds
    PROVE  /\ Moves(r) /\ request[r].op \in {"confirm", "verify"} /\ request[r].stage = "token"
           /\ request'[r].user = request[r].user /\ request'[r].token = request[r].token
           /\ request'[r].wrote = request[r].wrote /\ request'[r].saw = request[r].saw
           /\ \/ Plain(r) /\ request'[r].stage = "ended" /\ request'[r].answer # "ok"
              \/ /\ request'[r].stage \in {"write", "delete"}
                 /\ request'[r].copy = users[request[r].user] /\ request'[r].copy \in UserRow
                 /\ request'[r].answer = request[r].answer
<1>1. request \in [Requests -> Request] /\ request[r] \in Request
      /\ users[request[r].user] \in UserRow \cup {NoRow}
  BY DEF TypeOK
<1>2. \/ End(r, "not found") \/ End(r, "same password")
      \/ /\ users[request[r].user] \in UserRow
         /\ \E stage \in {"write", "delete"} :
              request' = [request EXCEPT ![r].copy = users[request[r].user], ![r].stage = stage]
  BY <1>1 DEF ReadForToken, GetUserByID
<1>3. ASSUME NEW row \in UserRow, NEW stage \in {"write", "delete"},
             request' = [request EXCEPT ![r].copy = row, ![r].stage = stage]
      PROVE  /\ Moves(r) /\ request'[r].stage = stage /\ request'[r].copy = row
             /\ request'[r].user = request[r].user /\ request'[r].token = request[r].token
             /\ request'[r].wrote = request[r].wrote /\ request'[r].saw = request[r].saw
             /\ request'[r].answer = request[r].answer
  BY <1>1, <1>3 DEF Moves, Others, Request, Stages
<1> QED BY <1>2, <1>3, Ending DEF ReadForToken, At, Answers, Plain

LEMMA WriteForTokenEffect ==
    ASSUME TypeOK, NEW r \in Requests, WriteForToken(r)
    PROVE  /\ Moves(r) /\ request[r].op \in {"confirm", "verify"} /\ request[r].stage = "write"
           /\ request'[r].user = request[r].user /\ request'[r].token = request[r].token
           /\ request'[r].copy = request[r].copy /\ request'[r].saw = request[r].saw
           /\ \/ request'[r].stage = "ended" /\ request'[r].answer = "error"
              \/ /\ request'[r].stage = "delete" /\ request'[r].wrote
                 /\ request'[r].answer = request[r].answer
<1>1. request \in [Requests -> Request] /\ request[r] \in Request
  BY DEF TypeOK
<1>2. \/ End(r, "error")
      \/ \E wrote \in BOOLEAN : request' = [request EXCEPT ![r].stage = "ended",
                                              ![r].answer = "error", ![r].wrote = wrote]
      \/ request' = [request EXCEPT ![r].stage = "delete", ![r].answer = request[r].answer,
                                    ![r].wrote = TRUE]
  BY DEF WriteForToken
<1>3. ASSUME NEW stage \in {"ended", "delete"}, NEW answer \in Answers, NEW wrote \in BOOLEAN,
             request' = [request EXCEPT ![r].stage = stage, ![r].answer = answer, ![r].wrote = wrote]
      PROVE  /\ Moves(r) /\ request'[r].stage = stage /\ request'[r].copy = request[r].copy
             /\ request'[r].user = request[r].user /\ request'[r].token = request[r].token
             /\ request'[r].wrote = wrote /\ request'[r].saw = request[r].saw
             /\ request'[r].answer = answer
  BY <1>1, <1>3 DEF Moves, Others, Request, Stages
<1>4. request[r].answer \in Answers /\ "error" \in Answers
  BY <1>1 DEF Request, Answers
<1>5. request[r].op \in {"confirm", "verify"} /\ request[r].stage = "write"
  BY DEF WriteForToken, At
<1>6. CASE End(r, "error")
  BY <1>4, <1>5, <1>6, Ending DEF Plain
<1>7. CASE \E wrote \in BOOLEAN : request' = [request EXCEPT ![r].stage = "ended",
                                              ![r].answer = "error", ![r].wrote = wrote]
  <2>1. PICK wrote \in BOOLEAN : request' = [request EXCEPT ![r].stage = "ended",
                                              ![r].answer = "error", ![r].wrote = wrote]
    BY <1>7
  <2>2. /\ Moves(r) /\ request'[r].stage = "ended" /\ request'[r].copy = request[r].copy
        /\ request'[r].user = request[r].user /\ request'[r].token = request[r].token
        /\ request'[r].saw = request[r].saw /\ request'[r].answer = "error"
    BY <1>3, <1>4, <2>1
  <2> QED BY <1>5, <2>2
<1>8. CASE request' = [request EXCEPT ![r].stage = "delete", ![r].answer = request[r].answer,
                                    ![r].wrote = TRUE]
  BY <1>3, <1>4, <1>5, <1>8
<1> QED BY <1>2, <1>6, <1>7, <1>8

LEMMA ReadForProfileEffect ==
    ASSUME TypeOK, NEW r \in Requests, ReadForProfile(r), request[r].user \in UserIds
    PROVE  /\ Moves(r) /\ At(r, "profile", "begun")
           /\ request'[r].stage \in {"check", "write"}
           /\ request'[r].copy = users[request[r].user] /\ request'[r].saw = Ended
           /\ request'[r].user = request[r].user /\ request'[r].token = request[r].token
           /\ request'[r].wrote = request[r].wrote /\ request'[r].answer = request[r].answer
<1>1. request \in [Requests -> Request] /\ request[r] \in Request
      /\ users[request[r].user] \in UserRow \cup {NoRow} /\ Ended \in SUBSET Requests
  BY DEF TypeOK, Ended
<1>2. PICK stage \in {"check", "write"} :
        request' = [request EXCEPT ![r].copy = users[request[r].user], ![r].saw = Ended,
                                   ![r].stage = stage]
  BY DEF ReadForProfile, GetUserByID
<1> HIDE DEF Ended
<1> QED BY <1>1, <1>2 DEF ReadForProfile, At, Moves, Others, Request, Stages

LEMMA WriteProfileEffect ==
    ASSUME TypeOK, NEW r \in Requests, WriteProfile(r)
    PROVE  /\ Moves(r) /\ At(r, "profile", "write") /\ request'[r].stage = "ended"
           /\ request'[r].user = request[r].user /\ request'[r].token = request[r].token
           /\ request'[r].copy = request[r].copy /\ request'[r].saw = request[r].saw
<1>1. request \in [Requests -> Request] /\ request[r] \in Request
  BY DEF TypeOK
<1>2. \/ End(r, "taken")
      \/ \E wrote \in BOOLEAN, answer \in {"ok", "error"} :
           request' = [request EXCEPT ![r].stage = "ended", ![r].wrote = wrote, ![r].answer = answer]
  BY DEF WriteProfile
<1>3. ASSUME NEW answer \in {"ok", "error"}, NEW wrote \in BOOLEAN,
             request' = [request EXCEPT ![r].stage = "ended", ![r].wrote = wrote, ![r].answer = answer]
      PROVE  /\ Moves(r) /\ request'[r].stage = "ended" /\ request'[r].copy = request[r].copy
             /\ request'[r].user = request[r].user /\ request'[r].token = request[r].token
             /\ request'[r].saw = request[r].saw
  <2>1. answer \in Answers
    BY <1>3 DEF Answers
  <2> QED BY <1>1, <1>3, <2>1 DEF Moves, Others, Request, Stages
<1> QED BY <1>2, <1>3, Ending DEF WriteProfile, At, Plain, Answers

LEMMA FindAvatarEffect ==
    ASSUME TypeOK, NEW r \in Requests, FindAvatar(r), request[r].user \in UserIds
    PROVE  /\ Moves(r) /\ At(r, "avatar", "find")
           /\ request'[r].user = request[r].user /\ request'[r].copy = request[r].copy
           /\ request'[r].wrote = request[r].wrote /\ request'[r].saw = request[r].saw
           /\ \/ Plain(r) /\ request'[r].stage = "ended" /\ request'[r].answer = "error"
              \/ /\ request'[r].stage = "url" /\ request'[r].token \in Requests
                 /\ request'[r].token = avatars[request[r].user]
                 /\ request'[r].answer = request[r].answer
<1>1. request \in [Requests -> Request] /\ request[r] \in Request
      /\ avatars[request[r].user] \in Requests \cup {NoPicture}
  BY DEF TypeOK
<1>2. \/ End(r, "error")
      \/ /\ avatars[request[r].user] \in Requests
         /\ request' = [request EXCEPT ![r].stage = "url", ![r].token = avatars[request[r].user]]
  BY <1>1 DEF FindAvatar
<1>3. ASSUME NEW id \in Requests, request' = [request EXCEPT ![r].stage = "url", ![r].token = id]
      PROVE  /\ Moves(r) /\ request'[r].stage = "url" /\ request'[r].token = id
             /\ request'[r].answer = request[r].answer
             /\ request'[r].user = request[r].user /\ request'[r].copy = request[r].copy
             /\ request'[r].wrote = request[r].wrote /\ request'[r].saw = request[r].saw
  BY <1>1, <1>3 DEF Moves, Others, Request, Stages, Tokens
<1> QED BY <1>2, <1>3, Ending DEF FindAvatar, At, Plain, Answers

-----------------------------------------------------------------------------
(* Arrivals, crashes and the stages of the handlers.                       *)

\* A request that has just come.
Fresh(req) ==
  /\ req.op \in Ops /\ req.stage = "begun" /\ req.answer = "none" /\ ~req.wrote
  /\ req.user = IF req.op \in {"profile", "avatar"} THEN Alice ELSE Nobody
  /\ req.saw = Ended
  /\ req.op = "confirm" => \E t \in resets : t.token = req.token

LEMMA ArriveEffect ==
    ASSUME TypeOK, NEW r \in Requests, Arrivals(r)
    PROVE  /\ request' \in [Requests -> Request] /\ Others(r) /\ request[r].stage = "idle"
           /\ Fresh(request'[r])
           /\ UNCHANGED <<users, sessions, avatars, resets, verifications, counter, admitted, faults>>
<1>0. request \in [Requests -> Request] /\ Ended \in SUBSET Requests
  BY DEF TypeOK, Ended
<1>1. Idle \in Request /\ Idle.op = "none" /\ Idle.user = Nobody /\ Idle.answer = "none" /\ ~Idle.wrote
  BY NamesAssumption DEF Idle, Request, Stages, Answers
<1>2. \A s \in sessions : s.token \in Tokens
  BY DEF TypeOK, SessionRow, Tokens
<1>3. \A t \in resets \cup verifications : t.token \in Tokens
  BY DEF TypeOK, TokenRow
<1>4. \E req \in Request :
        /\ Arrive(r, req)
        /\ req.op \in Ops /\ req.answer = "none" /\ ~req.wrote
        /\ req.user = IF req.op \in {"profile", "avatar"} THEN Alice ELSE Nobody
        /\ req.op = "confirm" => \E t \in resets : t.token = req.token
  <2> HIDE DEF Idle
  <2>1. CASE ArriveRegister(r)
    <3>1. PICK email \in Emails : Arrive(r, [Idle EXCEPT !.op = "register", !.email = email])
      BY <2>1 DEF ArriveRegister
    <3> DEFINE req == [Idle EXCEPT !.op = "register", !.email = email]
    <3>2. req \in Request /\ req.op = "register" /\ req.answer = "none" /\ ~req.wrote /\ req.user = Nobody
      BY <1>1 DEF Request, Ops
    <3>4. Arrive(r, req)
      BY <3>1
    <3> HIDE DEF req
    <3> QED BY <3>1, <3>4, <3>2 DEF Ops
  <2>2. CASE ArriveLogin(r)
    <3>1. PICK password \in Passwords : Arrive(r, [Idle EXCEPT !.op = "login", !.password = password])
      BY <2>2 DEF ArriveLogin
    <3> DEFINE req == [Idle EXCEPT !.op = "login", !.password = password]
    <3>2. req \in Request /\ req.op = "login" /\ req.answer = "none" /\ ~req.wrote /\ req.user = Nobody
      BY <1>1 DEF Request, Ops
    <3>4. Arrive(r, req)
      BY <3>1
    <3> HIDE DEF req
    <3> QED BY <3>1, <3>4, <3>2 DEF Ops
  <2>3. CASE ArriveLogout(r)
    <3>1. PICK s \in sessions : Arrive(r, [Idle EXCEPT !.op = "logout", !.token = s.token])
      BY <2>3 DEF ArriveLogout
    <3> DEFINE req == [Idle EXCEPT !.op = "logout", !.token = s.token]
    <3>2. req \in Request /\ req.op = "logout" /\ req.answer = "none" /\ ~req.wrote /\ req.user = Nobody
      BY <1>1, <1>2 DEF Request, Ops
    <3>4. Arrive(r, req)
      BY <3>1
    <3> HIDE DEF req
    <3> QED BY <3>1, <3>4, <3>2 DEF Ops
  <2>4. CASE ArriveReset(r)
    <3> DEFINE req == [Idle EXCEPT !.op = "reset"]
    <3>1. Arrive(r, req)
      BY <2>4 DEF ArriveReset
    <3>2. req \in Request /\ req.op = "reset" /\ req.answer = "none" /\ ~req.wrote /\ req.user = Nobody
      BY <1>1 DEF Request, Ops
    <3> HIDE DEF req
    <3> QED BY <3>1, <3>2 DEF Ops
  <2>5. CASE ArriveConfirm(r)
    <3>1. PICK t \in resets, password \in Passwords :
            Arrive(r, [Idle EXCEPT !.op = "confirm", !.token = t.token, !.password = password])
      BY <2>5 DEF ArriveConfirm
    <3> DEFINE req == [Idle EXCEPT !.op = "confirm", !.token = t.token, !.password = password]
    <3>2. req \in Request /\ req.op = "confirm" /\ req.answer = "none" /\ ~req.wrote /\ req.user = Nobody
          /\ req.token = t.token
      BY <1>1, <1>3 DEF Request, Ops
    <3>4. Arrive(r, req)
      BY <3>1
    <3> HIDE DEF req
    <3> QED BY <3>1, <3>4, <3>2 DEF Ops
  <2>6. CASE ArriveVerify(r)
    <3>1. PICK t \in verifications : Arrive(r, [Idle EXCEPT !.op = "verify", !.token = t.token])
      BY <2>6 DEF ArriveVerify
    <3> DEFINE req == [Idle EXCEPT !.op = "verify", !.token = t.token]
    <3>2. req \in Request /\ req.op = "verify" /\ req.answer = "none" /\ ~req.wrote /\ req.user = Nobody
      BY <1>1, <1>3 DEF Request, Ops
    <3>4. Arrive(r, req)
      BY <3>1
    <3> HIDE DEF req
    <3> QED BY <3>1, <3>4, <3>2 DEF Ops
  <2>7. CASE ArriveProfile(r)
    <3>1. PICK named \in {{"first"}, {"username"}}, username \in Names :
            Arrive(r, [Idle EXCEPT !.op = "profile", !.user = Alice, !.named = named,
                                   !.username = username])
      BY <2>7 DEF ArriveProfile
    <3> DEFINE req == [Idle EXCEPT !.op = "profile", !.user = Alice, !.named = named,
                                   !.username = username]
    <3>2. named \in SUBSET {"first", "username"}
      BY <3>1
    <3>3. req \in Request /\ req.op = "profile" /\ req.answer = "none" /\ ~req.wrote /\ req.user = Alice
      BY <1>1, <3>2 DEF Request, Ops, UserIds
    <3>4. Arrive(r, req)
      BY <3>1
    <3> HIDE DEF req
    <3> QED BY <3>1, <3>4, <3>3 DEF Ops
  <2>8. CASE ArriveAvatar(r)
    <3> DEFINE req == [Idle EXCEPT !.op = "avatar", !.user = Alice]
    <3>1. Arrive(r, req)
      BY <2>8 DEF ArriveAvatar
    <3>2. req \in Request /\ req.op = "avatar" /\ req.answer = "none" /\ ~req.wrote /\ req.user = Alice
      BY <1>1 DEF Request, Ops, UserIds
    <3> HIDE DEF req
    <3> QED BY <3>1, <3>2 DEF Ops
  <2> QED BY <2>1, <2>2, <2>3, <2>4, <2>5, <2>6, <2>7, <2>8 DEF Arrivals
<1>5. PICK req \in Request :
        /\ Arrive(r, req)
        /\ req.op \in Ops /\ req.answer = "none" /\ ~req.wrote
        /\ req.user = IF req.op \in {"profile", "avatar"} THEN Alice ELSE Nobody
        /\ req.op = "confirm" => \E t \in resets : t.token = req.token
  BY <1>4
<1>6. request' = [request EXCEPT ![r] = [req EXCEPT !.stage = "begun", !.saw = Ended]]
  BY <1>5 DEF Arrive
<1> DEFINE new == [req EXCEPT !.stage = "begun", !.saw = Ended]
<1> HIDE DEF Ended
<1>7. new \in Request
  BY <1>0 DEF Request, Stages
<1>8. /\ new.op = req.op /\ new.answer = req.answer /\ new.wrote = req.wrote
      /\ new.user = req.user /\ new.token = req.token /\ new.stage = "begun" /\ new.saw = Ended
  BY DEF Request
<1> HIDE DEF new
<1>9. request' = [request EXCEPT ![r] = new]
  BY <1>6 DEF new
<1>10. request'[r] = new /\ Others(r) /\ request' \in [Requests -> Request]
  BY <1>0, <1>7, <1>9 DEF Others
<1>11. Fresh(new)
  BY <1>5, <1>8 DEF Fresh
<1> QED BY <1>5, <1>10, <1>11 DEF Arrive

\* A crash ends what was running.
Crashed(q) ==
  /\ request[q].stage \notin {"idle", "ended"}
  /\ request'[q].stage = "ended" /\ request'[q].answer = "none"
  /\ request'[q].op = request[q].op /\ request'[q].password = request[q].password
  /\ request'[q].username = request[q].username /\ request'[q].named = request[q].named
  /\ Plain(q)

LEMMA CrashEffect ==
    ASSUME TypeOK, Crash
    PROVE  /\ request' \in [Requests -> Request]
           /\ \A q \in Requests : request'[q] = request[q] \/ Crashed(q)
<1>0. request \in [Requests -> Request]
  BY DEF TypeOK
<1>1. \A q \in Requests : request'[q] = IF q \in Running
        THEN [request[q] EXCEPT !.stage = "ended", !.answer = "none"] ELSE request[q]
  BY DEF Crash
<1>2. ASSUME NEW q \in Requests
      PROVE  /\ request'[q] \in Request
             /\ request'[q] = request[q] \/ Crashed(q)
  <2>0. request[q] \in Request
    BY <1>0
  <2>1. CASE q \in Running
    <3>1. request'[q] = [request[q] EXCEPT !.stage = "ended", !.answer = "none"]
      BY <1>1, <2>1
    <3> QED BY <2>0, <2>1, <3>1 DEF Request, Stages, Answers, Crashed, Plain, Running
  <2> QED BY <1>1, <2>0, <2>1
<1>3. request' = [q \in Requests |-> request'[q]]
  BY DEF Crash
<1> QED BY <1>2, <1>3

\* In which stages a handler can be, and what it holds there.
StageInv == \A r \in Requests :
  /\ request[r].op = "none" <=> request[r].stage = "idle"
  /\ request[r].op = "register" =>
       /\ request[r].stage \in {"begun", "create", "token", "session", "ended"}
       /\ request[r].stage \in {"token", "session"} => request[r].user = r
  /\ request[r].op = "login" =>
       /\ request[r].stage \in {"begun", "session", "ended"}
       /\ request[r].stage = "session" => request[r].user \in UserIds
  /\ request[r].op = "logout" =>
       /\ request[r].stage \in {"begun", "found", "ended"}
       /\ request[r].stage = "found" => request[r].copy \in SessionRow
  /\ request[r].op = "reset" =>
       request[r].stage \in {"begun", "expire", "lookup", "mail", "ended"}
  /\ request[r].op \in {"confirm", "verify"} =>
       /\ request[r].stage \in {"begun", "token", "write", "delete", "ended"}
       /\ request[r].stage \in {"token", "write", "delete"} => request[r].user \in UserIds
       /\ request[r].stage = "write" => request[r].copy \in UserRow
  /\ request[r].op = "profile" =>
       /\ request[r].stage \in {"begun", "check", "write", "ended"} /\ request[r].user = Alice
       /\ request[r].stage \in {"check", "write"} => request[r].copy \in UserRow
  /\ request[r].op = "avatar" =>
       /\ request[r].stage \in {"begun", "find", "url", "cleanup", "ended"} /\ request[r].user = Alice
       /\ request[r].stage \in {"url", "cleanup"} => request[r].token \in Requests
  /\ request[r].stage # "ended" => request[r].answer = "none"
  /\ request[r].wrote =>
       /\ request[r].stage \in {"delete", "ended"} /\ request[r].user \in UserIds
       /\ request[r].op \in {"confirm", "verify", "profile"}

Base == TypeOK /\ StageInv /\ users[Alice] # NoRow

\* Who changes what is stored.
LEMMA Untouched ==
    ASSUME TypeOK, [Next]_vars
    PROVE  /\ users' # users => \E r \in Requests :
                RegisterUser(r) \/ WriteForToken(r) \/ WriteProfile(r) \/ WriteAvatarURL(r)
           /\ sessions' # sessions => \E r \in Requests : SaveSession(r) \/ Logout(r)
           /\ avatars' # avatars => \E r \in Requests : UpsertAvatar(r) \/ CleanUpAvatar(r)
           /\ resets' # resets => ExpireTokens \/ \E r \in Requests : ResetToken(r) \/ DeleteToken(r)
           /\ verifications' # verifications =>
                ExpireTokens \/ \E r \in Requests : RegisterToken(r) \/ DeleteToken(r)
           /\ counter' # counter \/ admitted' # admitted =>
                ExpireTokens \/ \E r \in Requests : ResetIncr(r) \/ ResetExpire(r)
           /\ faults' # faults => faults < MaxFaults /\ faults' = faults + 1
<1>1. ASSUME NEW r \in Requests, Handle(r)
      PROVE  /\ users' # users =>
                  RegisterUser(r) \/ WriteForToken(r) \/ WriteProfile(r) \/ WriteAvatarURL(r)
             /\ sessions' # sessions => SaveSession(r) \/ Logout(r)
             /\ avatars' # avatars => UpsertAvatar(r) \/ CleanUpAvatar(r)
             /\ resets' # resets => ResetToken(r) \/ DeleteToken(r)
             /\ verifications' # verifications => RegisterToken(r) \/ DeleteToken(r)
             /\ counter' # counter \/ admitted' # admitted => ResetIncr(r) \/ ResetExpire(r)
  BY <1>1 DEF Handle, RegisterLookup, RegisterUser, RegisterToken, LoginLookup, SaveSession,
       LogoutLookup, Logout, ResetIncr, ResetExpire, ResetToken, ResetMail, GetToken, ReadForToken,
       WriteForToken, DeleteToken, ReadForProfile, CheckUsername, WriteProfile, UpsertAvatar,
       FindAvatar, WriteAvatarURL, CleanUpAvatar
<1>2. ASSUME NEW r \in Requests, Handle(r), faults' # faults
      PROVE  faults < MaxFaults /\ faults' = faults + 1
  <2>1. \E outcome \in Outcomes : Spend(outcome)
    BY <1>2 DEF Handle, RegisterLookup, RegisterUser, RegisterToken, LoginLookup, SaveSession,
       LogoutLookup, Logout, ResetIncr, ResetExpire, ResetToken, ResetMail, GetToken, ReadForToken,
       WriteForToken, DeleteToken, ReadForProfile, CheckUsername, WriteProfile, UpsertAvatar,
       FindAvatar, WriteAvatarURL, CleanUpAvatar
  <2> QED BY <1>2, <2>1 DEF Spend, Outcomes
<1>3. CASE Crash \/ ExpireTokens \/ UNCHANGED vars
  BY <1>3 DEF Crash, ExpireTokens, vars
<1>4. ASSUME NEW r \in Requests, Arrivals(r)
      PROVE  UNCHANGED <<users, sessions, avatars, resets, verifications, counter, admitted, faults>>
  BY <1>4, ArriveEffect
<1>5. CASE \E r \in Requests : Handle(r)
  BY <1>1, <1>2, <1>5
<1>6. CASE \E r \in Requests : Arrivals(r)
  BY <1>4, <1>6
<1> QED BY <1>3, <1>5, <1>6 DEF Next

\* What a handler writes over the row it has read.
NewRow(r) == IF request[r].op = "profile" THEN applyProfileUpdates(request[r].copy, r)
             ELSE WithChange(request[r].copy, r)

LEMMA NewRowType ==
    ASSUME Base, NEW r \in Requests, request[r].stage = "write"
    PROVE  /\ NewRow(r) \in UserRow /\ request[r].user \in UserIds /\ request[r].copy \in UserRow
           /\ request[r].op \in {"confirm", "verify", "profile"}
<1>1. request[r] \in Request /\ r \in Author
  BY DEF Base, TypeOK, Author
<1>2. request[r].copy \in UserRow /\ request[r].user \in UserIds
      /\ request[r].op \in {"confirm", "verify", "profile"}
  BY <1>1 DEF Base, StageInv, UserIds, Request, Ops
<1>3. request[r].password \in Passwords /\ request[r].username \in Names
  BY <1>1 DEF Request
<1>4. WithChange(request[r].copy, r) \in UserRow
  BY <1>2, <1>3 DEF WithChange, UserRow
<1>5. applyProfileUpdates(request[r].copy, r) \in UserRow
  BY <1>1, <1>2, <1>3 DEF applyProfileUpdates, UserRow
<1> QED BY <1>2, <1>4, <1>5 DEF NewRow

Created(r) == /\ At(r, "register", "create")
              /\ \E name \in Names :
                   /\ ~DuplicateKey(users, r, request[r].email, name)
                   /\ users' = CreateUser(users, r, NewUser(request[r].email, OldPassword, Nobody, name))
Rewritten(r) == /\ request[r].stage = "write" /\ request'[r].wrote
                /\ Moves(r) /\ request'[r].user = request[r].user /\ request'[r].saw = request[r].saw
                /\ ~DuplicateKey(users, request[r].user, NewRow(r).email, NewRow(r).username)
                /\ users' = UpdateUser(users, request[r].user, NewRow(r))
Pictured(r) == /\ At(r, "avatar", "url")
               /\ users' = UpdateUserProfilePicURL(users, request[r].user, request[r].token)

LEMMA UsersStep ==
    ASSUME Base, [Next]_vars
    PROVE  \/ users' = users
           \/ \E r \in Requests : \/ RegisterUser(r) /\ Created(r)
                                  \/ (WriteForToken(r) \/ WriteProfile(r)) /\ Rewritten(r)
                                  \/ WriteAvatarURL(r) /\ Pictured(r)
<1>0. TypeOK /\ request \in [Requests -> Request]
  BY DEF Base, TypeOK
<1>1. ASSUME NEW r \in Requests, RegisterUser(r), users' # users PROVE Created(r)
  BY <1>1 DEF RegisterUser, Created, Result, At
<1>2. ASSUME NEW r \in Requests, WriteForToken(r), users' # users PROVE Rewritten(r)
  <2>1. /\ NewRow(r) = WithChange(request[r].copy, r) /\ request[r].stage = "write"
    BY <1>2 DEF WriteForToken, NewRow, At
  <2>2. ~DuplicateKey(users, request[r].user, NewRow(r).email, NewRow(r).username)
    BY <1>2, <2>1 DEF WriteForToken
  <2>3. PICK outcome \in Outcomes :
          /\ users' = Result(outcome, users, UpdateUser(users, request[r].user, NewRow(r)))
          /\ request' = [request EXCEPT
                 ![r].stage = IF outcome = "done" THEN "delete" ELSE "ended",
                 ![r].answer = IF outcome = "done" THEN @ ELSE "error",
                 ![r].wrote = outcome # "refused"]
    BY <1>2, <2>1, <2>2 DEF WriteForToken
  <2>4. outcome # "refused"
    BY <1>2, <2>3 DEF Result
  <2>5. request'[r].wrote
    <3> DEFINE stage == IF outcome = "done" THEN "delete" ELSE "ended"
    <3> DEFINE answer == IF outcome = "done" THEN request[r].answer ELSE "error"
    <3>1. request' = [request EXCEPT ![r].stage = stage, ![r].answer = answer, ![r].wrote = TRUE]
      BY <2>3, <2>4
    <3> HIDE DEF stage, answer
    <3> QED BY <1>0, <3>1 DEF Request
  <2> QED BY <1>0, <1>2, <2>1, <2>2, <2>3, <2>4, <2>5, WriteForTokenEffect DEF Rewritten, Result
<1>3. ASSUME NEW r \in Requests, WriteProfile(r), users' # users PROVE Rewritten(r)
  <2>1. /\ NewRow(r) = applyProfileUpdates(request[r].copy, r) /\ request[r].stage = "write"
    BY <1>3 DEF WriteProfile, NewRow, At
  <2>2. ~DuplicateKey(users, request[r].user, NewRow(r).email, NewRow(r).username)
    BY <1>3, <2>1 DEF WriteProfile
  <2>3. PICK outcome \in Outcomes :
          /\ users' = Result(outcome, users, UpdateUser(users, request[r].user, NewRow(r)))
          /\ request' = [request EXCEPT ![r].stage = "ended", ![r].wrote = outcome # "refused",
                                        ![r].answer = IF outcome = "done" THEN "ok" ELSE "error"]
    BY <1>3, <2>1, <2>2 DEF WriteProfile
  <2>4. outcome # "refused"
    BY <1>3, <2>3 DEF Result
  <2>5. request'[r].wrote
    <3> DEFINE answer == IF outcome = "done" THEN "ok" ELSE "error"
    <3>1. request' = [request EXCEPT ![r].stage = "ended", ![r].wrote = TRUE, ![r].answer = answer]
      BY <2>3, <2>4
    <3> HIDE DEF answer
    <3> QED BY <1>0, <3>1 DEF Request
  <2> QED BY <1>0, <1>3, <2>1, <2>2, <2>3, <2>4, <2>5, WriteProfileEffect DEF Rewritten, Result
<1>4. ASSUME NEW r \in Requests, WriteAvatarURL(r), users' # users PROVE Pictured(r)
  BY <1>4 DEF WriteAvatarURL, Pictured, Result, At
<1> QED BY <1>0, <1>1, <1>2, <1>3, <1>4, Untouched

\* The same, row by row.
LEMMA RowStep ==
    ASSUME Base, [Next]_vars, NEW u \in UserIds, users'[u] # users[u]
    PROVE  \/ \E name \in Names : /\ u \in Requests /\ RegisterUser(u)
                                  /\ At(u, "register", "create")
                                  /\ ~DuplicateKey(users, u, request[u].email, name)
                                  /\ users'[u] = NewUser(request[u].email, OldPassword, Nobody, name)
           \/ \E r \in Requests : /\ WriteForToken(r) \/ WriteProfile(r)
                                  /\ Rewritten(r) /\ u = request[r].user
                                  /\ users[u] # NoRow
                                  /\ users'[u] = [NewRow(r) EXCEPT !.pic = users[u].pic]
           \/ \E r \in Requests : /\ WriteAvatarURL(r) /\ Pictured(r) /\ u = request[r].user
                                  /\ users[u] # NoRow
                                  /\ users'[u] = [users[u] EXCEPT !.pic = request[r].token]
<1>0. users \in [UserIds -> UserRow \cup {NoRow}]
  BY DEF Base, TypeOK
<1>1. ASSUME NEW r \in Requests, RegisterUser(r), Created(r)
      PROVE  u = r /\ \E name \in Names :
               /\ ~DuplicateKey(users, u, request[u].email, name)
               /\ users'[u] = NewUser(request[u].email, OldPassword, Nobody, name)
  BY <1>0, <1>1 DEF Created, CreateUser
<1>2. ASSUME NEW r \in Requests, Rewritten(r)
      PROVE  /\ u = request[r].user /\ users[u] # NoRow
             /\ users'[u] = [NewRow(r) EXCEPT !.pic = users[u].pic]
  <2>1. request[r].user \in UserIds
    BY <1>2, NewRowType DEF Rewritten
  <2> QED BY <1>0, <1>2, <2>1 DEF Rewritten, UpdateUser
<1>3. ASSUME NEW r \in Requests, Pictured(r)
      PROVE  /\ u = request[r].user /\ users[u] # NoRow
             /\ users'[u] = [users[u] EXCEPT !.pic = request[r].token]
  <2>1. users[request[r].user] # NoRow
    BY <1>3 DEF Pictured, UpdateUserProfilePicURL
  <2>2. users' = [users EXCEPT ![request[r].user].pic = request[r].token]
    BY <1>3, <2>1 DEF Pictured, UpdateUserProfilePicURL
  <2> QED BY <1>0, <2>1, <2>2
<1> QED BY <1>1, <1>2, <1>3, UsersStep DEF Created

LEMMA UsersType ==
    ASSUME Base, [Next]_vars
    PROVE  /\ users' \in [UserIds -> UserRow \cup {NoRow}]
           /\ \A u \in UserIds : users[u] # NoRow => users'[u] # NoRow
<1>0. users \in [UserIds -> UserRow \cup {NoRow}] /\ \A r \in Requests : request[r] \in Request
  BY DEF Base, TypeOK
<1>1. users' \in [UserIds -> {users'[u] : u \in UserIds}]
  <2>1. \A id, row : CreateUser(users, id, row) = [u \in UserIds |-> CreateUser(users, id, row)[u]]
    BY <1>0 DEF CreateUser
  <2>2. \A id, row : UpdateUser(users, id, row) = [u \in UserIds |-> UpdateUser(users, id, row)[u]]
    BY <1>0 DEF UpdateUser
  <2>3. \A id, url : UpdateUserProfilePicURL(users, id, url)
          = [u \in UserIds |-> UpdateUserProfilePicURL(users, id, url)[u]]
    BY <1>0 DEF UpdateUserProfilePicURL
  <2>4. users' = [u \in UserIds |-> users'[u]]
    BY <1>0, <2>1, <2>2, <2>3, UsersStep DEF Created, Rewritten, Pictured
  <2> QED BY <2>4
<1>2. ASSUME NEW u \in UserIds, users'[u] # users[u] PROVE users'[u] \in UserRow
  <2>1. ASSUME NEW name \in Names, u \in Requests
        PROVE  NewUser(request[u].email, OldPassword, Nobody, name) \in UserRow
    <3>1. request[u].email \in Emails /\ OldPassword \in Passwords /\ Nobody \in Author
      BY <1>0, <2>1, NamesAssumption DEF Request, Author
    <3> QED BY <2>1, <3>1 DEF NewUser, UserRow
  <2>2. ASSUME NEW r \in Requests, Rewritten(r), users[u] # NoRow
        PROVE  [NewRow(r) EXCEPT !.pic = users[u].pic] \in UserRow
    <3>1. NewRow(r) \in UserRow /\ users[u] \in UserRow
      BY <1>0, <2>2, NewRowType DEF Rewritten
    <3> QED BY <3>1 DEF UserRow
  <2>3. ASSUME NEW r \in Requests, Pictured(r), users[u] # NoRow
        PROVE  [users[u] EXCEPT !.pic = request[r].token] \in UserRow
    <3>1. request[r].token \in Requests /\ users[u] \in UserRow
      BY <1>0, <2>3 DEF Pictured, Base, StageInv, At
    <3> QED BY <3>1 DEF UserRow
  <2> QED BY <1>2, <2>1, <2>2, <2>3, RowStep
<1>3. \A u \in UserIds : users'[u] = users[u] \/ users'[u] \in UserRow
  BY <1>2
<1>4. \A u \in UserIds : users'[u] \in UserRow \cup {NoRow}
  BY <1>0, <1>3
<1>5. users' \in [UserIds -> UserRow \cup {NoRow}]
  BY <1>1, <1>4
<1> QED BY <1>3, <1>5, RowAssumption

LEMMA HandleEffect ==
    ASSUME Base, NEW r \in Requests, Handle(r)
    PROVE  /\ Moves(r) /\ request[r].stage \notin {"idle", "ended"}
           /\ request'[r].wrote # request[r].wrote => WriteForToken(r) \/ WriteProfile(r)
           /\ request'[r].copy # request[r].copy =>
                LogoutLookup(r) \/ ReadForToken(r) \/ ReadForProfile(r)
           /\ request'[r].user # request[r].user => RegisterUser(r) \/ LoginLookup(r) \/ GetToken(r)
           /\ request'[r].saw # request[r].saw => GetToken(r) \/ ReadForProfile(r)
           /\ request'[r].token # request[r].token => SaveSession(r) \/ FindAvatar(r)
<1>0. TypeOK /\ request[r] \in Request /\ Alice \in UserIds
  BY DEF Base, TypeOK, UserIds
<1>1. request[r].stage \notin {"idle", "ended"}
  BY DEF Handle, RegisterLookup, RegisterUser, RegisterToken, LoginLookup, SaveSession,
       LogoutLookup, Logout, ResetIncr, ResetExpire, ResetToken, ResetMail, GetToken, ReadForToken,
       WriteForToken, DeleteToken, ReadForProfile, CheckUsername, WriteProfile, UpsertAvatar,
       FindAvatar, WriteAvatarURL, CleanUpAvatar, At
<1>2. CASE RegisterLookup(r) \/ RegisterToken(r) \/ Logout(r) \/ DeleteToken(r) \/ CheckUsername(r)
  BY <1>0, <1>1, <1>2, RegisterLookupEffect, RegisterTokenEffect, LogoutEffect, DeleteTokenEffect,
     CheckEffect DEF Plain
<1>3. CASE ResetIncr(r) \/ ResetExpire(r) \/ ResetToken(r) \/ ResetMail(r)
  BY <1>0, <1>1, <1>3, ResetEffect DEF Plain
<1>4. CASE UpsertAvatar(r) \/ WriteAvatarURL(r) \/ CleanUpAvatar(r)
  BY <1>0, <1>1, <1>4, AvatarEffect DEF Plain
<1>5. CASE RegisterUser(r)
  BY <1>0, <1>1, <1>5, RegisterUserEffect DEF Plain
<1>6. CASE LoginLookup(r)
  BY <1>0, <1>1, <1>6, LoginLookupEffect DEF Plain
<1>7. CASE SaveSession(r)
  BY <1>0, <1>1, <1>7, SaveSessionEffect
<1>8. CASE LogoutLookup(r)
  BY <1>0, <1>1, <1>8, LogoutLookupEffect DEF Plain
<1>9. CASE GetToken(r)
  BY <1>0, <1>1, <1>9, GetTokenEffect
<1>10. CASE ReadForToken(r)
  <2>1. request[r].user \in UserIds
    BY <1>10 DEF Base, StageInv, ReadForToken, At
  <2> QED BY <1>0, <1>1, <1>10, <2>1, ReadForTokenEffect
<1>11. CASE WriteForToken(r)
  BY <1>0, <1>1, <1>11, WriteForTokenEffect
<1>12. CASE ReadForProfile(r)
  <2>1. request[r].user \in UserIds
    BY <1>0, <1>12 DEF Base, StageInv, ReadForProfile, At
  <2> QED BY <1>0, <1>1, <1>12, <2>1, ReadForProfileEffect
<1>13. CASE WriteProfile(r)
  BY <1>0, <1>1, <1>13, WriteProfileEffect
<1>14. CASE FindAvatar(r)
  <2>1. request[r].user \in UserIds
    BY <1>0, <1>14 DEF Base, StageInv, FindAvatar, At
  <2> QED BY <1>0, <1>1, <1>14, <2>1, FindAvatarEffect
<1> QED BY <1>2, <1>3, <1>4, <1>5, <1>6, <1>7, <1>8, <1>9, <1>10, <1>11, <1>12, <1>13, <1>14
        DEF Handle

\* What a step makes of one request.
Arrived(q) == request[q].stage = "idle" /\ Arrivals(q) /\ Others(q) /\ Fresh(request'[q])
Handled(q) == request[q].stage \notin {"idle", "ended"} /\ Handle(q) /\ Moves(q)

LEMMA Frame ==
    ASSUME Base, [Next]_vars
    PROVE  /\ request' \in [Requests -> Request]
           /\ \A q \in Requests : request'[q] = request[q] \/ Arrived(q) \/ Handled(q)
                                    \/ (Crashed(q) /\ Crash)
<1>0. TypeOK
  BY DEF Base
<1>1. ASSUME NEW r \in Requests, Handle(r)
      PROVE  /\ request' \in [Requests -> Request]
             /\ \A q \in Requests : request'[q] = request[q] \/ Handled(q)
  BY <1>1, HandleEffect DEF Handled, Moves, Others
<1>2. ASSUME NEW r \in Requests, Arrivals(r)
      PROVE  /\ request' \in [Requests -> Request]
             /\ \A q \in Requests : request'[q] = request[q] \/ Arrived(q)
  BY <1>0, <1>2, ArriveEffect DEF Arrived, Others
<1>3. ASSUME Crash
      PROVE  /\ request' \in [Requests -> Request]
             /\ \A q \in Requests : request'[q] = request[q] \/ Crashed(q)
  BY <1>0, <1>3, CrashEffect
<1>4. ASSUME ExpireTokens \/ UNCHANGED vars
      PROVE  request' = request
  BY <1>4 DEF ExpireTokens, vars
<1>5. \/ Crash
      \/ request' = request
      \/ \E r \in Requests : Handle(r)
      \/ \E r \in Requests : Arrivals(r)
  BY <1>4 DEF Next
<1>6. request' \in [Requests -> Request]
  BY <1>0, <1>1, <1>2, <1>3, <1>5 DEF TypeOK
<1>7. ASSUME NEW q \in Requests
      PROVE  request'[q] = request[q] \/ Arrived(q) \/ Handled(q) \/ (Crashed(q) /\ Crash)
  <2>1. CASE Crash
    BY <1>3, <2>1
  <2>2. CASE \E r \in Requests : Handle(r)
    BY <1>1, <2>2
  <2>3. CASE \E r \in Requests : Arrivals(r)
    BY <1>2, <2>3
  <2> QED BY <1>5, <2>1, <2>2, <2>3
<1> QED BY <1>6, <1>7

LEMMA EndedStays ==
    ASSUME Base, [Next]_vars
    PROVE  /\ Ended \subseteq Ended'
           /\ \A q \in Ended : request'[q] = request[q]
BY Frame DEF Ended, Arrived, Handled, Crashed

LEMMA TypeStep ==
    ASSUME Base, [Next]_vars
    PROVE  TypeOK' /\ users'[Alice] # NoRow
<1>0. TypeOK /\ \A r \in Requests : request[r] \in Request
  BY DEF Base, TypeOK
<1>1. sessions' \subseteq SessionRow
  <2>1. ASSUME NEW r \in Requests, SaveSession(r) PROVE sessions' \subseteq SessionRow
    <3>1. JWTs(r) \subseteq Requests
      BY <1>0 DEF TypeOK, JWTs, SessionRow
    <3>2. request[r].user \in UserIds
      BY <2>1 DEF SaveSession, At, Base, StageInv, UserIds
    <3>3. PICK jwt \in Requests, outcome \in Outcomes :
            sessions' = Result(outcome, sessions, CreateSession(sessions, r, request[r].user, jwt))
      BY <2>1, <3>1 DEF SaveSession
    <3>4. [id |-> r, user |-> request[r].user, token |-> jwt] \in SessionRow
      BY <3>2 DEF SessionRow
    <3> QED BY <1>0, <3>3, <3>4 DEF Result, CreateSession, TypeOK
  <2>2. ASSUME NEW r \in Requests, Logout(r) PROVE sessions' \subseteq SessionRow
    BY <1>0, <2>2 DEF Logout, Result, DeleteSession, TypeOK
  <2> QED BY <1>0, <2>1, <2>2, Untouched DEF TypeOK
<1>2. avatars' \in [UserIds -> Requests \cup {NoPicture}]
  <2>1. ASSUME NEW r \in Requests, UpsertAvatar(r) \/ CleanUpAvatar(r)
        PROVE  avatars' \in [UserIds -> Requests \cup {NoPicture}]
    BY <1>0, <2>1 DEF UpsertAvatar, CleanUpAvatar, Result, TypeOK
  <2> QED BY <1>0, <2>1, Untouched DEF TypeOK
<1>3. resets' \subseteq TokenRow
  <2>1. ASSUME NEW r \in Requests, ResetToken(r) PROVE resets' \subseteq TokenRow
    <3>1. \A id \in GetUserByEmail(users, request[r].email) : [token |-> r, user |-> id] \in TokenRow
      BY <1>0 DEF GetUserByEmail, TypeOK, TokenRow, Tokens
    <3> QED BY <1>0, <2>1, <3>1 DEF ResetToken, Result, TypeOK
  <2>2. ASSUME ExpireTokens \/ \E r \in Requests : DeleteToken(r) PROVE resets' \subseteq TokenRow
    BY <1>0, <2>2 DEF ExpireTokens, DeleteToken, Result, TypeOK
  <2> QED BY <1>0, <2>1, <2>2, Untouched DEF TypeOK
<1>4. verifications' \subseteq TokenRow
  <2>1. ASSUME NEW r \in Requests, RegisterToken(r) PROVE verifications' \subseteq TokenRow
    <3>1. [token |-> r, user |-> r] \in TokenRow
      BY DEF TokenRow, Tokens, UserIds
    <3> QED BY <1>0, <2>1, <3>1 DEF RegisterToken, Result, TypeOK
  <2>2. ASSUME ExpireTokens \/ \E r \in Requests : DeleteToken(r)
        PROVE  verifications' \subseteq TokenRow
    BY <1>0, <2>2 DEF ExpireTokens, DeleteToken, Result, TypeOK
  <2> QED BY <1>0, <2>1, <2>2, Untouched DEF TypeOK
<1>5. counter' \in [n : Nat, expires : BOOLEAN] /\ admitted' \in Nat
  <2>1. Incr(counter) \in [n : Nat, expires : BOOLEAN] /\ Expire(counter) \in [n : Nat, expires : BOOLEAN]
        /\ NoKey \in [n : Nat, expires : BOOLEAN]
    <3>1. counter \in [n : Nat, expires : BOOLEAN] /\ counter.n \in Nat
      BY <1>0 DEF TypeOK
    <3>2. counter.n + 1 \in Nat /\ 0 \in Nat
      BY <3>1
    <3>3. Incr(counter) \in [n : Nat, expires : BOOLEAN]
      BY <3>1, <3>2 DEF Incr
    <3>4. Expire(counter) \in [n : Nat, expires : BOOLEAN]
      BY <3>1 DEF Expire
    <3>5. NoKey \in [n : Nat, expires : BOOLEAN]
      BY <3>2 DEF NoKey
    <3> QED BY <3>3, <3>4, <3>5
  <2>2. ASSUME NEW r \in Requests, ResetIncr(r) \/ ResetExpire(r)
        PROVE  counter' \in {counter, Incr(counter), Expire(counter)} /\ admitted' \in Nat
    BY <1>0, <2>2 DEF ResetIncr, ResetExpire, Result, TypeOK
  <2>3. CASE ExpireTokens
    BY <1>0, <2>1, <2>3 DEF ExpireTokens, TypeOK
  <2> QED BY <1>0, <2>1, <2>2, <2>3, Untouched DEF TypeOK
<1>6. faults' \in 0 .. MaxFaults
  BY <1>0, Untouched, NamesAssumption DEF TypeOK
<1>7. users'[Alice] # NoRow
  BY UsersType DEF Base, UserIds
<1> QED BY <1>1, <1>2, <1>3, <1>4, <1>5, <1>6, <1>7, UsersType, Frame DEF TypeOK

LEMMA StageStep ==
    ASSUME Base, [Next]_vars
    PROVE  StageInv'
<1> SUFFICES ASSUME NEW r \in Requests
    PROVE
  /\ request'[r].op = "none" <=> request'[r].stage = "idle"
  /\ request'[r].op = "register" =>
       /\ request'[r].stage \in {"begun", "create", "token", "session", "ended"}
       /\ request'[r].stage \in {"token", "session"} => request'[r].user = r
  /\ request'[r].op = "login" =>
       /\ request'[r].stage \in {"begun", "session", "ended"}
       /\ request'[r].stage = "session" => request'[r].user \in UserIds
  /\ request'[r].op = "logout" =>
       /\ request'[r].stage \in {"begun", "found", "ended"}
       /\ request'[r].stage = "found" => request'[r].copy \in SessionRow
  /\ request'[r].op = "reset" =>
       request'[r].stage \in {"begun", "expire", "lookup", "mail", "ended"}
  /\ request'[r].op \in {"confirm", "verify"} =>
       /\ request'[r].stage \in {"begun", "token", "write", "delete", "ended"}
       /\ request'[r].stage \in {"token", "write", "delete"} => request'[r].user \in UserIds
       /\ request'[r].stage = "write" => request'[r].copy \in UserRow
  /\ request'[r].op = "profile" =>
       /\ request'[r].stage \in {"begun", "check", "write", "ended"} /\ request'[r].user = Alice
       /\ request'[r].stage \in {"check", "write"} => request'[r].copy \in UserRow
  /\ request'[r].op = "avatar" =>
       /\ request'[r].stage \in {"begun", "find", "url", "cleanup", "ended"}
       /\ request'[r].user = Alice
       /\ request'[r].stage \in {"url", "cleanup"} => request'[r].token \in Requests
  /\ request'[r].stage # "ended" => request'[r].answer = "none"
  /\ request'[r].wrote =>
       /\ request'[r].stage \in {"delete", "ended"} /\ request'[r].user \in UserIds
       /\ request'[r].op \in {"confirm", "verify", "profile"}
  BY DEF StageInv
<1>0. TypeOK /\ request[r] \in Request /\ Alice \in UserIds
  BY DEF Base, TypeOK, UserIds
<1>1. CASE request'[r] = request[r]
  BY <1>1 DEF Base, StageInv
<1>2. CASE Arrived(r)
  BY <1>2 DEF Arrived, Fresh, Ops
<1>3. CASE Crashed(r)
  BY <1>3 DEF Crashed, Plain, Base, StageInv
<1>4. CASE Handled(r)
  <2>1. CASE RegisterLookup(r) \/ RegisterToken(r) \/ Logout(r) \/ DeleteToken(r) \/ CheckUsername(r)
    BY <1>0, <2>1, RegisterLookupEffect, RegisterTokenEffect, LogoutEffect, DeleteTokenEffect,
       CheckEffect DEF Plain, Moves, At, Base, StageInv
  <2>2. CASE ResetIncr(r) \/ ResetExpire(r) \/ ResetToken(r) \/ ResetMail(r)
    BY <1>0, <2>2, ResetEffect DEF Plain, Moves, Base, StageInv
  <2>3. CASE UpsertAvatar(r) \/ WriteAvatarURL(r) \/ CleanUpAvatar(r)
    <3>1. /\ Moves(r) /\ Plain(r) /\ request[r].op = "avatar"
          /\ \/ request'[r].stage \in {"find", "ended"} /\ request[r].stage # "ended"
             \/ request'[r].stage = "cleanup" /\ request[r].stage = "url"
      BY <1>0, <2>3, AvatarEffect
    <3>2. /\ request[r].user = Alice
          /\ request[r].stage = "url" => request[r].token \in Requests
          /\ request[r].stage # "ended" => request[r].answer = "none"
          /\ ~request[r].wrote
      BY <3>1 DEF Base, StageInv
    <3>3. request'[r].stage # "ended" => request'[r].answer = "none"
      BY <1>0, <2>3, <3>1, <3>2, AvatarEffect
    <3> HIDE DEF Request, UserRow, SessionRow
    <3> QED BY <3>1, <3>2, <3>3 DEF Plain, Moves
  <2>4. CASE RegisterUser(r)
    BY <1>0, <2>4, RegisterUserEffect DEF Plain, Moves, At, Base, StageInv
  <2>5. CASE LoginLookup(r)
    BY <1>0, <2>5, LoginLookupEffect DEF Plain, Moves, At, Base, StageInv
  <2>6. CASE SaveSession(r)
    BY <1>0, <2>6, SaveSessionEffect DEF Moves, Base, StageInv
  <2>7. CASE LogoutLookup(r)
    <3>1. ~request[r].wrote /\ request[r].answer = "none"
      BY <1>0, <2>7 DEF Base, StageInv, LogoutLookup, At
    <3>2. request'[r].stage = "found" => request'[r].answer = "none"
      BY <1>0, <2>7, <3>1, LogoutLookupEffect
    <3> QED BY <1>0, <2>7, <3>1, <3>2, LogoutLookupEffect DEF Plain, Moves, At
  <2>8. CASE GetToken(r)
    <3>1. request'[r].stage = "token" => request'[r].user \in UserIds
      BY <1>0, <2>8, GetTokenEffect DEF TokenRow
    <3> QED BY <1>0, <2>8, <3>1, GetTokenEffect DEF Plain, Moves, Base, StageInv
  <2>9. CASE ReadForToken(r)
    <3>1. request[r].user \in UserIds
      BY <2>9 DEF Base, StageInv, ReadForToken, At
    <3> QED BY <1>0, <2>9, <3>1, ReadForTokenEffect DEF Plain, Moves, Base, StageInv
  <2>10. CASE WriteForToken(r)
    BY <1>0, <2>10, WriteForTokenEffect DEF Moves, Base, StageInv
  <2>11. CASE ReadForProfile(r)
    <3>1. request[r].user = Alice /\ users[Alice] \in UserRow
      BY <1>0, <2>11 DEF Base, StageInv, ReadForProfile, At, TypeOK
    <3> QED BY <1>0, <2>11, <3>1, ReadForProfileEffect DEF Moves, At, Base, StageInv
  <2>12. CASE WriteProfile(r)
    BY <1>0, <2>12, WriteProfileEffect DEF Moves, At, Base, StageInv
  <2>13. CASE FindAvatar(r)
    <3>1. request[r].user \in UserIds
      BY <1>0, <2>13 DEF Base, StageInv, FindAvatar, At
    <3>2. ~request[r].wrote /\ request[r].answer = "none" /\ request[r].user = Alice
      BY <1>0, <2>13 DEF Base, StageInv, FindAvatar, At
    <3> QED BY <1>0, <2>13, <3>1, <3>2, FindAvatarEffect DEF Plain, Moves, At
  <2> QED BY <1>4, <2>1, <2>2, <2>3, <2>4, <2>5, <2>6, <2>7, <2>8, <2>9, <2>10, <2>11, <2>12, <2>13
          DEF Handled, Handle
<1> QED BY <1>1, <1>2, <1>3, <1>4, Frame

LEMMA BaseStep == Base /\ [Next]_vars => Base'
BY TypeStep, StageStep DEF Base

LEMMA BaseInit == Init => Base
<1> SUFFICES ASSUME Init PROVE Base
  OBVIOUS
<1>1. Idle \in Request
  BY NamesAssumption DEF Idle, Request, Stages, Answers
<1>2. request \in [Requests -> Request] /\ StageInv
  BY <1>1 DEF Init, StageInv, Idle
<1>3. users \in [UserIds -> UserRow \cup {NoRow}] /\ users[Alice] # NoRow
  <2>1. NewUser(AliceEmail, OldPassword, Nobody, AliceName) \in UserRow
    BY NamesAssumption DEF NewUser, UserRow, Author
  <2> QED BY <2>1, RowAssumption DEF Init, UserIds
<1>4. resets \subseteq TokenRow /\ verifications \subseteq TokenRow
  BY DEF Init, TokenRow, Tokens, UserIds
<1>5. counter \in [n : Nat, expires : BOOLEAN] /\ admitted \in Nat /\ faults \in 0 .. MaxFaults
  BY NamesAssumption DEF Init, NoKey
<1>6. avatars \in [UserIds -> Requests \cup {NoPicture}] /\ sessions \subseteq SessionRow
  BY DEF Init
<1> QED BY <1>2, <1>3, <1>4, <1>5, <1>6 DEF Base, TypeOK

\* Tables, tokens, counter and requests hold values of their types.
THEOREM TypeCorrect == Spec => []TypeOK
<1>1. Base => TypeOK
  BY DEF Base
<1> QED BY <1>1, BaseInit, BaseStep, PTL DEF Spec

\* The handlers of each operation.
LEMMA HandlerOf ==
    ASSUME NEW r \in Requests, Handle(r)
    PROVE  /\ request[r].op = "register" =>
                RegisterLookup(r) \/ RegisterUser(r) \/ RegisterToken(r) \/ SaveSession(r)
           /\ request[r].op = "reset" =>
                ResetIncr(r) \/ ResetExpire(r) \/ ResetToken(r) \/ ResetMail(r)
           /\ request[r].op \in {"confirm", "verify"} =>
                GetToken(r) \/ ReadForToken(r) \/ WriteForToken(r) \/ DeleteToken(r)
           /\ request[r].op = "profile" => ReadForProfile(r) \/ CheckUsername(r) \/ WriteProfile(r)
           /\ request[r].op = "avatar" =>
                UpsertAvatar(r) \/ FindAvatar(r) \/ WriteAvatarURL(r) \/ CleanUpAvatar(r)
BY DEF Handle, RegisterLookup, RegisterUser, RegisterToken, LoginLookup, SaveSession,
       LogoutLookup, Logout, ResetIncr, ResetExpire, ResetToken, ResetMail, GetToken, ReadForToken,
       WriteForToken, DeleteToken, ReadForProfile, CheckUsername, WriteProfile, UpsertAvatar,
       FindAvatar, WriteAvatarURL, CleanUpAvatar, At

-----------------------------------------------------------------------------
(* Addresses and names are unique.                                         *)

\* A registration past its INSERT has its row.
RegisteredInv == \A r \in Requests :
  request[r].op = "register" /\ (request[r].stage \in {"token", "session"} \/ Answered(r, "register"))
    => users[r] # NoRow

Unique == \A u, v \in UserIds : u # v /\ users[u] # NoRow /\ users[v] # NoRow =>
            users[u].email # users[v].email /\ users[u].username # users[v].username

LEMMA OneRow ==
    ASSUME Base, [Next]_vars, NEW u \in UserIds, NEW v \in UserIds,
           users'[u] # users[u], users'[v] # users[v]
    PROVE  u = v
<1>0. users \in [UserIds -> UserRow \cup {NoRow}]
  BY DEF Base, TypeOK
<1>1. \A id, row : CreateUser(users, id, row)[u] # users[u] => u = id
  BY <1>0 DEF CreateUser
<1>2. \A id, row : UpdateUser(users, id, row)[u] # users[u] => u = id
  BY <1>0 DEF UpdateUser
<1>3. \A id, url : UpdateUserProfilePicURL(users, id, url)[u] # users[u] => u = id
  BY <1>0 DEF UpdateUserProfilePicURL
<1>4. \A id, row : CreateUser(users, id, row)[v] # users[v] => v = id
  BY <1>0 DEF CreateUser
<1>5. \A id, row : UpdateUser(users, id, row)[v] # users[v] => v = id
  BY <1>0 DEF UpdateUser
<1>6. \A id, url : UpdateUserProfilePicURL(users, id, url)[v] # users[v] => v = id
  BY <1>0 DEF UpdateUserProfilePicURL
<1> QED BY <1>1, <1>2, <1>3, <1>4, <1>5, <1>6, UsersStep DEF Created, Rewritten, Pictured

\* The constraints of the table see every row that is written, a stale copy too.
LEMMA UniqueStep ==
    ASSUME Base, [Next]_vars, Unique
    PROVE  Unique'
<1>0. DOMAIN users = UserIds /\ \A r \in Requests : request[r] \in Request
  BY DEF Base, TypeOK
<1>1. ASSUME NEW u \in UserIds, users'[u] # users[u],
             NEW v \in UserIds \ {u}, users[v] # NoRow
      PROVE  users'[u].email # users[v].email /\ users'[u].username # users[v].username
  <2>1. ASSUME NEW name \in Names, ~DuplicateKey(users, u, request[u].email, name),
               users'[u] = NewUser(request[u].email, OldPassword, Nobody, name)
        PROVE  users'[u].email # users[v].email /\ users'[u].username # users[v].username
    BY <1>0, <1>1, <2>1 DEF DuplicateKey, NewUser
  <2>2. ASSUME NEW r \in Requests, Rewritten(r), u = request[r].user,
               users'[u] = [NewRow(r) EXCEPT !.pic = users[u].pic]
        PROVE  users'[u].email # users[v].email /\ users'[u].username # users[v].username
    <3>1. NewRow(r) \in UserRow
      BY <2>2, NewRowType DEF Rewritten
    <3>2. users'[u].email = NewRow(r).email /\ users'[u].username = NewRow(r).username
      BY <2>2, <3>1 DEF UserRow
    <3> QED BY <1>0, <1>1, <2>2, <3>2 DEF Rewritten, DuplicateKey
  <2>3. ASSUME NEW r \in Requests, users[u] # NoRow,
               users'[u] = [users[u] EXCEPT !.pic = request[r].token]
        PROVE  users'[u].email # users[v].email /\ users'[u].username # users[v].username
    <3>1. users[u] \in UserRow
      BY <1>1, <2>3 DEF Base, TypeOK
    <3>2. users'[u].email = users[u].email /\ users'[u].username = users[u].username
      BY <2>3, <3>1 DEF UserRow
    <3> QED BY <1>1, <2>3, <3>2 DEF Unique
  <2> QED BY <1>1, <2>1, <2>2, <2>3, RowStep
<1> SUFFICES ASSUME NEW u \in UserIds, NEW v \in UserIds, u # v,
                    users'[u] # NoRow, users'[v] # NoRow
             PROVE  users'[u].email # users'[v].email /\ users'[u].username # users'[v].username
  BY DEF Unique
<1>2. CASE users'[u] = users[u] /\ users'[v] = users[v]
  BY <1>2 DEF Unique
<1>3. CASE users'[u] # users[u]
  BY <1>1, <1>3, OneRow
<1>4. CASE users'[v] # users[v]
  BY <1>1, <1>4, OneRow
<1> QED BY <1>2, <1>3, <1>4

LEMMA RegisteredStep ==
    ASSUME Base, [Next]_vars, RegisteredInv
    PROVE  RegisteredInv'
<1> SUFFICES ASSUME NEW r \in Requests, request'[r].op = "register",
                    \/ request'[r].stage \in {"token", "session"}
                    \/ request'[r].stage = "ended" /\ request'[r].answer = "ok"
             PROVE  users'[r] # NoRow
  BY DEF RegisteredInv, Answered
<1>0. TypeOK /\ request[r] \in Request /\ r \in UserIds
  BY DEF Base, TypeOK, UserIds
<1>1. CASE request'[r] = request[r]
  BY <1>0, <1>1, UsersType DEF RegisteredInv, Answered
<1>2. CASE Arrived(r) \/ Crashed(r)
  BY <1>2 DEF Arrived, Fresh, Crashed
<1>3. CASE Handled(r)
  <2>1. request[r].op = "register"
    BY <1>3 DEF Handled, Moves
  <2>2. CASE RegisterLookup(r)
    BY <1>0, <2>2, RegisterLookupEffect
  <2>3. CASE RegisterUser(r)
    <3>2. \A name \in Names : NewUser(request[r].email, OldPassword, Nobody, name) \in UserRow
      BY <1>0, NamesAssumption DEF NewUser, UserRow, Request, Author
    <3>3. request'[r].stage = "token"
      BY <1>0, <2>3, RegisterUserEffect
    <3>4. ~End(r, "error")
      BY <1>0, <3>3, Ending DEF Answers
    <3>5. \E name \in Names :
            users' = CreateUser(users, r, NewUser(request[r].email, OldPassword, Nobody, name))
      BY <2>3, <3>4 DEF RegisterUser, Result
    <3> QED BY <1>0, <3>2, <3>5, RowAssumption DEF CreateUser, TypeOK
  <2>4. CASE RegisterToken(r)
    BY <1>0, <2>1, <2>4, RegisterTokenEffect, UsersType DEF RegisteredInv, At
  <2>5. CASE SaveSession(r)
    BY <1>0, <2>1, <2>5, SaveSessionEffect, UsersType DEF RegisteredInv
  <2> QED BY <1>3, <2>1, <2>2, <2>3, <2>4, <2>5, HandlerOf DEF Handled
<1> QED BY <1>1, <1>2, <1>3, Frame

\* No two users share an address or a name, and a registration that was answered
\* has its account: however the lookups and the writes interleave.
THEOREM IdentitiesAreUnique == Spec => []IdentitiesUnique
<1>1. Init => Base /\ Unique /\ RegisteredInv
  BY BaseInit DEF Init, Unique, RegisteredInv, Idle, Answered
<1>2. Base /\ Unique /\ RegisteredInv /\ [Next]_vars => (Base /\ Unique /\ RegisteredInv)'
  BY BaseStep, UniqueStep, RegisteredStep
<1>3. Unique /\ RegisteredInv => IdentitiesUnique
  BY DEF Unique, RegisteredInv, IdentitiesUnique, Answered
<1> QED BY <1>1, <1>2, <1>3, PTL DEF Spec

-----------------------------------------------------------------------------
(* The limit on resets.                                                    *)

\* The limit is counted before it is used.
LimitInv == admitted <= counter.n /\ admitted <= MaxResets

\* Who is to set the time to live of the counter, or failed to.
Responsible(r) ==
  /\ request[r].op = "reset"
  /\ \/ request[r].stage = "expire"
     \/ request[r].stage = "ended" /\ request[r].answer # "ok" /\ faults > 0
WindowInv == counter.n > 0 /\ ~counter.expires => \E r \in Requests : Responsible(r)

LEMMA CounterType ==
    ASSUME TypeOK
    PROVE  /\ counter.n \in Nat /\ counter.expires \in BOOLEAN /\ admitted \in Nat /\ faults \in Nat
           /\ Incr(counter).n = counter.n + 1 /\ Incr(counter).expires = counter.expires
           /\ Expire(counter).n = counter.n
           /\ counter.n > 0 => Expire(counter).expires
           /\ NoKey.n = 0
           /\ MaxResets \in Nat /\ MaxResets > 0
<1>1. counter \in [n : Nat, expires : BOOLEAN] /\ admitted \in Nat /\ faults \in Nat
  BY NamesAssumption DEF TypeOK
<1> QED BY <1>1, NamesAssumption DEF Incr, Expire, NoKey

LEMMA LimitStep ==
    ASSUME Base, [Next]_vars, LimitInv
    PROVE  LimitInv'
<1>0. TypeOK
  BY DEF Base
<1>1. CASE counter' = counter /\ admitted' = admitted
  BY <1>1 DEF LimitInv
<1>2. CASE ExpireTokens
  BY <1>0, <1>2, CounterType DEF ExpireTokens, LimitInv
<1>3. ASSUME NEW r \in Requests, ResetIncr(r) PROVE LimitInv'
  <2>1. \/ admitted' = admitted /\ counter' \in {counter, Incr(counter)}
        \/ /\ counter.n + 1 <= MaxResets
           /\ admitted' = admitted + 1 /\ counter' = Incr(counter)
    BY <1>3 DEF ResetIncr, Result, WithinLimit
  <2> QED BY <1>0, <2>1, CounterType DEF LimitInv
<1>4. ASSUME NEW r \in Requests, ResetExpire(r) PROVE LimitInv'
  <2>1. admitted' = admitted /\ counter' \in {counter, Expire(counter)}
    BY <1>4 DEF ResetExpire, Result
  <2> QED BY <1>0, <2>1, CounterType DEF LimitInv
<1> QED BY <1>0, <1>1, <1>2, <1>3, <1>4, Untouched

LEMMA WindowStep ==
    ASSUME Base, [Next]_vars, WindowInv
    PROVE  WindowInv'
<1>0. TypeOK
  BY DEF Base
<1>1. faults' >= faults /\ faults \in Nat /\ faults' \in Nat
  <2>1. faults \in Nat
    BY <1>0, CounterType
  <2> QED BY <1>0, <2>1, Untouched
<1>2. ASSUME NEW r \in Requests, Responsible(r), ~ResetExpire(r) PROVE Responsible(r)'
  <2>1. CASE request'[r] = request[r]
    BY <1>1, <1>2, <2>1 DEF Responsible
  <2>2. CASE Arrived(r)
    BY <1>2, <2>2 DEF Arrived, Responsible
  <2>3. CASE Crashed(r) /\ Crash
    <3>1. faults' > 0
      <4>1. faults' = faults + 1
        BY <2>3 DEF Crash
      <4> QED BY <1>1, <4>1
    <3>2. request'[r].op = "reset" /\ request'[r].stage = "ended" /\ request'[r].answer = "none"
      BY <1>2, <2>3 DEF Crashed, Responsible
    <3> QED BY <3>1, <3>2 DEF Responsible
  <2>4. CASE Handled(r)
    <3>1. request[r].stage = "expire" /\ request[r].op = "reset"
      BY <1>2, <2>4 DEF Handled, Responsible
    <3> QED BY <1>0, <1>2, <2>4, <3>1, HandlerOf, ResetEffect DEF Handled
  <2> QED BY <2>1, <2>2, <2>3, <2>4, Frame
<1>3. ASSUME NEW r \in Requests, ResetExpire(r) PROVE WindowInv'
  <2>1. PICK outcome \in Outcomes :
          /\ counter' = Result(outcome, counter, Expire(counter))
          /\ Goto(r, IF outcome = "done" THEN "lookup" ELSE "ended")
          /\ Spend(outcome)
    BY <1>3 DEF ResetExpire
  <2>2. CASE outcome # "refused"
    BY <1>0, <2>1, <2>2, CounterType DEF Result, WindowInv
  <2>3. CASE outcome = "refused"
    <3>1. Goto(r, "ended") /\ faults' = faults + 1
      BY <2>1, <2>3 DEF Spend
    <3>2. Responsible(r)'
      <4>1. request[r].answer = "none" /\ request[r].op = "reset"
        BY <1>3 DEF ResetExpire, At, Base, StageInv
      <4>2. request'[r].op = "reset" /\ request'[r].stage = "ended" /\ request'[r].answer = "none"
        BY <1>0, <3>1, <4>1, Going DEF Stages, Moves
      <4> QED BY <1>1, <3>1, <4>2 DEF Responsible
    <3> QED BY <3>2 DEF WindowInv
  <2> QED BY <2>2, <2>3
<1>4. ASSUME NEW r \in Requests, ResetIncr(r) PROVE WindowInv'
  <2>1. PICK outcome \in Outcomes :
          /\ counter' = Result(outcome, counter, Incr(counter))
          /\ Spend(outcome)
          /\ IF outcome = "done"
             THEN Goto(r, IF FirstOfWindow(counter.n + 1) THEN "expire"
                          ELSE IF WithinLimit(counter.n + 1, MaxResets) THEN "lookup"
                          ELSE "ended")
             ELSE Goto(r, "ended")
    BY <1>4 DEF ResetIncr
  <2>2. request[r].answer = "none" /\ At(r, "reset", "begun")
    BY <1>4 DEF ResetIncr, At, Base, StageInv
  <2>3. Moves(r)
    BY <1>0, <1>4, ResetEffect
  <2>4. ASSUME NEW q \in Requests, Responsible(q) PROVE Responsible(q)'
    <3>1. request'[q] = request[q]
      BY <2>2, <2>3, <2>4 DEF Responsible, At, Moves, Others
    <3> QED BY <1>1, <2>4, <3>1 DEF Responsible
  <2>5. CASE outcome = "done" /\ counter.n = 0
    <3>1. Goto(r, "expire")
      BY <2>1, <2>5 DEF FirstOfWindow
    <3>2. request'[r].stage = "expire" /\ request'[r].op = "reset"
      BY <1>0, <2>2, <3>1, Going DEF Moves, Stages, At
    <3> QED BY <3>2 DEF Responsible, WindowInv
  <2>6. CASE outcome = "done" /\ counter.n # 0
    <3>1. counter' = Incr(counter)
      BY <2>1, <2>6 DEF Result
    <3> QED BY <1>0, <2>4, <2>6, <3>1, CounterType DEF WindowInv
  <2>7. CASE outcome # "done"
    <3>1. Goto(r, "ended") /\ faults' = faults + 1
      BY <2>1, <2>7 DEF Spend
    <3>2. request'[r].stage = "ended" /\ request'[r].op = "reset" /\ request'[r].answer = "none"
      BY <1>0, <2>2, <3>1, Going DEF Moves, Stages, At
    <3> QED BY <1>1, <3>1, <3>2 DEF Responsible, WindowInv
  <2> QED BY <2>5, <2>6, <2>7
<1>5. CASE \A r \in Requests : ~ResetExpire(r) /\ ~ResetIncr(r)
  <2>1. counter' = counter \/ counter' = NoKey
    BY <1>0, <1>5, Untouched DEF ExpireTokens
  <2> QED BY <1>0, <1>2, <1>5, <2>1, CounterType DEF WindowInv
<1> QED BY <1>3, <1>4, <1>5

\* In a window no more requests get past the limit than it allows, and a counter
\* without a time to live has a request that is to set it, or failed to.
THEOREM ResetLimitIsKept == Spec => []ResetLimitHolds
<1>1. Init => Base /\ LimitInv /\ WindowInv
  BY BaseInit, NamesAssumption DEF Init, LimitInv, WindowInv, NoKey
<1>2. Base /\ LimitInv /\ WindowInv /\ [Next]_vars => (Base /\ LimitInv /\ WindowInv)'
  BY BaseStep, LimitStep, WindowStep
<1>3. Base /\ LimitInv /\ WindowInv => ResetLimitHolds
  <2>1. ASSUME Base, NEW r \in Requests, Responsible(r)
        PROVE  request[r].op = "reset" /\ request[r].answer # "ok"
               /\ (At(r, "reset", "expire") \/ faults > 0)
    BY <2>1 DEF Base, StageInv, Responsible, At
  <2> QED BY <2>1 DEF LimitInv, WindowInv, ResetLimitHolds, ResetsBounded, WindowEnds
<1> QED BY <1>1, <1>2, <1>3, PTL DEF Spec

-----------------------------------------------------------------------------
(* Reset tokens.                                                           *)

\* What a request saw ended has ended.
SeenInv == \A q \in Requests : request[q].saw \subseteq Ended

LEMMA SawStep ==
    ASSUME Base, [Next]_vars, NEW q \in Requests
    PROVE  /\ request'[q].saw \in {request[q].saw, Ended}
           /\ request[q].stage \notin {"idle", "begun"} => request'[q].saw = request[q].saw
<1>0. TypeOK /\ request[q] \in Request /\ Alice \in UserIds
  BY DEF Base, TypeOK, UserIds
<1>1. CASE request'[q] = request[q] \/ Arrived(q) \/ Crashed(q)
  BY <1>1 DEF Arrived, Fresh, Crashed, Plain
<1>2. CASE Handled(q)
  <2>1. CASE GetToken(q)
    BY <1>0, <2>1, GetTokenEffect DEF Plain
  <2>2. CASE ReadForProfile(q)
    <3>1. request[q].user \in UserIds /\ request[q].stage = "begun"
      BY <1>0, <2>2 DEF Base, StageInv, ReadForProfile, At
    <3> QED BY <1>0, <2>2, <3>1, ReadForProfileEffect
  <2> QED BY <1>2, <2>1, <2>2, HandleEffect DEF Handled
<1> QED BY <1>1, <1>2, Frame

LEMMA SeenStep ==
    ASSUME Base, [Next]_vars, SeenInv
    PROVE  SeenInv'
BY SawStep, EndedStays DEF SeenInv

LEMMA AnswerStep ==
    ASSUME Base, [Next]_vars, NEW r \in Requests, NEW op, Answered(r, op)'
    PROVE  \/ Answered(r, op) /\ request'[r] = request[r]
           \/ Handled(r) /\ r \notin Ended
<1>1. CASE request'[r] = request[r]
  BY <1>1 DEF Answered
<1>2. CASE Arrived(r) \/ Crashed(r)
  BY <1>2 DEF Arrived, Fresh, Crashed, Answered
<1> QED BY <1>1, <1>2, Frame DEF Handled, Ended

\* The reset tokens there have been.
Minted(token) ==
  \/ token = OldReset
  \/ token \in Requests /\ request[token].op = "reset" /\ request[token].stage \in {"mail", "ended"}
MintedInv ==
  /\ \A t \in resets : Minted(t.token)
  /\ \A r \in Requests : request[r].op = "confirm" => Minted(request[r].token)

\* The token of an answered confirmation is gone.
GoneInv == \A r \in Requests :
  faults = 0 /\ Answered(r, "confirm") => \A t \in resets : t.token # request[r].token

\* A confirmation past its lookup saw no other with its token.
PastLookup(q) == request[q].op = "confirm" /\
                 (request[q].stage \in {"token", "write", "delete"} \/ Answered(q, "confirm"))
ReuseInv == \A r, q \in Requests :
  PastLookup(q) /\ Answered(r, "confirm") /\ request[r].token = request[q].token
    => r \notin request[q].saw \/ faults > 0

LEMMA MintedStep ==
    ASSUME Base, [Next]_vars, MintedInv
    PROVE  MintedInv'
<1>0. TypeOK /\ \A r \in Requests : request[r] \in Request
  BY DEF Base, TypeOK
<1>1. ASSUME NEW token, Minted(token) PROVE Minted(token)'
  <2>1. CASE token = OldReset
    BY <2>1 DEF Minted
  <2>2. CASE /\ token \in Requests /\ request[token].op = "reset"
             /\ request[token].stage \in {"mail", "ended"}
    <3>1. ASSUME Handled(token) PROVE request'[token].stage = "ended" /\ request'[token].op = "reset"
      BY <1>0, <2>2, <3>1, HandlerOf, ResetEffect DEF Handled, Moves
    <3> QED BY <2>2, <3>1, Frame DEF Arrived, Crashed, Minted
  <2> QED BY <1>1, <2>1, <2>2 DEF Minted
<1>2. ASSUME NEW t \in resets' PROVE Minted(t.token)'
  <2>1. CASE t \in resets
    BY <1>1, <2>1 DEF MintedInv
  <2>2. CASE t \notin resets
    <3>1. PICK r \in Requests : ResetToken(r)
      BY <1>0, <2>2, Untouched DEF ExpireTokens, DeleteToken, Result
    <3>2. t.token = r
      BY <2>2, <3>1 DEF ResetToken, Result
    <3>3. request'[r].op = "reset" /\ request'[r].stage \in {"mail", "ended"}
      BY <1>0, <3>1, ResetEffect DEF Moves
    <3> QED BY <3>2, <3>3 DEF Minted
  <2> QED BY <2>1, <2>2
<1>3. ASSUME NEW r \in Requests, request'[r].op = "confirm" PROVE Minted(request[r].token)'
  <2>1. CASE Arrived(r)
    BY <1>1, <1>3, <2>1 DEF Arrived, Fresh, MintedInv
  <2>2. CASE request'[r] = request[r] \/ Crashed(r)
    BY <1>1, <1>3, <2>2 DEF Crashed, Plain, MintedInv
  <2>3. CASE Handled(r)
    <3>1. request[r].op = "confirm" /\ request'[r].token = request[r].token
      BY <1>3, <2>3, HandleEffect DEF Handled, Moves, SaveSession, FindAvatar, At
    <3> QED BY <1>1, <3>1 DEF MintedInv
  <2> QED BY <2>1, <2>2, <2>3, Frame
<1> QED BY <1>2, <1>3 DEF MintedInv

LEMMA GoneStep ==
    ASSUME Base, [Next]_vars, MintedInv, GoneInv
    PROVE  GoneInv'
<1> SUFFICES ASSUME NEW r \in Requests, faults' = 0, Answered(r, "confirm")',
                    NEW t \in resets', t.token = request'[r].token
             PROVE  FALSE
  BY DEF GoneInv
<1>0. TypeOK /\ request[r] \in Request /\ faults = 0
  BY Untouched, CounterType DEF Base, TypeOK
<1>1. CASE Answered(r, "confirm") /\ request'[r] = request[r]
  <2>1. t \notin resets
    BY <1>0, <1>1 DEF GoneInv
  <2>2. PICK w \in Requests : ResetToken(w)
    BY <1>0, <2>1, Untouched DEF ExpireTokens, DeleteToken, Result
  <2>3. t.token = w
    BY <2>1, <2>2 DEF ResetToken, Result
  <2>4. Minted(w)
    BY <1>1, <2>3 DEF MintedInv, Answered
  <2>5. w # OldReset
    BY NamesAssumption
  <2> QED BY <2>2, <2>4, <2>5 DEF Minted, ResetToken, At
<1>2. CASE Handled(r) /\ r \notin Ended
  <2>1. request[r].op = "confirm" /\ request'[r].stage = "ended" /\ request'[r].answer = "ok"
    BY <1>2 DEF Handled, Moves, Answered
  <2>2. CASE DeleteToken(r)
    <3>1. PICK outcome \in Outcomes :
            /\ resets' = Result(outcome, resets, {s \in resets : s.token # request[r].token})
            /\ Spend(outcome)
      BY <2>2 DEF DeleteToken
    <3>2. outcome = "done"
      BY <1>0, <3>1 DEF Spend
    <3>3. resets' = {s \in resets : s.token # request[r].token}
      BY <3>1, <3>2 DEF Result
    <3>4. request'[r].token = request[r].token
      BY <1>0, <2>2, DeleteTokenEffect DEF Plain
    <3> QED BY <3>3, <3>4
  <2>3. CASE GetToken(r)
    BY <1>0, <2>1, <2>3, GetTokenEffect
  <2>4. CASE ReadForToken(r)
    <3>1. request[r].user \in UserIds
      BY <2>4 DEF Base, StageInv, ReadForToken, At
    <3> QED BY <1>0, <2>1, <2>4, <3>1, ReadForTokenEffect
  <2>5. CASE WriteForToken(r)
    BY <1>0, <2>1, <2>5, WriteForTokenEffect
  <2> QED BY <1>2, <2>1, <2>2, <2>3, <2>4, <2>5, HandlerOf DEF Handled
<1> QED BY <1>1, <1>2, AnswerStep

LEMMA ReuseStep ==
    ASSUME Base, [Next]_vars, SeenInv, GoneInv, ReuseInv
    PROVE  ReuseInv'
<1> SUFFICES ASSUME NEW r \in Requests, NEW q \in Requests, PastLookup(q)',
                    Answered(r, "confirm")', request'[r].token = request'[q].token,
                    ~(faults' > 0), r \in request'[q].saw
             PROVE  FALSE
  BY DEF ReuseInv
<1>0. TypeOK /\ request[q] \in Request /\ request[r] \in Request /\ faults = 0
  BY Untouched, CounterType DEF Base, TypeOK
<1>1. r \in Ended
  BY SawStep DEF SeenInv
<1>2. Answered(r, "confirm") /\ request'[r] = request[r]
  BY <1>1, AnswerStep
<1>3. CASE request'[q] = request[q]
  BY <1>0, <1>2, <1>3 DEF ReuseInv, PastLookup, Answered
<1>4. CASE Arrived(q) \/ Crashed(q)
  BY <1>4 DEF Arrived, Fresh, Crashed, PastLookup, Answered
<1>5. CASE Handled(q)
  <2>1. request[q].op = "confirm"
    BY <1>5 DEF Handled, Moves, PastLookup
  <2>2. CASE GetToken(q)
    <3>1. request'[q].stage = "token" /\ request'[q].token = request[q].token
      BY <1>0, <2>2, GetTokenEffect DEF PastLookup, Answered
    <3>2. \E t \in resets : t.token = request[q].token
      BY <1>0, <2>1, <2>2, <3>1, GetTokenEffect DEF Live, Answered
    <3> QED BY <1>0, <1>2, <3>1, <3>2 DEF GoneInv
  <2>3. CASE ReadForToken(q) \/ WriteForToken(q) \/ DeleteToken(q)
    <3>1. request[q].stage \in {"token", "write", "delete"}
      BY <2>3 DEF ReadForToken, WriteForToken, DeleteToken, At
    <3>2. request'[q].saw = request[q].saw
      BY <3>1, SawStep
    <3>3. request'[q].token = request[q].token
      BY <1>5, <2>1, HandleEffect DEF Handled, SaveSession, FindAvatar, At
    <3> QED BY <1>0, <1>2, <2>1, <3>1, <3>2, <3>3 DEF ReuseInv, PastLookup
  <2> QED BY <1>5, <2>1, <2>2, <2>3, HandlerOf DEF Handled
<1> QED BY <1>3, <1>4, <1>5, Frame

\* One reset token serves two requests only when they overlap, or the deletion of
\* the token failed.
THEOREM TokensAreReusedOnlyByOverlap == Spec => []TokenReusedOnlyByOverlap
<1> DEFINE IInv == Base /\ SeenInv /\ MintedInv /\ GoneInv /\ ReuseInv
<1>1. Init => IInv
  <2> SUFFICES ASSUME Init PROVE IInv
    OBVIOUS
  <2>1. \A r \in Requests : request[r].op = "none" /\ request[r].stage = "idle" /\ request[r].saw = {}
    BY DEF Init, Idle
  <2>2. \A t \in resets : t.token = OldReset
    BY DEF Init
  <2>3. SeenInv /\ GoneInv /\ ReuseInv
    BY <2>1 DEF SeenInv, GoneInv, ReuseInv, PastLookup, Answered
  <2>4. MintedInv
    BY <2>1, <2>2 DEF MintedInv, Minted
  <2> QED BY <2>3, <2>4, BaseInit
<1>2. IInv /\ [Next]_vars => IInv'
  BY BaseStep, SeenStep, MintedStep, GoneStep, ReuseStep
<1>3. IInv => TokenReusedOnlyByOverlap
  BY DEF ReuseInv, PastLookup, TokenReusedOnlyByOverlap, Answered
<1> HIDE DEF IInv
<1> QED BY <1>1, <1>2, <1>3, PTL DEF Spec

-----------------------------------------------------------------------------
(* The avatar.                                                             *)

\* An upload failed: it may have removed the document.
Failed == \E r \in Requests : /\ request[r].op = "avatar" /\ request[r].user = Alice
                              /\ request[r].answer = "error"

\* Only Alice has uploads; an upload that knows the document's id, and the row
\* that has its URL, have that of the document there is.
OthersBare == \A u \in UserIds \ {Alice} : /\ avatars[u] = NoPicture
                                           /\ users[u] # NoRow => users[u].pic = NoPicture
FoundInv  == \A r \in Requests :
  At(r, "avatar", "url") => avatars[Alice] = request[r].token \/ Failed
ServedInv == users[Alice].pic # NoPicture => avatars[Alice] = users[Alice].pic \/ Failed
StaysInv  == \A r \in Requests : Answered(r, "avatar") => users[Alice].pic # NoPicture

LEMMA FailedStays == ASSUME Base, [Next]_vars, Failed PROVE Failed'
<1>1. PICK r \in Requests : /\ request[r].op = "avatar" /\ request[r].user = Alice
                            /\ request[r].answer = "error"
  BY DEF Failed
<1>2. r \in Ended
  BY <1>1 DEF Base, StageInv, Ended
<1> QED BY <1>1, <1>2, EndedStays DEF Failed

\* An upload writes the URL of a document, and no other write touches it.
LEMMA PicStep ==
    ASSUME Base, [Next]_vars, NEW u \in UserIds, users'[u] # NoRow
    PROVE  \/ users[u] # NoRow /\ users'[u].pic = users[u].pic
           \/ u # Alice /\ users'[u].pic = NoPicture
           \/ /\ u = Alice
              /\ \E r \in Requests : /\ WriteAvatarURL(r)
                                     /\ request[r].token \in Requests
                                     /\ users'[u].pic = request[r].token
<1>0. \A v \in UserIds : users[v] # NoRow => users[v] \in UserRow
  BY DEF Base, TypeOK
<1>1. CASE users'[u] = users[u]
  BY <1>1
<1>2. ASSUME u \in Requests, NEW name \in Names,
             users'[u] = NewUser(request[u].email, OldPassword, Nobody, name)
      PROVE  u # Alice /\ users'[u].pic = NoPicture
  BY <1>2, NamesAssumption DEF NewUser
<1>3. ASSUME NEW r \in Requests, Rewritten(r), users[u] # NoRow,
             users'[u] = [NewRow(r) EXCEPT !.pic = users[u].pic]
      PROVE  users'[u].pic = users[u].pic
  <2>1. NewRow(r) \in UserRow
    BY <1>3, NewRowType DEF Rewritten
  <2> QED BY <1>3, <2>1 DEF UserRow
<1>4. ASSUME NEW r \in Requests, WriteAvatarURL(r), u = request[r].user, users[u] # NoRow,
             users'[u] = [users[u] EXCEPT !.pic = request[r].token]
      PROVE  /\ u = Alice /\ request[r].token \in Requests
             /\ users'[u].pic = request[r].token
  <2>1. users[u] \in UserRow
    BY <1>0, <1>4
  <2>2. request[r].user = Alice /\ request[r].token \in Requests
    BY <1>4 DEF WriteAvatarURL, At, Base, StageInv
  <2> QED BY <1>4, <2>1, <2>2 DEF UserRow
<1> QED BY <1>1, <1>2, <1>3, <1>4, RowStep

\* The document changes by the first upload, or is removed by one that failed.
LEMMA DocumentStep ==
    ASSUME Base, [Next]_vars
    PROVE  /\ avatars'[Alice] = avatars[Alice] \/ avatars[Alice] = NoPicture \/ Failed'
           /\ \A u \in UserIds \ {Alice} : avatars[u] = NoPicture => avatars'[u] = NoPicture
<1>0. TypeOK /\ Alice \in UserIds
  BY DEF Base, TypeOK, UserIds
<1>1. ASSUME NEW r \in Requests, UpsertAvatar(r)
      PROVE  /\ avatars'[Alice] = avatars[Alice] \/ avatars[Alice] = NoPicture
             /\ \A u \in UserIds \ {Alice} : avatars'[u] = avatars[u]
  <2>1. request[r].user = Alice
    BY <1>1 DEF UpsertAvatar, At, Base, StageInv
  <2> QED BY <1>0, <1>1, <2>1 DEF UpsertAvatar, Result, TypeOK
<1>2. ASSUME NEW r \in Requests, CleanUpAvatar(r)
      PROVE  /\ Failed'
             /\ \A u \in UserIds \ {Alice} : avatars[u] = NoPicture => avatars'[u] = NoPicture
  <2>1. request[r].user = Alice /\ request[r].op = "avatar"
    BY <1>2 DEF CleanUpAvatar, At, Base, StageInv
  <2>2. request'[r].user = Alice /\ request'[r].op = "avatar" /\ request'[r].answer = "error"
    BY <1>0, <1>2, <2>1, AvatarEffect DEF Plain, Moves
  <2>3. Failed'
    BY <2>2 DEF Failed
  <2>4. \A u \in UserIds \ {Alice} : avatars[u] = NoPicture => avatars'[u] = NoPicture
    BY <1>0, <1>2 DEF CleanUpAvatar
  <2> QED BY <2>3, <2>4
<1> QED BY <1>1, <1>2, Untouched, <1>0

LEMMA AvatarStep ==
    ASSUME Base, [Next]_vars, OthersBare, FoundInv, ServedInv, StaysInv
    PROVE  (OthersBare /\ FoundInv /\ ServedInv /\ StaysInv)'
<1>0. TypeOK /\ Alice \in UserIds /\ users[Alice] # NoRow /\ users'[Alice] # NoRow
  BY TypeStep DEF Base, TypeOK, UserIds
<1>1. OthersBare'
  <2> SUFFICES ASSUME NEW u \in UserIds \ {Alice}
               PROVE  /\ avatars'[u] = NoPicture
                      /\ users'[u] # NoRow => users'[u].pic = NoPicture
    BY DEF OthersBare
  <2> QED BY PicStep, DocumentStep DEF OthersBare
<1>2. ASSUME NEW r \in Requests, request[r].op = "avatar", request[r].stage = "url"
      PROVE  request[r].token \in Requests /\ request[r].token # NoPicture
  BY <1>2, NamesAssumption DEF Base, StageInv
<1>3. FoundInv'
  <2> SUFFICES ASSUME NEW r \in Requests, request'[r].op = "avatar", request'[r].stage = "url"
               PROVE  avatars'[Alice] = request'[r].token \/ Failed'
    BY DEF FoundInv, At
  <2>1. CASE request'[r] = request[r]
    BY <1>2, <2>1, DocumentStep, FailedStays DEF FoundInv, At
  <2>2. CASE Arrived(r) \/ Crashed(r)
    BY <2>2 DEF Arrived, Fresh, Crashed
  <2>3. CASE Handled(r)
    <3>1. request[r].op = "avatar"
      BY <2>3 DEF Handled, Moves
    <3>2. request[r].user = Alice
      BY <3>1 DEF Base, StageInv
    <3>3. CASE FindAvatar(r)
      <4>1. request'[r].token = avatars[Alice]
        BY <1>0, <3>2, <3>3, FindAvatarEffect
      <4>2. avatars' = avatars
        BY <3>3 DEF FindAvatar
      <4> QED BY <4>1, <4>2
    <3>4. CASE UpsertAvatar(r) \/ WriteAvatarURL(r) \/ CleanUpAvatar(r)
      BY <1>0, <3>4, AvatarEffect
    <3> QED BY <2>3, <3>1, <3>3, <3>4, HandlerOf DEF Handled
  <2> QED BY <2>1, <2>2, <2>3, Frame
<1>4. ServedInv'
  <2> SUFFICES ASSUME users'[Alice].pic # NoPicture
               PROVE  avatars'[Alice] = users'[Alice].pic \/ Failed'
    BY DEF ServedInv
  <2>1. CASE users'[Alice].pic = users[Alice].pic
    BY <2>1, DocumentStep, FailedStays DEF ServedInv
  <2>2. ASSUME NEW r \in Requests, WriteAvatarURL(r), users'[Alice].pic = request[r].token
        PROVE  avatars'[Alice] = users'[Alice].pic \/ Failed'
    <3>1. avatars' = avatars /\ At(r, "avatar", "url")
      BY <2>2 DEF WriteAvatarURL
    <3> QED BY <2>2, <3>1, FailedStays DEF FoundInv
  <2> QED BY <1>0, <2>1, <2>2, PicStep
<1>5. StaysInv'
  <2> SUFFICES ASSUME NEW r \in Requests, Answered(r, "avatar")' PROVE users'[Alice].pic # NoPicture
    BY DEF StaysInv
  <2>1. users[Alice].pic # NoPicture => users'[Alice].pic # NoPicture
    BY <1>0, PicStep, NamesAssumption
  <2>2. CASE Answered(r, "avatar")
    BY <2>1, <2>2 DEF StaysInv
  <2>3. CASE Handled(r)
    <3>1. request[r].op = "avatar" /\ request'[r].stage = "ended" /\ request'[r].answer = "ok"
      BY <2>3 DEF Handled, Moves, Answered
    <3>2. request[r].user = Alice
      BY <3>1 DEF Base, StageInv
    <3>3. ~UpsertAvatar(r) /\ ~CleanUpAvatar(r)
      BY <1>0, <3>1, AvatarEffect
    <3>4. ~FindAvatar(r)
      BY <1>0, <3>1, <3>2, FindAvatarEffect
    <3>5. WriteAvatarURL(r)
      BY <2>3, <3>1, <3>3, <3>4, HandlerOf DEF Handled
    <3>6. users' = UpdateUserProfilePicURL(users, Alice, request[r].token)
      <4>1. ~Goto(r, "cleanup")
        BY <1>0, <3>1, Going DEF Stages
      <4> QED BY <3>2, <3>5, <4>1 DEF WriteAvatarURL, Result
    <3>7. request[r].token # NoPicture
      BY <1>2, <3>5 DEF WriteAvatarURL, At
    <3>8. users[Alice] \in UserRow /\ DOMAIN users = UserIds
      BY <1>0 DEF TypeOK
    <3>9. users'[Alice] = [users[Alice] EXCEPT !.pic = request[r].token]
      BY <1>0, <3>6, <3>8 DEF UpdateUserProfilePicURL
    <3> QED BY <3>7, <3>8, <3>9 DEF UserRow
  <2> QED BY <2>2, <2>3, AnswerStep
<1> QED BY <1>1, <1>3, <1>4, <1>5

\* Uploads that were answered leave a picture, and it is served unless one failed.
THEOREM AvatarIsKept == Spec => []AvatarKept
<1> DEFINE IInv == Base /\ OthersBare /\ FoundInv /\ ServedInv /\ StaysInv
<1>1. Init => IInv
  <2> SUFFICES ASSUME Init PROVE IInv
    OBVIOUS
  <2>1. \A r \in Requests : request[r].op = "none"
    BY DEF Init, Idle
  <2>2. users[Alice].pic = NoPicture
    BY DEF Init, NewUser, UserIds
  <2>3. OthersBare
    BY DEF Init, OthersBare
  <2> QED BY <2>1, <2>2, <2>3, BaseInit DEF FoundInv, ServedInv, StaysInv, At, Answered
<1>2. IInv /\ [Next]_vars => IInv'
  BY BaseStep, AvatarStep
<1>3. IInv => AvatarKept
  <2> SUFFICES ASSUME IInv PROVE AvatarKept
    OBVIOUS
  <2>1. AvatarServed
    BY DEF OthersBare, ServedInv, Failed, AvatarServed
  <2>2. AvatarStays
    <3>1. \A r \in Requests : request[r].op = "avatar" => request[r].user = Alice
      BY DEF Base, StageInv
    <3> QED BY <3>1 DEF StaysInv, AvatarStays, Answered
  <2> QED BY <2>1, <2>2 DEF AvatarKept
<1> HIDE DEF IInv
<1> QED BY <1>1, <1>2, <1>3, PTL DEF Spec

-----------------------------------------------------------------------------
(* Changes are lost only by overlap.                                       *)

Fields == {"password", "verified", "first", "username"}

LEMMA ChangesAreFields == ASSUME TypeOK, NEW r \in Requests PROVE Changes(r) \subseteq Fields
<1>1. request[r].named \subseteq {"first", "username"}
  BY DEF TypeOK, Request
<1> QED BY <1>1 DEF Changes, Fields

LEMMA PicIsNoField ==
    ASSUME NEW row \in UserRow, NEW pic, NEW field \in Fields
    PROVE  [row EXCEPT !.pic = pic][field] = row[field]
BY DEF UserRow, Fields

\* A handler writes what its request changes, and its copy of the rest.
LEMMA NewRowFields ==
    ASSUME Base, NEW r \in Requests, request[r].stage = "write", NEW field \in Fields
    PROVE  NewRow(r)[field] = IF field \in Changes(r) THEN Changed(r, field)
                                                      ELSE request[r].copy[field]
<1>1. request[r].copy \in UserRow /\ request[r].op \in {"confirm", "verify", "profile"}
  BY NewRowType
<1>2. CASE request[r].op = "profile"
  <2>1. NewRow(r) = applyProfileUpdates(request[r].copy, r) /\ Changes(r) = request[r].named
    BY <1>2 DEF NewRow, Changes
  <2>2. request[r].named \subseteq {"first", "username"}
    BY DEF Base, TypeOK, Request
  <2>3. CASE field \in {"password", "verified"}
    BY <1>1, <2>1, <2>2, <2>3 DEF applyProfileUpdates, UserRow
  <2>4. CASE field = "first"
    BY <1>1, <2>1, <2>4 DEF applyProfileUpdates, UserRow, Changed
  <2>5. CASE field = "username"
    BY <1>1, <2>1, <2>5 DEF applyProfileUpdates, UserRow, Changed
  <2> QED BY <2>3, <2>4, <2>5 DEF Fields
<1>3. CASE request[r].op = "confirm"
  <2>1. NewRow(r) = [request[r].copy EXCEPT !.password = request[r].password]
        /\ Changes(r) = {"password"}
    BY <1>3 DEF NewRow, WithChange, Changes
  <2> QED BY <1>1, <2>1 DEF UserRow, Fields, Changed
<1>4. CASE request[r].op = "verify"
  <2>1. NewRow(r) = [request[r].copy EXCEPT !.verified = TRUE] /\ Changes(r) = {"verified"}
    BY <1>4 DEF NewRow, WithChange, Changes
  <2> QED BY <1>1, <2>1 DEF UserRow, Fields, Changed
<1> QED BY <1>1, <1>2, <1>3, <1>4

\* A request has a row only by its own registration; who is about to write, or
\* wrote, has read a row.
OwnRowInv == \A r \in Requests :
  users[r] # NoRow => request[r].op = "register" /\ request[r].stage \in {"token", "session", "ended"}
ReadRowInv == \A r \in Requests :
  request[r].stage = "write" \/ request[r].wrote => users[request[r].user] # NoRow

LEMMA OwnRowStep ==
    ASSUME Base, [Next]_vars, OwnRowInv
    PROVE  OwnRowInv'
<1> SUFFICES ASSUME NEW r \in Requests, users'[r] # NoRow
             PROVE  request'[r].op = "register" /\ request'[r].stage \in {"token", "session", "ended"}
  BY DEF OwnRowInv
<1>0. TypeOK /\ r \in UserIds
  BY DEF Base, UserIds
<1>1. CASE users[r] # NoRow
  <2>1. request[r].op = "register" /\ request[r].stage \in {"token", "session", "ended"}
    BY <1>1 DEF OwnRowInv
  <2>2. ASSUME Handled(r) PROVE request'[r].stage \in {"session", "ended"} /\ request'[r].op = "register"
    <3>1. RegisterToken(r) \/ SaveSession(r)
      BY <2>1, <2>2, HandlerOf DEF Handled, RegisterLookup, RegisterUser, At
    <3> QED BY <1>0, <2>1, <3>1, RegisterTokenEffect, SaveSessionEffect DEF Moves
  <2> QED BY <2>1, <2>2, Frame DEF Arrived, Crashed
<1>2. CASE users[r] = NoRow
  <2>1. RegisterUser(r)
    BY <1>0, <1>2, RowStep
  <2> QED BY <1>0, <2>1, RegisterUserEffect DEF At, Moves
<1> QED BY <1>1, <1>2

\* Once a handler wrote, what its request is stays.
LEMMA WroteStays ==
    ASSUME Base, [Next]_vars, NEW r \in Requests, request[r].wrote
    PROVE  /\ request'[r].wrote /\ request'[r].user = request[r].user
           /\ request'[r].saw = request[r].saw /\ request[r].user \in UserIds
           /\ Changes(r)' = Changes(r)
           /\ \A field \in Fields : Changed(r, field)' = Changed(r, field)
           /\ ~WriteForToken(r) /\ ~WriteProfile(r)
<1>0. TypeOK /\ request[r].stage \in {"delete", "ended"} /\ request[r].user \in UserIds
      /\ request[r].op \in {"confirm", "verify", "profile"}
  BY DEF Base, StageInv
<1>1. /\ request'[r].wrote = request[r].wrote /\ request'[r].user = request[r].user
      /\ request'[r].saw = request[r].saw /\ request'[r].op = request[r].op
      /\ request'[r].password = request[r].password
      /\ request'[r].username = request[r].username /\ request'[r].named = request[r].named
  <2>1. CASE request'[r] = request[r]
    BY <2>1
  <2>2. CASE Crashed(r)
    BY <2>2 DEF Crashed, Plain
  <2>3. CASE Handled(r)
    <3>1. DeleteToken(r)
      BY <1>0, <2>3, HandlerOf DEF Handled, GetToken, ReadForToken, WriteForToken, ReadForProfile,
         CheckUsername, WriteProfile, At
    <3> QED BY <1>0, <3>1, DeleteTokenEffect DEF Plain, Moves
  <2> QED BY <1>0, <2>1, <2>2, <2>3, Frame DEF Arrived
<1>2. Changes(r)' = Changes(r)
  BY <1>1 DEF Changes
<1>3. \A field \in Fields : Changed(r, field)' = Changed(r, field)
  BY <1>1 DEF Changed, Fields
<1>4. ~WriteForToken(r) /\ ~WriteProfile(r)
  BY <1>0 DEF WriteForToken, WriteProfile, At
<1> QED BY <1>0, <1>1, <1>2, <1>3, <1>4

\* Who comes to write has read a row.
LEMMA ReadRowStep ==
    ASSUME Base, [Next]_vars, ReadRowInv
    PROVE  ReadRowInv'
<1> SUFFICES ASSUME NEW r \in Requests, request'[r].stage = "write" \/ request'[r].wrote
             PROVE  users'[request'[r].user] # NoRow
  BY DEF ReadRowInv
<1>0. TypeOK /\ request[r] \in Request /\ Alice \in UserIds /\ users'[Alice] # NoRow
  BY TypeStep DEF Base, TypeOK, UserIds
<1>1. ASSUME request[r].stage = "write" \/ request[r].wrote, request'[r].user = request[r].user
      PROVE  users'[request'[r].user] # NoRow
  <2>1. request[r].user \in UserIds
    BY <1>1, NewRowType DEF Base, StageInv
  <2> QED BY <1>1, <2>1, UsersType DEF ReadRowInv
<1>2. CASE request'[r] = request[r]
  BY <1>1, <1>2
<1>3. CASE Arrived(r)
  BY <1>3 DEF Arrived, Fresh
<1>4. CASE Crashed(r)
  BY <1>1, <1>4 DEF Crashed, Plain
<1>5. CASE Handled(r)
  <2>1. request'[r].op \in {"confirm", "verify", "profile"} /\ request'[r].op = request[r].op
    <3>1. StageInv'
      BY StageStep
    <3>2. request'[r] \in Request
      BY <1>5 DEF Handled, Moves
    <3> QED BY <1>5, <3>1, <3>2 DEF StageInv, Handled, Moves, Request, Ops
  <2>2. CASE request[r].op = "profile"
    <3>1. request'[r].user = Alice
      BY <2>1, <2>2, StageStep DEF StageInv
    <3> QED BY <1>0, <3>1
  <2>3. CASE ReadForToken(r)
    <3>1. request[r].user \in UserIds /\ request[r].stage = "token" /\ ~request[r].wrote
      BY <2>3 DEF Base, StageInv, ReadForToken, At
    <3>2. request'[r].user = request[r].user /\ users[request[r].user] \in UserRow
      BY <1>0, <2>3, <3>1, ReadForTokenEffect
    <3> QED BY <3>1, <3>2, UsersType, RowAssumption
  <2>4. CASE WriteForToken(r)
    BY <1>0, <1>1, <2>4, WriteForTokenEffect
  <2>5. CASE DeleteToken(r)
    BY <1>0, <1>1, <2>5, DeleteTokenEffect DEF Plain
  <2>6. ~GetToken(r)
    <3>1. ASSUME GetToken(r) PROVE FALSE
      <4>1. ~request[r].wrote
        BY <3>1 DEF Base, StageInv, GetToken, At
      <4> QED BY <1>0, <3>1, <4>1, GetTokenEffect
    <3> QED BY <3>1
  <2> QED BY <1>5, <2>1, <2>2, <2>3, <2>4, <2>5, <2>6, HandlerOf DEF Handled
<1> QED BY <1>2, <1>3, <1>4, <1>5, Frame

\* A request that overlaps r, or changes the same, has written the same user.
Overwritten(r, field) ==
  \E w \in Requests \ {r} : /\ request[w].user = request[r].user /\ request[w].wrote
                            /\ field \in Changes(w) \/ r \notin request[w].saw

\* What a handler wrote is in the row and in every copy read after its end.
WroteInv == \A r \in Requests : \A field \in Changes(r) :
  request[r].wrote =>
    users[request[r].user][field] = Changed(r, field) \/ Overwritten(r, field)
CopyInv == \A w \in Requests : \A r \in request[w].saw : \A field \in Changes(r) :
  request[w].stage \in {"check", "write"} /\ request[r].wrote /\ request[r].user = request[w].user
    => request[w].copy[field] = Changed(r, field) \/ Overwritten(r, field)

LEMMA OverwrittenStays ==
    ASSUME Base, [Next]_vars, NEW r \in Requests, request[r].wrote,
           NEW field, Overwritten(r, field)
    PROVE  Overwritten(r, field)'
<1>1. PICK w \in Requests \ {r} : /\ request[w].user = request[r].user /\ request[w].wrote
                                  /\ field \in Changes(w) \/ r \notin request[w].saw
  BY DEF Overwritten
<1>2. /\ request'[w].user = request'[r].user /\ request'[w].wrote
      /\ request'[w].saw = request[w].saw /\ Changes(w)' = Changes(w)
  BY <1>1, WroteStays
<1>3. field \in Changes(w)' \/ r \notin request'[w].saw
  BY <1>1, <1>2
<1> QED BY <1>2, <1>3 DEF Overwritten

\* The write of a handler is what it makes of its copy.
LEMMA Written ==
    ASSUME Base, [Next]_vars, ReadRowInv, NEW r \in Requests, request'[r].wrote, ~request[r].wrote
    PROVE  /\ request[r].stage = "write" /\ request'[r].user = request[r].user
           /\ request[r].user \in UserIds
           /\ users'[request[r].user] = [NewRow(r) EXCEPT !.pic = users[request[r].user].pic]
           /\ Changes(r)' = Changes(r)
           /\ \A field \in Fields : Changed(r, field)' = Changed(r, field)
<1>0. TypeOK /\ request[r] \in Request /\ users \in [UserIds -> UserRow \cup {NoRow}]
      /\ request \in [Requests -> Request]
  BY DEF Base, TypeOK
<1>1. Handled(r)
  BY Frame DEF Arrived, Fresh, Crashed, Plain
<1>2. WriteForToken(r) \/ WriteProfile(r)
  BY <1>1, HandleEffect DEF Handled
<1>3. request[r].stage = "write" /\ request'[r].user = request[r].user
  BY <1>0, <1>2, WriteForTokenEffect, WriteProfileEffect DEF At
<1>4. request[r].user \in UserIds /\ users[request[r].user] # NoRow
  BY <1>3, NewRowType DEF ReadRowInv
<1>5. ASSUME NEW answer \in Answers PROVE ~End(r, answer)
  BY <1>0, <1>5, Ending DEF Plain
<1>6. users' = UpdateUser(users, request[r].user, NewRow(r))
  <2>1. CASE WriteForToken(r)
    <3>1. NewRow(r) = WithChange(request[r].copy, r)
      BY <2>1 DEF WriteForToken, NewRow, At
    <3>2. PICK outcome \in Outcomes :
            /\ users' = Result(outcome, users, UpdateUser(users, request[r].user, NewRow(r)))
            /\ request' = [request EXCEPT
                 ![r].stage = IF outcome = "done" THEN "delete" ELSE "ended",
                 ![r].answer = IF outcome = "done" THEN @ ELSE "error",
                 ![r].wrote = outcome # "refused"]
      BY <1>5, <2>1, <3>1 DEF WriteForToken, Answers
    <3>3. request'[r].wrote = (outcome # "refused")
      <4> DEFINE stage == IF outcome = "done" THEN "delete" ELSE "ended"
      <4> DEFINE answer == IF outcome = "done" THEN request[r].answer ELSE "error"
      <4> DEFINE wrote == (outcome # "refused")
      <4>1. request' = [request EXCEPT ![r].stage = stage, ![r].answer = answer, ![r].wrote = wrote]
        BY <3>2
      <4> HIDE DEF stage, answer, wrote
      <4>2. request'[r].wrote = wrote
        BY <1>0, <4>1 DEF Request
      <4> QED BY <4>2 DEF wrote
    <3> QED BY <3>2, <3>3 DEF Result
  <2>2. CASE WriteProfile(r)
    <3>1. NewRow(r) = applyProfileUpdates(request[r].copy, r)
      BY <2>2 DEF WriteProfile, NewRow, At
    <3>2. PICK outcome \in Outcomes :
            /\ users' = Result(outcome, users, UpdateUser(users, request[r].user, NewRow(r)))
            /\ request' = [request EXCEPT ![r].stage = "ended", ![r].wrote = outcome # "refused",
                                          ![r].answer = IF outcome = "done" THEN "ok" ELSE "error"]
      BY <1>5, <2>2, <3>1 DEF WriteProfile, Answers
    <3>3. request'[r].wrote = (outcome # "refused")
      <4> DEFINE answer == IF outcome = "done" THEN "ok" ELSE "error"
      <4> DEFINE wrote == (outcome # "refused")
      <4>1. request' = [request EXCEPT ![r].stage = "ended", ![r].wrote = wrote, ![r].answer = answer]
        BY <3>2
      <4> HIDE DEF answer, wrote
      <4>2. request'[r].wrote = wrote
        BY <1>0, <4>1 DEF Request
      <4> QED BY <4>2 DEF wrote
    <3> QED BY <3>2, <3>3 DEF Result
  <2> QED BY <1>2, <2>1, <2>2
<1>7. users'[request[r].user] = [NewRow(r) EXCEPT !.pic = users[request[r].user].pic]
  BY <1>0, <1>4, <1>6 DEF UpdateUser
<1>8. Moves(r)
  BY <1>1 DEF Handled
<1>9. Changes(r)' = Changes(r)
  BY <1>8 DEF Moves, Changes
<1>10. \A field \in Fields : Changed(r, field)' = Changed(r, field)
  BY <1>8 DEF Moves, Changed, Fields
<1> QED BY <1>3, <1>4, <1>7, <1>9, <1>10

\* A write that loses a change overlaps the request of that change, or makes the
\* same change.
LEMMA WroteStep ==
    ASSUME Base, [Next]_vars, SeenInv, OwnRowInv, ReadRowInv, WroteInv, CopyInv
    PROVE  WroteInv'
<1> SUFFICES ASSUME NEW r \in Requests, NEW field \in Changes(r)', request'[r].wrote
             PROVE  users'[request'[r].user][field] = Changed(r, field)' \/ Overwritten(r, field)'
  BY DEF WroteInv
<1>0. TypeOK /\ TypeOK'
  BY TypeStep DEF Base
<1>1. field \in Fields
  <2>1. request'[r] \in Request
    BY <1>0 DEF TypeOK
  <2>2. request'[r].named \subseteq {"first", "username"}
    BY <2>1 DEF Request
  <2> QED BY <2>2 DEF Changes, Fields
<1>2. CASE ~request[r].wrote
  <2> DEFINE u == request[r].user
  <2>1. /\ request[r].stage = "write" /\ request'[r].user = u
        /\ users'[u] = [NewRow(r) EXCEPT !.pic = users[u].pic]
        /\ field \in Changes(r) /\ Changed(r, field)' = Changed(r, field)
    BY <1>1, <1>2, Written
  <2>2. NewRow(r) \in UserRow
    BY <2>1, NewRowType
  <2>3. users'[u][field] = NewRow(r)[field]
    BY <1>1, <2>1, <2>2, PicIsNoField
  <2>4. NewRow(r)[field] = Changed(r, field)
    BY <1>1, <2>1, NewRowFields
  <2> QED BY <2>1, <2>3, <2>4
<1>3. CASE request[r].wrote
  <2> DEFINE u == request[r].user
  <2>1. /\ request'[r].user = u /\ u \in UserIds /\ field \in Changes(r)
        /\ Changed(r, field)' = Changed(r, field) /\ request'[r].wrote
        /\ ~WriteForToken(r) /\ ~WriteProfile(r)
    BY <1>1, <1>3, WroteStays
  <2>2. users[u] # NoRow /\ users[u] \in UserRow
    BY <1>0, <1>3, <2>1 DEF ReadRowInv, TypeOK
  <2>3. users[u][field] = Changed(r, field) \/ Overwritten(r, field)
    BY <1>3, <2>1 DEF WroteInv
  <2>4. CASE Overwritten(r, field)
    BY <1>3, <2>4, OverwrittenStays
  <2>5. CASE users[u][field] = Changed(r, field) /\ users'[u] = users[u]
    BY <2>1, <2>5
  <2>6. ASSUME users[u][field] = Changed(r, field), NEW w \in Requests,
               WriteForToken(w) \/ WriteProfile(w), Rewritten(w), u = request[w].user,
               users'[u] = [NewRow(w) EXCEPT !.pic = users[u].pic]
        PROVE  users'[u][field] = Changed(r, field) \/ Overwritten(r, field)'
    <3>1. w # r /\ w \in Requests \ {r}
      BY <2>1, <2>6
    <3>2. NewRow(w) \in UserRow /\ request[w].stage = "write"
      BY <2>6, NewRowType DEF Rewritten
    <3>3. request'[w].wrote /\ request'[w].user = request'[r].user /\ request'[w].saw = request[w].saw
      BY <2>1, <2>6 DEF Rewritten
    <3>4. Changes(w)' = Changes(w)
      BY <2>6 DEF Rewritten, Moves, Changes
    <3>5. CASE field \in Changes(w) \/ r \notin request[w].saw
      BY <3>1, <3>3, <3>4, <3>5 DEF Overwritten
    <3>6. CASE field \notin Changes(w) /\ r \in request[w].saw
      <4>1. request[w].copy[field] = Changed(r, field) \/ Overwritten(r, field)
        BY <1>3, <2>1, <2>6, <3>2, <3>6 DEF CopyInv
      <4>2. NewRow(w)[field] = request[w].copy[field]
        BY <1>1, <3>2, <3>6, NewRowFields
      <4>3. users'[u][field] = NewRow(w)[field]
        BY <1>1, <2>6, <3>2, PicIsNoField
      <4> QED BY <1>3, <4>1, <4>2, <4>3, OverwrittenStays
    <3> QED BY <3>5, <3>6
  <2>7. ASSUME users[u][field] = Changed(r, field), NEW w \in Requests,
               users'[u] = [users[u] EXCEPT !.pic = request[w].token]
        PROVE  users'[u][field] = Changed(r, field)
    BY <1>1, <2>2, <2>7, PicIsNoField
  <2>8. ASSUME u \in Requests PROVE ~At(u, "register", "create")
    BY <2>2, <2>8 DEF OwnRowInv, At
  <2> QED BY <2>1, <2>3, <2>4, <2>5, <2>6, <2>7, <2>8, RowStep
<1> QED BY <1>2, <1>3

\* A copy is read in or after the step in which its request last looked at the
\* requests that had ended.
LEMMA CopyStep ==
    ASSUME Base, [Next]_vars, SeenInv, WroteInv, CopyInv
    PROVE  CopyInv'
<1> SUFFICES ASSUME NEW w \in Requests, NEW r \in request'[w].saw, NEW field \in Changes(r)',
                    request'[w].stage \in {"check", "write"}, request'[r].wrote,
                    request'[r].user = request'[w].user
             PROVE  request'[w].copy[field] = Changed(r, field)' \/ Overwritten(r, field)'
  BY DEF CopyInv
<1>0. TypeOK /\ request[w] \in Request /\ request[w].saw \subseteq Requests /\ Alice \in UserIds
  BY DEF Base, TypeOK, Request, UserIds
<1>1. r \in Ended /\ r \in Requests /\ request'[r] = request[r]
  <2>1. r \in Ended
    BY SawStep DEF SeenInv
  <2> QED BY <2>1, EndedStays DEF Ended
<1>2. /\ request[r].wrote /\ field \in Changes(r) /\ Changed(r, field)' = Changed(r, field)
      /\ request[r].user \in UserIds
  <2>1. request[r].wrote
    BY <1>1
  <2>2. field \in Changes(r)
    BY <1>1, <2>1, WroteStays
  <2>3. field \in Fields
    BY <1>0, <1>1, <2>2, ChangesAreFields
  <2> QED BY <1>1, <2>1, <2>2, <2>3, WroteStays
<1>3. ASSUME Overwritten(r, field) PROVE Overwritten(r, field)'
  BY <1>1, <1>2, <1>3, OverwrittenStays
<1>4. ASSUME request[w].stage \in {"check", "write"}, request'[w].copy = request[w].copy,
             request'[w].saw = request[w].saw, request'[w].user = request[w].user
      PROVE  request'[w].copy[field] = Changed(r, field)' \/ Overwritten(r, field)'
  <2>1. request[w].copy[field] = Changed(r, field) \/ Overwritten(r, field)
    BY <1>1, <1>2, <1>4 DEF CopyInv
  <2> QED BY <1>2, <1>3, <1>4, <2>1
<1>5. ASSUME request'[w].copy = users[request[w].user], request'[w].user = request[w].user
      PROVE  request'[w].copy[field] = Changed(r, field)' \/ Overwritten(r, field)'
  <2>1. users[request[w].user][field] = Changed(r, field) \/ Overwritten(r, field)
    BY <1>1, <1>2, <1>5 DEF WroteInv
  <2> QED BY <1>2, <1>3, <1>5, <2>1
<1>6. CASE request'[w] = request[w]
  BY <1>4, <1>6
<1>7. CASE Arrived(w) \/ Crashed(w)
  BY <1>7 DEF Arrived, Fresh, Crashed
<1>8. CASE Handled(w)
  <2>1. request'[w] \in Request /\ request'[w].op = request[w].op
    BY <1>8 DEF Handled, Moves
  <2>2. request[w].op \in {"confirm", "verify", "profile"}
    BY <2>1, StageStep DEF StageInv, Request, Ops
  <2>3. CASE ReadForToken(w)
    <3>1. request[w].user \in UserIds
      BY <2>3 DEF Base, StageInv, ReadForToken, At
    <3> QED BY <1>0, <1>5, <2>3, <3>1, ReadForTokenEffect
  <2>4. CASE ReadForProfile(w)
    <3>1. request[w].user \in UserIds
      BY <1>0, <2>4 DEF Base, StageInv, ReadForProfile, At
    <3> QED BY <1>0, <1>5, <2>4, <3>1, ReadForProfileEffect
  <2>5. CASE CheckUsername(w)
    BY <1>0, <1>4, <2>5, CheckEffect DEF Plain, At
  <2>6. ~GetToken(w) /\ ~WriteForToken(w) /\ ~DeleteToken(w) /\ ~WriteProfile(w)
    BY <1>0, GetTokenEffect, WriteForTokenEffect, DeleteTokenEffect, WriteProfileEffect
  <2> QED BY <1>8, <2>2, <2>3, <2>4, <2>5, <2>6, HandlerOf DEF Handled
<1> QED BY <1>6, <1>7, <1>8, Frame

\* An answered change is lost only to a request that makes the same change, or
\* that had begun before the answer and writes back the row it had read.
THEOREM ChangesAreLostOnlyByOverlap == Spec => []ChangesLostOnlyByOverlap
<1> DEFINE IInv == Base /\ SeenInv /\ OwnRowInv /\ ReadRowInv /\ WroteInv /\ CopyInv
<1>1. Init => IInv
  <2> SUFFICES ASSUME Init PROVE IInv
    OBVIOUS
  <2>1. \A r \in Requests : /\ request[r].op = "none" /\ request[r].stage = "idle"
                            /\ request[r].saw = {} /\ ~request[r].wrote
    BY DEF Init, Idle
  <2>2. \A r \in Requests : users[r] = NoRow
    BY NamesAssumption DEF Init, UserIds
  <2> QED BY <2>1, <2>2, BaseInit DEF SeenInv, OwnRowInv, ReadRowInv, WroteInv, CopyInv
<1>2. IInv /\ [Next]_vars => IInv'
  BY BaseStep, SeenStep, OwnRowStep, ReadRowStep, WroteStep, CopyStep
<1>3. IInv => ChangesLostOnlyByOverlap
  BY DEF WroteInv, Overwritten, ChangesLostOnlyByOverlap
<1> HIDE DEF IInv
<1> QED BY <1>1, <1>2, <1>3, PTL DEF Spec

=============================================================================
