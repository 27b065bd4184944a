------------------------------- MODULE Accounts -------------------------------
(***************************************************************************)
(* Accounts (internal/auth): registration, sessions, the reset of a        *)
(* password, the verification of an e-mail address and the profile; and    *)
(* the avatar of a user (internal/asset), which shares the table users.    *)
(* Users and sessions are in PostgreSQL, tokens and the counter of reset   *)
(* requests in Redis, avatars in MongoDB.  Reset, verification and profile *)
(* each read a user, change fields and write the whole row back.           *)
(*                                                                         *)
(* A token, a user id, an avatar or a JWT is named by the request that     *)
(* made it, the value of a profile field by the request that supplied it.  *)
(***************************************************************************)
EXTENDS UserStore, RateLimiter

CONSTANTS
  Requests,
  Alice,            \* the user with an account at the start
  AliceEmail, AliceName,
  Emails, Names,    \* addresses and usernames
  Passwords, OldPassword,
  OldReset,         \* a reset token and a verification token Alice has been
  OldVerify,        \* mailed before, and has not used
  Nobody,           \* the author of what is there at the start
  MaxResets,        \* maxPasswordResetRequests, 5 in the code
  MaxFaults         \* failed calls of a database and crashes

ASSUME NamesAssumption ==
  /\ AliceEmail \in Emails /\ AliceName \in Names /\ OldPassword \in Passwords
  /\ {Alice, Nobody, OldReset, OldVerify, NoPicture} \cap Requests = {}
  /\ MaxResets \in Nat \ {0} /\ MaxFaults \in Nat

VARIABLES
  users,            \* the table users
  sessions,         \* the table sessions
  avatars,          \* per user, the id of the avatar in MongoDB, or NoPicture
  resets,           \* Redis: the live reset tokens, each with its user
  verifications,    \* Redis: the live verification tokens, each with its user
  counter,          \* Redis: the reset requests for AliceEmail in this window
  admitted,         \* those of them that got past the limit
  request,          \* per request, where its handler is and what it has read
  faults

vars == <<users, sessions, avatars, resets, verifications, counter, admitted, request, faults>>

UserIds == Requests \cup {Alice}
Author  == Requests \cup {Nobody}
Tokens  == Requests \cup {OldReset, OldVerify}
UserRow == [email : Emails, password : Passwords, first : Author, username : Names,
            verified : BOOLEAN, pic : Requests \cup {NoPicture}]

ASSUME RowAssumption == NoRow \notin UserRow

Ops == {"register", "login", "logout", "reset", "confirm", "verify", "profile", "avatar"}

Idle == [op |-> "none", stage |-> "idle", user |-> Nobody, email |-> AliceEmail,
         password |-> OldPassword, username |-> AliceName, named |-> {}, token |-> Nobody,
         copy |-> NoRow, answer |-> "none", wrote |-> FALSE, saw |-> {}]

Init ==
  /\ users = [id \in UserIds |->
       IF id = Alice THEN NewUser(AliceEmail, OldPassword, Nobody, AliceName) ELSE NoRow]
  /\ sessions = {}
  /\ avatars = [id \in UserIds |-> NoPicture]
  /\ resets = {[token |-> OldReset, user |-> Alice]}
  /\ verifications = {[token |-> OldVerify, user |-> Alice]}
  /\ counter = NoKey /\ admitted = 0
  /\ request = [r \in Requests |-> Idle]
  /\ faults = 0

-----------------------------------------------------------------------------
(* Requests, their ends, and calls that fail *)

Ended   == {r \in Requests : request[r].stage = "ended"}
Running == {r \in Requests : request[r].stage \notin {"idle", "ended"}}
At(r, op, stage) == request[r].op = op /\ request[r].stage = stage

Goto(r, stage) == request' = [request EXCEPT ![r].stage = stage]
End(r, answer) == request' = [request EXCEPT ![r].stage = "ended", ![r].answer = answer]

\* A call is done; or it fails and has changed nothing; or its reply is lost.
Outcomes == {"done"} \cup IF faults < MaxFaults THEN {"refused", "lost"} ELSE {}
Spend(outcome) == faults' = IF outcome = "done" THEN faults ELSE faults + 1
Result(outcome, before, after) == IF outcome = "refused" THEN before ELSE after

\* A request comes with the fields its operation uses; the others stay as in Idle.
Arrive(r, req) ==
  /\ request[r].stage = "idle"
  /\ request' = [request EXCEPT ![r] = [req EXCEPT !.stage = "begun", !.saw = Ended]]
  /\ UNCHANGED <<users, sessions, avatars, resets, verifications, counter, admitted, faults>>

ArriveRegister(r) == \E email \in Emails : Arrive(r, [Idle EXCEPT !.op = "register", !.email = email])
ArriveLogin(r) == \E password \in Passwords :
  Arrive(r, [Idle EXCEPT !.op = "login", !.password = password])
ArriveLogout(r) == \E s \in sessions : Arrive(r, [Idle EXCEPT !.op = "logout", !.token = s.token])
ArriveReset(r)  == Arrive(r, [Idle EXCEPT !.op = "reset"])
\* A new password passes validatePassword; the tokens are those that were mailed.
ArriveConfirm(r) == \E t \in resets, password \in Passwords :
  Arrive(r, [Idle EXCEPT !.op = "confirm", !.token = t.token, !.password = password])
ArriveVerify(r) == \E t \in verifications :
  Arrive(r, [Idle EXCEPT !.op = "verify", !.token = t.token])
ArriveProfile(r) == \E named \in {{"first"}, {"username"}}, username \in Names :
  /\ named = {"first"} => username = AliceName
  /\ Arrive(r, [Idle EXCEPT !.op = "profile", !.user = Alice, !.named = named,
                            !.username = username])
ArriveAvatar(r) == Arrive(r, [Idle EXCEPT !.op = "avatar", !.user = Alice])

-----------------------------------------------------------------------------
(* register, login, logout *)

\* An error of the lookup counts as no such user.
RegisterLookup(r) ==
  /\ At(r, "register", "begun")
  /\ IF GetUserByEmail(users, request[r].email) # {} THEN End(r, "exists") ELSE Goto(r, "create")
  /\ UNCHANGED <<users, sessions, avatars, resets, verifications, counter, admitted, faults>>

\* The username is random, and may be one that is taken.
RegisterUser(r) ==
  /\ At(r, "register", "create")
  /\ \E name \in Names, outcome \in Outcomes :
       IF DuplicateKey(users, r, request[r].email, name)
       THEN outcome = "done" /\ End(r, "error") /\ UNCHANGED <<users, faults>>
       ELSE /\ users' = Result(outcome, users, CreateUser(users, r,
                          NewUser(request[r].email, OldPassword, Nobody, name)))
            /\ IF outcome = "done"
               THEN request' = [request EXCEPT ![r].stage = "token", ![r].user = r]
               ELSE End(r, "error")
            /\ Spend(outcome)
  /\ UNCHANGED <<sessions, avatars, resets, verifications, counter, admitted>>

\* The verification token; that it could not be stored is logged only.
RegisterToken(r) ==
  /\ At(r, "register", "token")
  /\ \E outcome \in Outcomes :
       /\ verifications' = Result(outcome, verifications,
                                  verifications \cup {[token |-> r, user |-> r]})
       /\ Spend(outcome)
  /\ Goto(r, "session")
  /\ UNCHANGED <<users, sessions, avatars, resets, counter, admitted>>

LoginLookup(r) ==
  /\ At(r, "login", "begun")
  /\ LET found == GetUserByEmail(users, request[r].email) IN
     \/ \E id \in found :
          /\ users[id].password = request[r].password
          /\ request' = [request EXCEPT ![r].stage = "session", ![r].user = id]
     \/ /\ \A id \in found : users[id].password # request[r].password
        /\ End(r, "denied")
  /\ UNCHANGED <<users, sessions, avatars, resets, verifications, counter, admitted, faults>>

\* The JWT holds the user and the second of its issue: a user who logs in twice
\* in a second, or registers and logs in, has the same one twice.
JWTs(r) == {r} \cup {s.token : s \in {t \in sessions : t.user = request[r].user}}

\* The last step of login and register.
SaveSession(r) ==
  /\ At(r, "login", "session") \/ At(r, "register", "session")
  /\ \E jwt \in JWTs(r), outcome \in Outcomes :
       /\ sessions' = Result(outcome, sessions, CreateSession(sessions, r, request[r].user, jwt))
       /\ request' = [request EXCEPT ![r].stage = "ended", ![r].token = jwt,
                                     ![r].answer = IF outcome = "done" THEN "ok" ELSE "error"]
       /\ Spend(outcome)
  /\ UNCHANGED <<users, avatars, resets, verifications, counter, admitted>>

\* One session of the token is found, and deleted.
LogoutLookup(r) ==
  /\ At(r, "logout", "begun")
  /\ \/ \E s \in GetSessionByToken(sessions, request[r].token) :
          request' = [request EXCEPT ![r].stage = "found", ![r].copy = s]
     \/ GetSessionByToken(sessions, request[r].token) = {} /\ End(r, "denied")
  /\ UNCHANGED <<users, sessions, avatars, resets, verifications, counter, admitted, faults>>

Logout(r) ==
  /\ At(r, "logout", "found")
  /\ \E outcome \in Outcomes :
       /\ sessions' = Result(outcome, sessions, DeleteSession(sessions, request[r].copy))
       /\ End(r, IF outcome = "done" THEN "ok" ELSE "error")
       /\ Spend(outcome)
  /\ UNCHANGED <<users, avatars, resets, verifications, counter, admitted>>

-----------------------------------------------------------------------------
(* The request for a reset: it answers the same whatever happens *)

ResetIncr(r) ==
  /\ At(r, "reset", "begun")
  /\ \E outcome \in Outcomes :
       /\ counter' = Result(outcome, counter, Incr(counter))
       /\ Spend(outcome)
       /\ IF outcome = "done"
          THEN /\ Goto(r, IF FirstOfWindow(counter.n + 1) THEN "expire"
                          ELSE IF WithinLimit(counter.n + 1, MaxResets) THEN "lookup"
                          ELSE "ended")
               /\ admitted' = IF WithinLimit(counter.n + 1, MaxResets) THEN admitted + 1 ELSE admitted
          ELSE Goto(r, "ended") /\ UNCHANGED admitted
  /\ UNCHANGED <<users, sessions, avatars, resets, verifications>>

\* The failure of EXPIRE ends the request, and leaves the key without a time to
\* live.  The first request of a window is within the limit.
ResetExpire(r) ==
  /\ At(r, "reset", "expire")
  /\ \E outcome \in Outcomes :
       /\ counter' = Result(outcome, counter, Expire(counter))
       /\ Goto(r, IF outcome = "done" THEN "lookup" ELSE "ended")
       /\ Spend(outcome)
  /\ UNCHANGED <<users, sessions, avatars, resets, verifications, admitted>>

\* createAndStoreResetToken, for the user of the address.
ResetToken(r) ==
  /\ At(r, "reset", "lookup")
  /\ \E id \in GetUserByEmail(users, request[r].email), outcome \in Outcomes :
       /\ resets' = Result(outcome, resets, resets \cup {[token |-> r, user |-> id]})
       /\ Goto(r, IF outcome = "done" THEN "mail" ELSE "ended")
       /\ Spend(outcome)
  /\ UNCHANGED <<users, sessions, avatars, verifications, counter, admitted>>

ResetMail(r) ==
  /\ At(r, "reset", "mail")
  /\ End(r, "ok")
  /\ UNCHANGED <<users, sessions, avatars, resets, verifications, counter, admitted, faults>>

-----------------------------------------------------------------------------
(* passwordResetConfirm and verifyEmail *)

Live(r) == {t \in (IF request[r].op = "confirm" THEN resets ELSE verifications) :
              t.token = request[r].token}

\* GET of the token: nothing there is an invalid or expired token.
GetToken(r) ==
  /\ At(r, "confirm", "begun") \/ At(r, "verify", "begun")
  /\ \/ \E t \in Live(r) : request' = [request EXCEPT ![r].stage = "token", ![r].user = t.user,
                                                   ![r].saw = Ended]
     \/ Live(r) = {} /\ End(r, "invalid")
  /\ UNCHANGED <<users, sessions, avatars, resets, verifications, counter, admitted, faults>>

\* A password that is the old one is refused, an address that is verified only
\* loses its token.
ReadForToken(r) ==
  /\ At(r, "confirm", "token") \/ At(r, "verify", "token")
  /\ LET user == GetUserByID(users, request[r].user) IN
     IF user = NoRow THEN End(r, "not found")
     ELSE IF request[r].op = "confirm" /\ user.password = request[r].password
     THEN End(r, "same password")
     ELSE request' = [request EXCEPT ![r].copy = user,
            ![r].stage = IF request[r].op = "verify" /\ user.verified THEN "delete" ELSE "write"]
  /\ UNCHANGED <<users, sessions, avatars, resets, verifications, counter, admitted, faults>>

\* What passwordResetConfirm and verifyEmail change in the user they have read.
WithChange(user, r) ==
  IF request[r].op = "confirm" THEN [user EXCEPT !.password = request[r].password]
                               ELSE [user EXCEPT !.verified = TRUE]

\* The copy may hold a username that the user has given up and another has taken.
WriteForToken(r) ==
  /\ At(r, "confirm", "write") \/ At(r, "verify", "write")
  /\ LET user == WithChange(request[r].copy, r) IN
     \E outcome \in Outcomes :
       IF DuplicateKey(users, request[r].user, user.email, user.username)
       THEN outcome = "done" /\ End(r, "error") /\ UNCHANGED <<users, faults>>
       ELSE /\ users' = Result(outcome, users, UpdateUser(users, request[r].user, user))
            /\ request' = [request EXCEPT
                 ![r].stage = IF outcome = "done" THEN "delete" ELSE "ended",
                 ![r].answer = IF outcome = "done" THEN @ ELSE "error",
                 ![r].wrote = outcome # "refused"]
            /\ Spend(outcome)
  /\ UNCHANGED <<sessions, avatars, resets, verifications, counter, admitted>>

\* Mutant: the token is kept.
KeepToken(r) ==
  /\ At(r, "confirm", "delete") \/ At(r, "verify", "delete")
  /\ End(r, "ok")
  /\ UNCHANGED <<users, sessions, avatars, resets, verifications, counter, admitted, faults>>

\* "Delete token (single-use) only after successful DB update"; a failure is
\* logged, and the answer is the same.
DeleteToken(r) ==
  /\ At(r, "confirm", "delete") \/ At(r, "verify", "delete")
  /\ \E outcome \in Outcomes :
       /\ resets' = Result(outcome, resets, {t \in resets : t.token # request[r].token})
       /\ verifications' = Result(outcome, verifications,
                                  {t \in verifications : t.token # request[r].token})
       /\ Spend(outcome)
  /\ End(r, "ok")
  /\ UNCHANGED <<users, sessions, avatars, counter, admitted>>

-----------------------------------------------------------------------------
(* updateProfile *)

ReadForProfile(r) ==
  /\ At(r, "profile", "begun")
  /\ request' = [request EXCEPT ![r].copy = GetUserByID(users, request[r].user), ![r].saw = Ended,
                   ![r].stage = IF "username" \in request[r].named THEN "check" ELSE "write"]
  /\ UNCHANGED <<users, sessions, avatars, resets, verifications, counter, admitted, faults>>

\* applyUsernameUpdate: whether another user has the name.
CheckUsername(r) ==
  /\ At(r, "profile", "check")
  /\ IF GetUserByUsername(users, request[r].username) \subseteq {request[r].user}
     THEN Goto(r, "write") ELSE End(r, "taken")
  /\ UNCHANGED <<users, sessions, avatars, resets, verifications, counter, admitted, faults>>

\* Mutant: a field the request does not name is cleared.
ApplyAllProfileFields(user, r) ==
  [user EXCEPT !.first = IF "first" \in request[r].named THEN r ELSE Nobody,
               !.username = IF "username" \in request[r].named THEN request[r].username ELSE @]

applyProfileUpdates(user, r) ==
  [user EXCEPT !.first = IF "first" \in request[r].named THEN r ELSE @,
               !.username = IF "username" \in request[r].named THEN request[r].username ELSE @]

\* The row of a stale copy may collide with a name that was free when it was
\* read; the collision is answered like the failed check.
WriteProfile(r) ==
  /\ At(r, "profile", "write")
  /\ LET user == applyProfileUpdates(request[r].copy, r) IN
     \E outcome \in Outcomes :
       IF DuplicateKey(users, request[r].user, user.email, user.username)
       THEN outcome = "done" /\ End(r, "taken") /\ UNCHANGED <<users, faults>>
       ELSE /\ users' = Result(outcome, users, UpdateUser(users, request[r].user, user))
            /\ request' = [request EXCEPT ![r].stage = "ended", ![r].wrote = outcome # "refused",
                                          ![r].answer = IF outcome = "done" THEN "ok" ELSE "error"]
            /\ Spend(outcome)
  /\ UNCHANGED <<sessions, avatars, resets, verifications, counter, admitted>>

-----------------------------------------------------------------------------
(* uploadProfilePic *)

\* The upsert by user id: the first upload gives the document its id.
UpsertAvatar(r) ==
  /\ At(r, "avatar", "begun")
  /\ \E outcome \in Outcomes :
       /\ avatars' = Result(outcome, avatars,
            [avatars EXCEPT ![request[r].user] = IF @ = NoPicture THEN r ELSE @])
       /\ IF outcome = "done" THEN Goto(r, "find") ELSE End(r, "error")
       /\ Spend(outcome)
  /\ UNCHANGED <<users, sessions, resets, verifications, counter, admitted>>

\* The document is read back for its id, and may have been deleted meanwhile.
FindAvatar(r) ==
  /\ At(r, "avatar", "find")
  /\ LET id == avatars[request[r].user] IN
     IF id = NoPicture THEN End(r, "error")
     ELSE request' = [request EXCEPT ![r].stage = "url", ![r].token = id]
  /\ UNCHANGED <<users, sessions, avatars, resets, verifications, counter, admitted, faults>>

WriteAvatarURL(r) ==
  /\ At(r, "avatar", "url")
  /\ \E outcome \in Outcomes :
       /\ users' = Result(outcome, users,
                          UpdateUserProfilePicURL(users, request[r].user, request[r].token))
       /\ IF outcome = "done" THEN End(r, "ok") ELSE Goto(r, "cleanup")
       /\ Spend(outcome)
  /\ UNCHANGED <<sessions, avatars, resets, verifications, counter, admitted>>

\* The clean-up deletes the document by the id all uploads of the user share;
\* under the deadline that has passed, or by a failure of its own, it does not.
CleanUpAvatar(r) ==
  /\ At(r, "avatar", "cleanup")
  /\ \E done \in BOOLEAN :
       avatars' = IF done THEN [u \in UserIds |->
                                  IF avatars[u] = request[r].token THEN NoPicture ELSE avatars[u]]
                  ELSE avatars
  /\ End(r, "error")
  /\ UNCHANGED <<users, sessions, resets, verifications, counter, admitted, faults>>

-----------------------------------------------------------------------------

\* Redis drops a token or the counter when its time to live is over.
ExpireTokens ==
  /\ \/ \E t \in resets : resets' = resets \ {t} /\ UNCHANGED <<verifications, counter, admitted>>
     \/ \E t \in verifications :
          verifications' = verifications \ {t} /\ UNCHANGED <<resets, counter, admitted>>
     \/ /\ counter.expires
        /\ counter' = NoKey /\ admitted' = 0
        /\ UNCHANGED <<resets, verifications>>
  /\ UNCHANGED <<users, sessions, avatars, request, faults>>

\* The process stops: the requests it was serving get no answer.
Crash ==
  /\ Running # {} /\ faults < MaxFaults
  /\ request' = [r \in Requests |-> IF r \in Running
                   THEN [request[r] EXCEPT !.stage = "ended", !.answer = "none"] ELSE request[r]]
  /\ faults' = faults + 1
  /\ UNCHANGED <<users, sessions, avatars, resets, verifications, counter, admitted>>

Arrivals(r) ==
  \/ ArriveRegister(r) \/ ArriveLogin(r) \/ ArriveLogout(r) \/ ArriveReset(r)
  \/ ArriveConfirm(r) \/ ArriveVerify(r) \/ ArriveProfile(r) \/ ArriveAvatar(r)

Handle(r) ==
  \/ RegisterLookup(r) \/ RegisterUser(r) \/ RegisterToken(r) \/ LoginLookup(r) \/ SaveSession(r)
  \/ LogoutLookup(r) \/ Logout(r)
  \/ ResetIncr(r) \/ ResetExpire(r) \/ ResetToken(r) \/ ResetMail(r)
  \/ GetToken(r) \/ ReadForToken(r) \/ WriteForToken(r) \/ DeleteToken(r)
  \/ ReadForProfile(r) \/ CheckUsername(r) \/ WriteProfile(r)
  \/ UpsertAvatar(r) \/ FindAvatar(r) \/ WriteAvatarURL(r) \/ CleanUpAvatar(r)

Next == Crash \/ ExpireTokens \/ \E r \in Requests : Arrivals(r) \/ Handle(r)

Spec == Init /\ [][Next]_vars

-----------------------------------------------------------------------------
(* Properties *)

SessionRow == [id : Requests, user : UserIds, token : Requests]
TokenRow == [token : Tokens, user : UserIds]
Stages == {"idle", "begun", "create", "token", "session", "found", "expire", "lookup", "mail",
           "write", "delete", "check", "find", "url", "cleanup", "ended"}
Answers == {"none", "ok", "exists", "denied", "invalid", "not found", "same password", "taken",
            "error"}
Request == [op : Ops \cup {"none"}, stage : Stages, user : UserIds \cup {Nobody}, email : Emails,
            password : Passwords, username : Names, named : SUBSET {"first", "username"},
            token : Tokens \cup {Nobody}, copy : UserRow \cup SessionRow \cup {NoRow},
            answer : Answers, wrote : BOOLEAN, saw : SUBSET Requests]

TypeOK ==
  /\ users \in [UserIds -> UserRow \cup {NoRow}]
  /\ sessions \subseteq SessionRow
  /\ avatars \in [UserIds -> Requests \cup {NoPicture}]
  /\ resets \subseteq TokenRow /\ verifications \subseteq TokenRow
  /\ counter \in [n : Nat, expires : BOOLEAN] /\ admitted \in Nat
  /\ request \in [Requests -> Request]
  /\ faults \in 0 .. MaxFaults

Answered(r, op) == request[r].op = op /\ request[r].stage = "ended" /\ request[r].answer = "ok"

\* No two users share an address or a name, although the handlers look before
\* they write and any number of them may look at once; and a registration that
\* was answered has its account.
IdentitiesUnique ==
  /\ \A u, v \in UserIds : u # v /\ users[u] # NoRow /\ users[v] # NoRow =>
       users[u].email # users[v].email /\ users[u].username # users[v].username
  /\ \A r \in Requests : Answered(r, "register") => users[r] # NoRow

\* What a request changes in its user.
Changes(r) == CASE request[r].op = "confirm" -> {"password"}
                [] request[r].op = "verify"  -> {"verified"}
                [] request[r].op = "profile" -> request[r].named
                [] OTHER -> {}
Changed(r, field) == CASE field = "password" -> request[r].password
                       [] field = "verified" -> TRUE
                       [] field = "first"    -> r
                       [] field = "username" -> request[r].username

\* A new password, a verified address and an edit of the profile, once answered,
\* are lost only to a request that changes the same field, or that had begun
\* before they were answered and writes back the row it had read.
ChangesLostOnlyByOverlap ==
  \A r \in Requests : \A field \in Changes(r) :
    request[r].stage = "ended" /\ request[r].answer = "ok" /\ request[r].wrote =>
      \/ users[request[r].user][field] = Changed(r, field)
      \/ \E w \in Requests \ {r} : /\ request[w].user = request[r].user /\ request[w].wrote
                                   /\ field \in Changes(w) \/ r \notin request[w].saw

\* One reset token serves two requests only when they overlap: neither was over
\* when the other looked the token up (or the deletion of the token failed).
TokenReusedOnlyByOverlap ==
  \A r, q \in Requests :
    Answered(r, "confirm") /\ Answered(q, "confirm") /\ request[r].token = request[q].token
      => r \notin request[q].saw \/ faults > 0

\* "Delete token (single-use)": one reset token sets one password.
TokenUsedOnce ==
  \A r, q \in Requests :
    Answered(r, "confirm") /\ Answered(q, "confirm") /\ request[r].token = request[q].token => r = q

\* In one window no more requests for a reset get past the limit than it allows,
\* also when they count at once.
ResetsBounded == admitted <= MaxResets

\* The counter is always about to get a time to live, has one, or belongs to a
\* request that failed: without one it would count on, and at the limit lock the
\* address out of resets for good.
WindowEnds ==
  counter.n > 0 /\ ~counter.expires =>
    \E r \in Requests : request[r].op = "reset" /\ request[r].answer # "ok"
                        /\ (At(r, "reset", "expire") \/ faults > 0)

\* The limit on resets holds in each window, and a window comes to its end.
ResetLimitHolds == ResetsBounded /\ WindowEnds

\* The URL of a user's picture leads to the avatar, however many uploads overlap,
\* unless an upload failed: it removes the document that all uploads share.
AvatarServed ==
  \A u \in UserIds : users[u] # NoRow /\ users[u].pic # NoPicture =>
    \/ avatars[u] = users[u].pic
    \/ \E r \in Requests : /\ request[r].op = "avatar" /\ request[r].user = u
                           /\ request[r].answer = "error"

\* An upload that was answered leaves the user with a picture, although requests
\* that read the user before it write the whole row afterwards.
AvatarStays ==
  \A r \in Requests : Answered(r, "avatar") => users[request[r].user].pic # NoPicture

\* Uploads that were answered leave a picture that is served.
AvatarKept == AvatarServed /\ AvatarStays

\* A session lasts until a logout with its own token: who logs out on one device
\* stays logged in on the others, unless both got the same token.
SessionsStay ==
  \A r \in Requests : Answered(r, "login") \/ Answered(r, "register") =>
    \/ \E s \in sessions : s.id = r
    \/ \E q \in Requests : request[q].op = "logout" /\ request[q].token = request[r].token
=============================================================================
