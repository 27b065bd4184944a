------------------------------ MODULE UserStore ------------------------------
(***************************************************************************)
(* The tables users and sessions of PostgreSQL and the statements on them  *)
(* (internal/shared/database/db/auth.sql.go) with the conversions of       *)
(* internal/auth/repository.go.  A table is a function from ids to rows;   *)
(* NoRow stands where there is none.                                       *)
(*                                                                         *)
(* password stands for password_hash, first for the columns of the profile *)
(* that carry no constraint, pic for profile_pic_url, which only the       *)
(* upload of an avatar writes and no read of a user returns.               *)
(***************************************************************************)
EXTENDS FiniteSets

CONSTANTS NoRow, NoPicture

\* EmailVerified is left FALSE by register, the only caller.
NewUser(email, password, first, username) ==
  [email |-> email, password |-> password, first |-> first, username |-> username,
   verified |-> FALSE, pic |-> NoPicture]

\* Mutant: the partial index on the username is missing.
EmailTaken(table, id, email, username) ==
  \E other \in DOMAIN table \ {id} : table[other] # NoRow /\ table[other].email = email

\* The unique constraint on email and the unique index on username, of which
\* every row has one: what a row under id may not have.
DuplicateKey(table, id, email, username) ==
  \E other \in DOMAIN table \ {id} :
    /\ table[other] # NoRow
    /\ table[other].email = email \/ table[other].username = username

CreateUser(table, id, row) == [table EXCEPT ![id] = row]

GetUserByID(table, id) == table[id]

\* At most one id each, by the constraints; the empty set is ErrUserNotFound.
GetUserByEmail(table, email) ==
  {id \in DOMAIN table : table[id] # NoRow /\ table[id].email = email}
GetUserByUsername(table, username) ==
  {id \in DOMAIN table : table[id] # NoRow /\ table[id].username = username}

\* Mutant: the statement writes profile_pic_url too.
UpdateWholeUser(table, id, user) ==
  IF table[id] = NoRow THEN table ELSE [table EXCEPT ![id] = user]

\* Every column but profile_pic_url, from the user the caller has read.
UpdateUser(table, id, user) ==
  IF table[id] = NoRow THEN table ELSE [table EXCEPT ![id] = [user EXCEPT !.pic = table[id].pic]]

UpdateUserProfilePicURL(table, id, url) ==
  IF table[id] = NoRow THEN table ELSE [table EXCEPT ![id].pic = url]


\* Sessions are records of an id, a user and the hash of a token; the hash is
\* not unique, for a token issued twice in a second is the same token.
CreateSession(sessions, id, user, token) ==
  sessions \cup {[id |-> id, user |-> user, token |-> token]}
GetSessionByToken(sessions, token) == {s \in sessions : s.token = token}
DeleteSession(sessions, session) == sessions \ {session}
=============================================================================
