----------------------------- MODULE RateLimiter -----------------------------
(***************************************************************************)
(* A request counter in Redis, as pkg/middleware/ratelimit.go keeps one    *)
(* per address and internal/auth/service.go one per e-mail: INCR creates   *)
(* the key or adds one to it, and the caller that finds 1 then sets the    *)
(* key's time to live with EXPIRE.  The two commands are no transaction,   *)
(* and a key without a time to live stays.                                 *)
(***************************************************************************)
EXTENDS Naturals

\* A counter is a number of requests and whether the key will expire.
NoKey == [n |-> 0, expires |-> FALSE]

Incr(counter) == [counter EXCEPT !.n = @ + 1]
\* EXPIRE on a key that has expired meanwhile does nothing.
Expire(counter) == IF counter.n = 0 THEN counter ELSE [counter EXCEPT !.expires = TRUE]

\* Mutants: the window is set by the second request; the limit is one too high.
SecondOfWindow(count) == count = 2
WithinLimitPlus(count, limit) == count <= limit + 1

FirstOfWindow(count) == count = 1
WithinLimit(count, limit) == count <= limit
=============================================================================
