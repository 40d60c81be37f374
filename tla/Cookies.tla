------------------------------ MODULE Cookies ------------------------------
(***************************************************************************)
(* DNS cookies (src/dns/cookie.c) and what the server does with them        *)
(* (handle_query and reply_badcookie, src/server/server.c): one client over *)
(* UDP, asking with the cookie it holds, while the secret is rotated on     *)
(* SIGHUP, time passes, the wall clock is set back, and the client's        *)
(* address changes.                                                         *)
(*                                                                         *)
(* The keyed hash is abstracted to what goes into it: a cookie is the       *)
(* secret, the client half, the time and the address it was made from, and  *)
(* two are equal only if all of these are.  Every rotation draws a secret   *)
(* that was never used before.                                              *)
(***************************************************************************)
EXTENDS Integers

CONSTANTS MAX_AGE,      \* COOKIE_MAX_AGE
          MAX_SKEW,     \* COOKIE_MAX_SKEW
          Addr,         \* the client's addresses
          MaxTime, MaxRotations, MaxMoves   \* bounds

VARIABLES cur, old,     \* g_secret[0], g_secret[1]
          now,          \* the wall clock
          addr,         \* where the client asks from
          cookie,       \* the 24 bytes it sends, or NoCookie: only its own half
          turned,       \* history: rotations since that cookie was made
          since,        \* history: what happened since the last reply
          moves,
          reply         \* the last reply: "none", "answer", "badcookie"

vars == <<cur, old, now, addr, cookie, turned, since, moves, reply>>

Quiet == [moved |-> FALSE, rotated |-> 0, time |-> 0]
NoCookie == [secret |-> -1, ts |-> 0, addr |-> "none"]

Init ==
    /\ cur = 0 /\ old = 0 /\ now = 0
    /\ addr = CHOOSE a \in Addr : TRUE
    /\ cookie = NoCookie /\ turned = 0 /\ since = Quiet /\ moves = 0 /\ reply = "none"

\* elpis_cookie_server
server_cookie_with(secret, a, ts) == [secret |-> secret, ts |-> ts, addr |-> a]
Mint == server_cookie_with(cur, addr, now)

\* Neither too old nor from too far in the future.
Timely(c) == now - c.ts <= MAX_AGE /\ now - c.ts >= -MAX_SKEW

\* Mutant: only the current secret is tried.
Verify_Current(c) ==
    /\ c # NoCookie /\ Timely(c)
    /\ c = server_cookie_with(cur, addr, c.ts)

\* elpis_cookie_verify
Verify(c) ==
    /\ c # NoCookie /\ Timely(c)
    /\ \E secret \in {cur, old} : c = server_cookie_with(secret, addr, c.ts)

\* handle_query with require-cookie on: a cookie that is brought back is
\* checked, and every reply hands out a fresh one.
Bad == cookie # NoCookie /\ ~Verify(cookie)

Answer ==
    /\ ~Bad
    /\ reply' = "answer" /\ since' = Quiet
    /\ cookie' = Mint /\ turned' = 0
    /\ UNCHANGED <<cur, old, now, addr, moves>>

\* reply_badcookie
reply_badcookie ==
    /\ Bad
    /\ reply' = "badcookie" /\ since' = Quiet
    /\ cookie' = Mint /\ turned' = 0
    /\ UNCHANGED <<cur, old, now, addr, moves>>

\* elpis_cookie_rotate
Rotate ==
    /\ cur < MaxRotations
    /\ old' = cur /\ cur' = cur + 1
    /\ turned' = IF cookie = NoCookie THEN 0 ELSE turned + 1
    /\ since' = [since EXCEPT !.rotated = @ + 1]
    /\ UNCHANGED <<now, addr, cookie, moves, reply>>

Move ==
    /\ moves < MaxMoves
    /\ moves' = moves + 1
    /\ addr' \in Addr \ {addr}
    /\ since' = [since EXCEPT !.moved = TRUE]
    /\ UNCHANGED <<cur, old, now, cookie, turned, reply>>

Tick ==
    /\ now < MaxTime
    /\ now' = now + 1
    /\ since' = [since EXCEPT !.time = @ + 1]
    /\ UNCHANGED <<cur, old, addr, cookie, turned, moves, reply>>

\* The wall clock is set back.
SetBack ==
    /\ \E t \in 0 .. now - 1 : now' = t /\ since' = [since EXCEPT !.time = @ + t - now]
    /\ UNCHANGED <<cur, old, addr, cookie, turned, moves, reply>>

Next == Answer \/ reply_badcookie \/ Rotate \/ Move \/ Tick \/ SetBack

Spec == Init /\ [][Next]_vars

-----------------------------------------------------------------------------
(* Properties.                                                              *)

\* "The previous secret stays valid across one rotation": a cookie is accepted
\* from the address it was handed to, for MAX_AGE seconds, MAX_SKEW seconds back
\* and across one rotation, and never otherwise.
HonouredOnceRotated ==
    cookie # NoCookie =>
        (Verify(cookie) <=> /\ cookie.addr = addr
                            /\ now - cookie.ts \in -MAX_SKEW .. MAX_AGE
                            /\ turned <= 1)

\* The cookie that comes with BADCOOKIE is good for the retry: a client is
\* told so again only if since then it moved, waited out MAX_AGE, the clock was
\* set back beyond MAX_SKEW, or the secret was rotated twice.
RetryIsServed ==
    reply = "badcookie" /\ Bad =>
        since.moved \/ since.time \notin -MAX_SKEW .. MAX_AGE \/ since.rotated > 1

\* What the server promises about cookies, to a client that keeps asking.
CookieKept == HonouredOnceRotated /\ RetryIsServed
=============================================================================
