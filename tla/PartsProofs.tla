---------------------------- MODULE PartsProofs ----------------------------
(***************************************************************************)
(* Three parts with little state, each by itself.                          *)
(*                                                                         *)
(* DNS cookies, for every lifetime of a cookie, any addresses and any      *)
(* number of rotations: a cookie is honoured exactly from its address, in  *)
(* its time and across one rotation, also when the clock is set back, and  *)
(* the cookie that comes with BADCOOKIE is good for the retry.  Secrets    *)
(* are numbered as they are drawn, the server keeps the last two, and the  *)
(* cookie a client holds was made of the one drawn `turned' rotations ago. *)
(* What happened since the last reply is what happened to the cookie that  *)
(* came with it.                                                           *)
(*                                                                         *)
(* The token bucket, for every rate, scale and width of the clock: the     *)
(* bucket that is filled by whole scaled tokens never holds more than the  *)
(* one that loses no fraction, also when the clock wraps.  As long as a    *)
(* slot is looked at once in a turn of the clock, the time subtracted      *)
(* modulo its width is the time that passed (ClockInv), and rounding a     *)
(* quotient down only ever loses.                                          *)
(*                                                                         *)
(* The pinned delegation, for any number of workers and any intervals: of  *)
(* all the workers that find it due, one sends the refresh.  A worker      *)
(* between its read of due and its swap either has been overtaken by a     *)
(* swap that landed, or the entry is still the one it read, and still due  *)
(* (DueInv).  The read lock it holds keeps everyone who would put another  *)
(* entry in its place out; only the clock and other swaps move in between. *)
(***************************************************************************)
EXTENDS Delegation, Integers, TLAPS

CONSTANTS MAX_AGE, MAX_SKEW, Addr, MaxTime, MaxRotations, MaxMoves
VARIABLES cur, old, now, addr, cookie, turned, since, moves, reply
CONSTANTS Prefix, RATE, SCALE, MS, WRAP
VARIABLES clock, e, idle, exact, said

Ck == INSTANCE Cookies
Rate == INSTANCE RateLimit WITH now <- clock

-----------------------------------------------------------------------------
(* Cookies.                                                                 *)

Made == [secret : Nat, ts : Nat, addr : Addr]

\* The two secrets, and the one the client's cookie was made of.
SecretInv ==
    /\ cur \in Nat /\ now \in Nat /\ turned \in Nat /\ addr \in Addr
    /\ old = IF cur = 0 THEN 0 ELSE cur - 1
    /\ cookie # Ck!NoCookie =>
         cookie \in Made /\ cookie.secret + turned = cur

\* What is remembered since a BADCOOKIE is about the cookie it brought.
SinceInv ==
    /\ since \in [moved : BOOLEAN, rotated : Nat, time : Int]
    /\ reply = "badcookie" =>
         /\ cookie # Ck!NoCookie
         /\ turned = since.rotated /\ now = cookie.ts + since.time
         /\ ~since.moved => cookie.addr = addr

CookieInv == SecretInv /\ SinceInv

\* A cookie that is handed out is one of Made, and so none of NoCookie.
LEMMA MintMakes ==
    ASSUME SecretInv
    PROVE  Ck!Mint \in Made /\ Ck!Mint # Ck!NoCookie
           /\ Ck!Mint.secret = cur /\ Ck!Mint.ts = now /\ Ck!Mint.addr = addr
<1>1. Ck!NoCookie.secret = -1 /\ Ck!Mint.secret = cur
  BY DEF Ck!NoCookie, Ck!Mint, Ck!server_cookie_with
<1>2. -1 \notin Nat
  OBVIOUS
<1> QED BY <1>1, <1>2 DEF SecretInv, Made, Ck!Mint, Ck!server_cookie_with

\* elpis_cookie_verify() accepts a cookie exactly from its address, in its time
\* and across one rotation: the two secrets tried are the last two drawn.
LEMMA VerifyIs ==
    ASSUME SecretInv, MAX_AGE \in Nat, MAX_SKEW \in Nat, cookie # Ck!NoCookie
    PROVE  Ck!Verify(cookie) <=> /\ cookie.addr = addr
                                 /\ now - cookie.ts \in -MAX_SKEW .. MAX_AGE
                                 /\ turned <= 1
<1>1. /\ cookie \in Made /\ cookie.secret + turned = cur
      /\ cur \in Nat /\ turned \in Nat /\ old = IF cur = 0 THEN 0 ELSE cur - 1
  BY DEF SecretInv
<1>2. ASSUME NEW s PROVE cookie = Ck!server_cookie_with(s, addr, cookie.ts)
                           <=> cookie.secret = s /\ cookie.addr = addr
  BY <1>1 DEF Made, Ck!server_cookie_with
<1>3. cookie.secret \in {cur, old} <=> turned <= 1
  <2>1. cookie.secret \in Nat
    BY <1>1 DEF Made
  <2> QED BY <1>1, <2>1
<1>4. Ck!Timely(cookie) <=> now - cookie.ts \in -MAX_SKEW .. MAX_AGE
  <2>1. cookie.ts \in Nat /\ now \in Nat
    BY <1>1 DEF Made, SecretInv
  <2> QED BY <2>1 DEF Ck!Timely
<1> QED BY <1>2, <1>3, <1>4 DEF Ck!Verify

\* Every reply hands out a cookie of the current secret, every rotation makes
\* it one rotation older.
LEMMA CookieStep ==
    ASSUME CookieInv, [Ck!Next]_(Ck!vars) PROVE CookieInv'
<1> USE DEF CookieInv
<1>1. ASSUME Ck!Answer \/ Ck!reply_badcookie PROVE CookieInv'
  <2>1. /\ cookie' = Ck!Mint /\ turned' = 0 /\ since' = Ck!Quiet
        /\ UNCHANGED <<cur, old, now, addr>>
    BY <1>1 DEF Ck!Answer, Ck!reply_badcookie
  <2>2. SecretInv'
    BY <2>1, MintMakes DEF SecretInv
  <2>3. SinceInv'
    BY <2>1, MintMakes DEF SinceInv, SecretInv, Ck!Quiet
  <2> QED BY <2>2, <2>3
<1>2. ASSUME Ck!Rotate PROVE CookieInv'
  <2>1. /\ old' = cur /\ cur' = cur + 1
        /\ turned' = IF cookie = Ck!NoCookie THEN 0 ELSE turned + 1
        /\ since' = [since EXCEPT !.rotated = @ + 1]
        /\ UNCHANGED <<now, addr, cookie, reply>>
    BY <1>2 DEF Ck!Rotate
  <2>2. SecretInv'
    BY <2>1 DEF SecretInv, Made
  <2>3. SinceInv'
    BY <2>1 DEF SinceInv, SecretInv
  <2> QED BY <2>2, <2>3
<1>3. ASSUME Ck!Move PROVE CookieInv'
  BY <1>3 DEF Ck!Move, SecretInv, SinceInv
<1>4. ASSUME Ck!Tick PROVE CookieInv'
  <2>1. /\ now' = now + 1 /\ since' = [since EXCEPT !.time = @ + 1]
        /\ UNCHANGED <<cur, old, addr, cookie, turned, reply>>
    BY <1>4 DEF Ck!Tick
  <2>2. SecretInv'
    BY <2>1 DEF SecretInv, Made
  <2>3. SinceInv'
    BY <2>1 DEF SinceInv, SecretInv, Made
  <2> QED BY <2>2, <2>3
<1>5. ASSUME Ck!SetBack PROVE CookieInv'
  <2>1. PICK t \in 0 .. now - 1 : now' = t /\ since' = [since EXCEPT !.time = @ + t - now]
    BY <1>5 DEF Ck!SetBack
  <2>2. t \in Nat /\ UNCHANGED <<cur, old, addr, cookie, turned, reply>>
    BY <1>5, <2>1 DEF Ck!SetBack, SecretInv
  <2>3. SecretInv'
    BY <2>1, <2>2 DEF SecretInv
  <2>4. SinceInv'
    BY <2>1, <2>2 DEF SinceInv, SecretInv, Made
  <2> QED BY <2>3, <2>4
<1>6. CASE UNCHANGED Ck!vars
  BY <1>6 DEF Ck!vars, SecretInv, SinceInv
<1> QED BY <1>1, <1>2, <1>3, <1>4, <1>5, <1>6 DEF Ck!Next

\* It holds from the start: no cookie, one secret twice.
LEMMA CookieAlways ==
    ASSUME Addr # {} PROVE Ck!Spec => []CookieInv
<1>1. Ck!Init => CookieInv
  BY DEF Ck!Init, CookieInv, SecretInv, SinceInv, Ck!Quiet
<1>2. CookieInv /\ [Ck!Next]_(Ck!vars) => CookieInv'
  BY CookieStep
<1> QED BY <1>1, <1>2, PTL DEF Ck!Spec

\* cookie.c, "the previous secret stays valid across one rotation", and the
\* cookie of reply_badcookie(): what the server promises is kept, for every
\* lifetime and skew, any addresses and any number of rotations.
THEOREM CookieIsKept ==
    ASSUME Addr # {}, MAX_AGE \in Nat, MAX_SKEW \in Nat
    PROVE  Ck!Spec => []Ck!CookieKept
<1>1. CookieInv => Ck!HonouredOnceRotated
  BY VerifyIs DEF Ck!HonouredOnceRotated, CookieInv
<1>2. CookieInv => Ck!RetryIsServed
  <2> SUFFICES ASSUME CookieInv, reply = "badcookie", Ck!Bad
               PROVE  \/ since.moved \/ since.rotated > 1
                      \/ since.time \notin -MAX_SKEW .. MAX_AGE
    BY DEF Ck!RetryIsServed
  <2>1. /\ cookie # Ck!NoCookie /\ cookie \in Made /\ turned = since.rotated
        /\ now = cookie.ts + since.time /\ (~since.moved => cookie.addr = addr)
        /\ since \in [moved : BOOLEAN, rotated : Nat, time : Int]
    BY DEF CookieInv, SecretInv, SinceInv
  <2>2. ~(cookie.addr = addr /\ now - cookie.ts \in -MAX_SKEW .. MAX_AGE /\ turned <= 1)
    BY <2>1, VerifyIs DEF CookieInv, Ck!Bad
  <2>3. cookie.ts \in Nat
    BY <2>1 DEF Made
  <2> QED BY <2>1, <2>2, <2>3
<1> QED BY <1>1, <1>2, CookieAlways, PTL DEF Ck!CookieKept

-----------------------------------------------------------------------------
(* The token bucket.                                                        *)

\* What the configuration and the code allow: rates and scales are counts, a
\* second has milliseconds, the clock has a width.
Widths == RATE \in Nat /\ SCALE \in Nat /\ MS \in Nat \ {0} /\ WRAP \in Nat \ {0}

\* The clock is `idle' milliseconds past the slot's last_ms.
ClockInv ==
    /\ clock \in 0..(WRAP - 1) /\ idle \in 0..(WRAP - 1) /\ e.last_ms \in 0..(WRAP - 1)
    /\ clock = IF e.last_ms + idle < WRAP THEN e.last_ms + idle
             ELSE e.last_ms + idle - WRAP

BucketInv == e.tokens \in Nat /\ exact \in Nat /\ Rate!NeverMore

\* A quotient rounded down, times the divisor, is no more than the dividend.
LEMMA DivLoses ==
    ASSUME NEW x \in Nat, NEW m \in Nat \ {0}
    PROVE  x \div m \in Nat /\ (x \div m) * m <= x
OBVIOUS

\* One turn of the clock, modulo its width.
LEMMA WrapsAround ==
    ASSUME NEW n \in Nat, NEW m \in Nat \ {0}
    PROVE  n < m => n % m = n /\ (n + m) % m = n
OBVIOUS

\* Products of counts are counts, grow with their factors and distribute.
LEMMA Products ==
    ASSUME NEW a \in Nat, NEW b \in Nat, NEW m \in Nat
    PROVE  /\ a * m \in Nat /\ (a <= b => a * m <= b * m)
           /\ (a + b) * m = a * m + b * m
           /\ (b <= a => (a - b) * m = a * m - b * m)
OBVIOUS

\* bucket_take()'s subtraction finds the time that passed.
LEMMA TimePassed ==
    ASSUME Widths, ClockInv PROVE (clock - e.last_ms + WRAP) % WRAP = idle
<1>1. WRAP \in Nat \ {0} /\ idle \in Nat /\ idle < WRAP
  BY DEF Widths, ClockInv
<1>2. clock - e.last_ms + WRAP = idle + WRAP \/ clock - e.last_ms + WRAP = idle
  BY <1>1 DEF ClockInv
<1> QED BY <1>1, <1>2, WrapsAround

\* What bucket_take() finds in the bucket is no more than the exact one has.
LEMMA FilledLess ==
    ASSUME Widths, ClockInv, BucketInv
    PROVE  /\ Rate!Filled \in Nat /\ Rate!Least(Rate!cap * MS, exact + idle * RATE * SCALE) \in Nat
           /\ Rate!Filled * MS <= Rate!Least(Rate!cap * MS, exact + idle * RATE * SCALE)
<1> DEFINE x == idle * RATE * SCALE
           q == x \div MS
           f == e.tokens + q
<1>1. /\ MS \in Nat \ {0} /\ Rate!cap \in Nat /\ x \in Nat
      /\ e.tokens \in Nat /\ exact \in Nat /\ e.tokens * MS <= exact
  <2>1. RATE \in Nat /\ SCALE \in Nat /\ MS \in Nat \ {0} /\ idle \in Nat
    BY DEF Widths, ClockInv
  <2>2. RATE * SCALE \in Nat /\ idle * RATE \in Nat
    BY <2>1, Products
  <2>3. Rate!cap \in Nat /\ x \in Nat
    BY <2>1, <2>2, Products DEF Rate!cap
  <2> QED BY <2>1, <2>3 DEF BucketInv, Rate!NeverMore
<1>2. Rate!Filled = Rate!Least(Rate!cap, f)
  BY TimePassed DEF Rate!Filled
<1> HIDE DEF x
<1>3. q \in Nat /\ q * MS <= x
  BY <1>1, DivLoses
<1> HIDE DEF q
<1>4. f \in Nat /\ f * MS = e.tokens * MS + q * MS
  BY <1>1, <1>3, Products
<1>5. /\ Rate!cap * MS \in Nat /\ f * MS \in Nat /\ f * MS <= exact + x
  BY <1>1, <1>3, <1>4, Products
<1> HIDE DEF f
<1>6. Rate!Filled \in Nat /\ Rate!Filled <= Rate!cap /\ Rate!Filled <= f
  BY <1>1, <1>2, <1>4 DEF Rate!Least
<1>7. Rate!Filled * MS <= Rate!cap * MS /\ Rate!Filled * MS <= f * MS /\ Rate!Filled * MS \in Nat
  BY <1>1, <1>4, <1>6, Products
<1>8. Rate!Least(Rate!cap * MS, exact + x) \in Nat /\ Rate!Filled * MS <= Rate!Least(Rate!cap * MS, exact + x)
  BY <1>1, <1>5, <1>7 DEF Rate!Least
<1> QED BY <1>6, <1>8 DEF x

\* A token taken from both buckets leaves the code's the emptier one.
LEMMA TakeLess ==
    ASSUME Widths, ClockInv, BucketInv, NEW p, Rate!bucket_take(p)
    PROVE  BucketInv'
<1> DEFINE have == IF e.key # p THEN Rate!cap ELSE Rate!Filled
           ideal == IF e.key # p THEN Rate!cap * MS
                    ELSE Rate!Least(Rate!cap * MS, exact + idle * RATE * SCALE)
<1>1. /\ said' = IF have < SCALE THEN "refuse" ELSE "allow"
      /\ e'.tokens = IF have < SCALE THEN have ELSE have - SCALE
      /\ exact' = IF said' = "allow" /\ ideal >= SCALE * MS THEN ideal - SCALE * MS
                  ELSE ideal
  BY DEF Rate!bucket_take
<1>2. MS \in Nat /\ SCALE \in Nat /\ Rate!cap \in Nat /\ Rate!cap * MS \in Nat
  <2>1. MS \in Nat /\ SCALE \in Nat /\ RATE \in Nat
    BY DEF Widths
  <2>2. RATE * SCALE \in Nat
    BY <2>1, Products
  <2>3. Rate!cap \in Nat
    BY <2>1, <2>2, Products DEF Rate!cap
  <2> QED BY <2>1, <2>3, Products
<1>3. have \in Nat /\ ideal \in Nat /\ have * MS <= ideal
  BY <1>2, FilledLess
<1> HIDE DEF have, ideal
<1>4. CASE have < SCALE
  BY <1>1, <1>3, <1>4 DEF BucketInv, Rate!NeverMore
<1>5. CASE ~(have < SCALE)
  <2>1. /\ SCALE <= have /\ have - SCALE \in Nat
        /\ SCALE * MS \in Nat /\ SCALE * MS <= have * MS /\ have * MS \in Nat
        /\ (have - SCALE) * MS = have * MS - SCALE * MS
    BY <1>2, <1>3, <1>5, Products
  <2>2. exact' = ideal - SCALE * MS /\ e'.tokens = have - SCALE
    BY <1>1, <1>3, <1>5, <2>1
  <2> QED BY <1>3, <2>1, <2>2 DEF BucketInv, Rate!NeverMore
<1> QED BY <1>4, <1>5

\* ratelimit.c, "the bucket holds one second's worth plus a small burst": a
\* prefix gets no more than its rate and one burst while it keeps its slot, for
\* every rate, scale and width of the clock.
THEOREM NeverTakesMore ==
    ASSUME Widths PROVE Rate!Spec => []Rate!NeverMore
<1>1. Rate!Init => ClockInv /\ BucketInv
  <2>1. RATE \in Nat /\ SCALE \in Nat /\ MS \in Nat /\ WRAP \in Nat \ {0}
    BY DEF Widths
  <2>2. RATE * SCALE \in Nat
    BY <2>1, Products
  <2>3. Rate!cap \in Nat
    BY <2>1, <2>2, Products DEF Rate!cap
  <2>4. Rate!cap * MS \in Nat
    BY <2>1, <2>3, Products
  <2> QED BY <2>1, <2>4 DEF Rate!Init, ClockInv, BucketInv, Rate!NeverMore
<1>2. ClockInv /\ BucketInv /\ [Rate!Next]_(Rate!vars) => ClockInv' /\ BucketInv'
  <2> SUFFICES ASSUME ClockInv, BucketInv, [Rate!Next]_(Rate!vars) PROVE ClockInv' /\ BucketInv'
    OBVIOUS
  <2>0. WRAP \in Nat \ {0}
    BY DEF Widths
  <2>1. CASE Rate!Tick
    <3>1. /\ idle < WRAP - 1 /\ idle' = idle + 1 /\ clock' = (clock + 1) % WRAP
          /\ UNCHANGED <<e, exact>>
      BY <2>1 DEF Rate!Tick
    <3>2. clock' = IF clock + 1 = WRAP THEN 0 ELSE clock + 1
      <4>1. CASE clock + 1 = WRAP
        <5>1. (0 + WRAP) % WRAP = 0
          BY <2>0, WrapsAround
        <5> QED BY <2>0, <3>1, <4>1, <5>1
      <4>2. CASE clock + 1 # WRAP
        <5>1. clock + 1 \in Nat /\ clock + 1 < WRAP
          BY <2>0, <4>2 DEF ClockInv
        <5> QED BY <2>0, <3>1, <4>2, <5>1, WrapsAround
      <4> QED BY <4>1, <4>2
    <3>3. ClockInv'
      BY <2>0, <3>1, <3>2 DEF ClockInv
    <3> QED BY <3>1, <3>3 DEF BucketInv, Rate!NeverMore
  <2>2. ASSUME NEW p \in Prefix, Rate!bucket_take(p) PROVE ClockInv' /\ BucketInv'
    <3>1. e'.last_ms = clock /\ idle' = 0 /\ clock' = clock
      BY <2>2 DEF Rate!bucket_take
    <3>2. ClockInv'
      BY <2>0, <3>1 DEF ClockInv
    <3> QED BY <2>2, <3>2, TakeLess
  <2>3. CASE UNCHANGED Rate!vars
    BY <2>3 DEF Rate!vars, ClockInv, BucketInv, Rate!NeverMore
  <2> QED BY <2>1, <2>2, <2>3 DEF Rate!Next
<1> QED BY <1>1, <1>2, PTL DEF Rate!Spec, BucketInv

-----------------------------------------------------------------------------
(* The pinned delegation.                                                   *)

Places == [pc : {"idle", "swap", "asking", "heard", "note"}, ver : Nat, moved : BOOLEAN]
Entries == [there : BOOLEAN, ver : Nat, absent : BOOLEAN, left : Nat]

TypeInv ==
    /\ at \in [Worker -> Places] /\ ent \in Entries
    /\ truth \in Nat /\ xfer.ver \in Nat

DueInv ==
    \A w \in Worker :
        at[w].pc = "swap" /\ ~at[w].moved => ent.there /\ ent.left = 0

\* An entry that is put has its fields in range.
LEMMA PutTyped ==
    ASSUME EVERY \in Nat, RETRY \in Nat, NEW ver \in Nat, NEW absent \in BOOLEAN
    PROVE  Put(ver, absent) \in Entries /\ Gone \in Entries /\ HintsVer \in Nat
BY DEF Put, Gone, Entries, Interval, HintsVer

\* Where a worker goes is one of Places, and it has not been overtaken there.
LEMMA AtTyped ==
    ASSUME NEW pc \in {"idle", "swap", "asking", "heard", "note"}, NEW ver \in Nat
    PROVE  /\ At(pc, ver) \in Places /\ At(pc, ver).pc = pc /\ ~At(pc, ver).moved
           /\ Idle \in Places /\ Idle.pc = "idle"
BY DEF At, Idle, Places

\* A step of one worker that leaves the entry alone and does not go to swap.
LEMMA Elsewhere ==
    ASSUME TypeInv, DueInv, UNCHANGED ent, NEW w \in Worker, NEW p \in Places,
           p.pc \in {"idle", "heard", "note"} \/ (p.pc = "asking" /\ at[w].pc # "swap"),
           at' = [at EXCEPT ![w] = p], truth' \in Nat, xfer'.ver \in Nat
    PROVE  TypeInv' /\ DueInv' /\ SendsOnce
BY DEF TypeInv, DueInv, SendsOnce

\* A step that changes the entry while no worker stands before its swap.
LEMMA NobodyReads ==
    ASSUME TypeInv, NoReader, NEW w, NEW p \in Places, p.pc = "idle",
           at' = at \/ at' = [at EXCEPT ![w] = p],
           ent' \in Entries, truth' \in Nat, xfer'.ver \in Nat
    PROVE  TypeInv' /\ DueInv' /\ SendsOnce
<1>1. at' \in [Worker -> Places] /\ \A v \in Worker : at'[v].pc # "swap"
  BY DEF TypeInv, NoReader
<1> QED BY <1>1 DEF TypeInv, DueInv, SendsOnce, NoReader

\* The compare-and-swap: lost to one that landed, or lands itself on an entry
\* that is due, and overtakes everyone who stands where it stood.
LEMMA SwapOnce ==
    ASSUME RETRY \in Nat, TypeInv, DueInv, NEW w \in Worker, Swap(w)
    PROVE  TypeInv' /\ DueInv' /\ SendsOnce
<1>1. CASE at[w].moved
  <2>1. at' = [at EXCEPT ![w] = Idle] /\ UNCHANGED <<ent, truth, xfer>>
    BY <1>1 DEF Swap
  <2> QED BY <2>1, AtTyped, Elsewhere DEF TypeInv
<1>2. CASE ~at[w].moved
  <2>1. /\ at[w].pc = "swap" /\ ent' = [ent EXCEPT !.left = RETRY] /\ at' = Landed(w)
        /\ UNCHANGED <<truth, xfer>>
    BY <1>2 DEF Swap
  <2>2. ent.left = 0
    BY <1>2, <2>1 DEF DueInv
  <2>3. At("asking", 0) \in Places /\ At("asking", 0).pc = "asking"
    BY AtTyped
  <2>4. \A v \in Worker : /\ at'[v] \in Places
                          /\ at'[v].pc = "swap" => at'[v].moved
    BY <2>1, <2>3 DEF Landed, TypeInv, Places
  <2>5. at' \in [Worker -> Places]
    BY <2>1, <2>4 DEF Landed
  <2>6. ent' \in Entries
    BY <2>1 DEF TypeInv, Entries
  <2> QED BY <2>1, <2>2, <2>4, <2>5, <2>6 DEF TypeInv, DueInv, SendsOnce
<1> QED BY <1>1, <1>2 DEF TypeInv, Places

\* Every step keeps what a waiting swap rests on, and sends at most once.
LEMMA DelegStep ==
    ASSUME EVERY \in Nat, RETRY \in Nat, TypeInv, DueInv, [Next]_vars
    PROVE  TypeInv' /\ DueInv' /\ SendsOnce
<1>1. ASSUME NEW w \in Worker, Notice(w) PROVE TypeInv' /\ DueInv' /\ SendsOnce
  <2>1. /\ at' = [at EXCEPT ![w] = At("swap", 0)] /\ ent.there /\ ent.left = 0
        /\ UNCHANGED <<ent, truth, xfer>>
    BY <1>1 DEF Notice, IsDue
  <2> QED BY <2>1, AtTyped DEF TypeInv, DueInv, SendsOnce
<1>2. ASSUME NEW w \in Worker, Miss(w) \/ Hear(w) \/ Fail(w) \/ NoteGet(w)
      PROVE  TypeInv' /\ DueInv' /\ SendsOnce
  <2>1. /\ UNCHANGED <<ent, truth, xfer>>
        /\ \/ at' = [at EXCEPT ![w] = At("asking", 0)] /\ at[w] = Idle
           \/ at' = [at EXCEPT ![w] = At("heard", truth)]
           \/ at' = [at EXCEPT ![w] = Idle]
           \/ at' = [at EXCEPT ![w] = At("note", ent.ver)]
    BY <1>2 DEF Miss, Hear, Fail, NoteGet
  <2>2. truth \in Nat /\ ent.ver \in Nat
    BY DEF TypeInv, Entries
  <2>3. PICK p \in Places :
          /\ at' = [at EXCEPT ![w] = p]
          /\ p.pc \in {"idle", "heard", "note"} \/ (p.pc = "asking" /\ at[w].pc # "swap")
    BY <2>1, <2>2, AtTyped
  <2> QED BY <2>1, <2>3, Elsewhere DEF TypeInv
<1>3. ASSUME NEW w \in Worker, Absorb(w) \/ NotePut(w)
      PROVE  TypeInv' /\ DueInv' /\ SendsOnce
  <2>1. /\ NoReader /\ at' = [at EXCEPT ![w] = Idle] /\ UNCHANGED <<truth, xfer>>
        /\ ent' \in {Put(at[w].ver, FALSE), Put(at[w].ver, TRUE), Put(HintsVer, FALSE)}
    BY <1>3 DEF Absorb, absorb_referral, prime_done, NotePut
  <2>2. at[w].ver \in Nat
    BY DEF TypeInv, Places
  <2>3. ent' \in Entries
    BY <2>1, <2>2, PutTyped DEF HintsVer
  <2> QED BY <2>1, <2>3, AtTyped, NobodyReads DEF TypeInv
<1>4. ASSUME XferInstall \/ Flush PROVE TypeInv' /\ DueInv' /\ SendsOnce
  <2>1. /\ NoReader /\ at' = at /\ truth' = truth
        /\ ent' \in {Put(xfer.ver, FALSE), Gone} /\ xfer'.ver \in Nat
    <3>1. CASE XferInstall
      BY <3>1 DEF XferInstall
    <3>2. CASE Flush
      BY <3>2 DEF Flush, TypeInv
    <3> QED BY <1>4, <3>1, <3>2
  <2>2. ent' \in Entries
    BY <2>1, PutTyped DEF TypeInv
  <2> QED BY <2>1, <2>2, AtTyped, NobodyReads DEF TypeInv
<1>5. ASSUME PutHints PROVE TypeInv' /\ DueInv' /\ SendsOnce
  <2>1. /\ ~ent.there /\ ent' = Put(HintsVer, FALSE) /\ UNCHANGED <<at, truth, xfer>>
    BY <1>5 DEF PutHints
  <2>2. ent' \in Entries
    BY <2>1, PutTyped DEF HintsVer
  <2> QED BY <2>1, <2>2 DEF TypeInv, DueInv, SendsOnce
<1>6. ASSUME XferRead \/ Renumber \/ Refetch PROVE TypeInv' /\ DueInv' /\ SendsOnce
  <2>1. UNCHANGED <<at, ent>> /\ truth' \in Nat /\ xfer'.ver \in Nat
    BY <1>6 DEF XferRead, Renumber, Refetch, TypeInv
  <2> QED BY <2>1 DEF TypeInv, DueInv, SendsOnce
<1>7. ASSUME Tick PROVE TypeInv' /\ DueInv' /\ SendsOnce
  <2>1. /\ ent.left > 0 /\ ent' = [ent EXCEPT !.left = @ - 1]
        /\ UNCHANGED <<at, truth, xfer>>
    BY <1>7 DEF Tick
  <2>2. ent.left # 0 /\ ent' \in Entries
    BY <2>1 DEF TypeInv, Entries
  <2> QED BY <2>1, <2>2 DEF TypeInv, DueInv, SendsOnce
<1>8. CASE UNCHANGED vars
  BY <1>8 DEF vars, TypeInv, DueInv, SendsOnce
<1> QED BY <1>1, <1>2, <1>3, <1>4, <1>5, <1>6, <1>7, <1>8, SwapOnce DEF Next, Step

\* deleg.h, "of all the workers that notice, exactly one sends the
\* refresh": for any number of workers and any intervals.
THEOREM OneWorkerSends ==
    ASSUME EVERY \in Nat, RETRY \in Nat PROVE Spec => OneSends
<1>1. Init => TypeInv /\ DueInv
  <2> SUFFICES ASSUME Init PROVE TypeInv /\ DueInv
    OBVIOUS
  <2>1. ent \in Entries /\ truth \in Nat /\ xfer.ver \in Nat
    BY PutTyped DEF Init, HintsVer
  <2>2. at \in [Worker -> Places] /\ \A w \in Worker : at[w].pc = "idle"
    BY AtTyped DEF Init
  <2> QED BY <2>1, <2>2 DEF TypeInv, DueInv
<1>2. TypeInv /\ DueInv /\ [Next]_vars => TypeInv' /\ DueInv' /\ [SendsOnce]_vars
  BY DelegStep
<1> QED BY <1>1, <1>2, PTL DEF Spec, OneSends
=============================================================================
