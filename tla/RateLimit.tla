----------------------------- MODULE RateLimit -----------------------------
(***************************************************************************)
(* The token buckets of src/server/ratelimit.c: one slot of the table, and  *)
(* the client prefixes whose key falls on it.  A prefix asks, time passes in *)
(* milliseconds, the bucket is filled by whole scaled tokens for the time    *)
(* since it was last looked at.                                              *)
(*                                                                         *)
(* Beside the code's bucket runs the exact one, which loses no fraction:     *)
(* `exact' counts in tokens times SCALE times MS.  Like the code's it is     *)
(* full when a prefix takes the slot, so it measures one stay in the slot:   *)
(* prefixes that take the slot from each other find a full bucket each time. *)
(***************************************************************************)
EXTENDS Naturals

CONSTANTS Prefix,       \* the prefixes that share the slot
          RATE,         \* client_qps or nxdomain_qps
          SCALE,        \* TOKEN_SCALE
          MS,           \* milliseconds in a second
          WRAP          \* the clock's modulus (a bound; 2^32 in the code)

VARIABLES now,
          e,            \* rlent_t: key, tokens, last_ms
          idle,         \* milliseconds since the slot was last looked at
          exact,        \* history: the exact bucket of the prefix, since it took the slot
          said          \* the last decision: "none", "allow", "refuse"

vars == <<now, e, idle, exact, said>>

cap == RATE * SCALE * 2
Least(a, b) == IF a < b THEN a ELSE b

Init ==
    /\ now = 0
    /\ e = [key |-> "none", tokens |-> 0, last_ms |-> 0]
    /\ idle = 0 /\ exact = cap * MS /\ said = "none"

\* Mutant: the bucket overflows.
Filled_Over == e.tokens + (((now - e.last_ms + WRAP) % WRAP) * RATE * SCALE) \div MS

\* What the bucket holds after the time since it was last looked at.
Filled ==
    Least(cap, e.tokens + (((now - e.last_ms + WRAP) % WRAP) * RATE * SCALE) \div MS)

\* bucket_take
bucket_take(p) ==
    /\ \E have \in {IF e.key # p THEN cap ELSE Filled} :
          /\ said' = IF have < SCALE THEN "refuse" ELSE "allow"
          /\ e' = [key |-> p, last_ms |-> now,
                   tokens |-> IF have < SCALE THEN have ELSE have - SCALE]
    /\ \E ideal \in {IF e.key # p THEN cap * MS
                     ELSE Least(cap * MS, exact + idle * RATE * SCALE)} :
          exact' = IF said' = "allow" /\ ideal >= SCALE * MS THEN ideal - SCALE * MS ELSE ideal
    /\ idle' = 0
    /\ UNCHANGED now

Tick ==
    /\ idle < WRAP - 1
    /\ now' = (now + 1) % WRAP
    /\ idle' = idle + 1
    /\ UNCHANGED <<e, exact, said>>

Next == Tick \/ \E p \in Prefix : bucket_take(p)

Spec == Init /\ [][Next]_vars /\ WF_vars(Tick) /\ \A p \in Prefix : WF_vars(bucket_take(p))

-----------------------------------------------------------------------------
(* Properties.                                                              *)

\* "the bucket holds one second's worth plus a small burst": the code's bucket
\* never holds more than the exact one, so a prefix gets no more than its rate
\* and one burst for as long as it keeps the slot, also when the clock wraps.
\* It says nothing of a prefix that loses the slot and takes it again.
NeverMore == e.tokens * MS <= exact

\* "scaled by 16 to allow fractional refill": a prefix that keeps asking is
\* let through again and again, at its rate if it asks for more.
KeepsItsRate == (said = "refuse") ~> (said = "allow")
=============================================================================
