----------------------------- MODULE StaleSets -----------------------------
(***************************************************************************)
(* Answers built from RRsets past their TTL, and the refreshes they set off *)
(* (stale_refresh() and stale_refresh_done() in src/resolver/resolver.c),    *)
(* beside the refreshes of the message cache (elpis_prefetch_start() in      *)
(* src/server/server.c).                                                     *)
(*                                                                         *)
(* One question is followed: the set in the RRset cache, its NXDOMAIN        *)
(* marker, the prebuilt reply in the message cache, and what the zone says   *)
(* at the moment.  Another question falls on the same slot of the worker's   *)
(* table and takes it over now and then.  An entry's `left' is the TTL it    *)
(* has left; at 0 it is stale, and it goes (Evict) when serve-stale is over  *)
(* or room is needed.  A refresh asks the zone, not the caches.              *)
(***************************************************************************)
EXTENDS Naturals

CONSTANTS VERSIONS,     \* how often the zone changes its records (a bound)
          TTLS,         \* the TTLs a zone may give, cache-min-ttl applied
          NX_CONFIRM,   \* refresh-nxdomain-confirmations
          GAPS,         \* the longest backoff is 2^GAPS (6 in the code)
          BUSY,         \* query-total-ms in seconds, plus one
          PENDING       \* half of max-pending

None == [is |-> "none"]
MaxTtl == CHOOSE t \in TTLS : \A u \in TTLS : u <= t
MaxWait == IF 2 ^ GAPS > BUSY THEN 2 ^ GAPS ELSE BUSY + 1

VARIABLES zone,         \* what the zone says: [is |-> "set", v, ttl], "nx" or "dead"
          rr,           \* the set in the RRset cache: None or [is, v, left]
          nx,           \* TTL left of the NXDOMAIN marker
          msg,          \* the prebuilt reply: None or [is, v, left, n]
          slot,         \* elpis_stale_slot_t, `wait' the time since `at'
          out,          \* refreshes in flight, by kind
          theirs,       \* a refresh of the other question is in flight
          brought,      \* the newest version a refresh has brought
          late,         \* the last client was given a set older than that
          due           \* seconds until the question may be refreshed again

vars == <<zone, rr, nx, msg, slot, out, theirs, brought, late, due>>
caches == <<rr, nx, msg>>

Kinds == {"prefetch", "stale"}
Dec(n) == IF n > 0 THEN n - 1 ELSE 0
Older(e) == IF e = None THEN None ELSE [e EXCEPT !.left = Dec(@)]
Low(a, b) == IF a < b THEN a ELSE b
Keys == {"nobody", "ours", "theirs"}

Init ==
    /\ zone = [is |-> "set", v |-> 1, ttl |-> MaxTtl]
    /\ rr = None /\ nx = 0 /\ msg = None
    /\ slot = [key |-> "nobody", wait |-> 0, fails |-> 0, busy |-> FALSE]
    /\ out = [k \in Kinds |-> 0] /\ theirs = FALSE
    /\ brought = 0 /\ late = FALSE /\ due = 0

(***************************************************************************)
(* The caches.                                                               *)
(***************************************************************************)

\* rcache_put(): a set with TTL 0 is not kept, and what was there stays.
PutSet(v, ttl) == IF ttl = 0 THEN rr ELSE [is |-> "set", v |-> v, left |-> ttl]

\* cache_store_answer(): a reply whose smallest TTL is 0 is not kept.
PutMsg(is, v, ttl) == IF ttl = 0 THEN msg ELSE [is |-> is, v |-> v, left |-> ttl, n |-> 0]

\* The slot is this question's, and a refresh is out or too recent.
Held(k) ==
    /\ slot.key = k
    /\ IF slot.busy THEN slot.wait <= BUSY ELSE slot.wait < 2 ^ Low(slot.fails, GAPS)

\* The slot as a refresh of question k starts.
Taken(k) == [key |-> k, wait |-> 0, busy |-> TRUE, fails |-> IF slot.key = k THEN slot.fails ELSE 0]

stale_refresh(load) ==
    IF load \/ out["stale"] >= PENDING \/ Held("ours") THEN UNCHANGED <<slot, out, due>>
    ELSE /\ slot' = Taken("ours")
         /\ out' = [out EXCEPT !["stale"] = @ + 1]
         /\ due' = BUSY + 1

\* Mutant: the end of a refresh is not noted.
stale_refresh_done_Lost(k, usable) == slot' = IF slot.key = k THEN [slot EXCEPT !.wait = 0] ELSE slot

stale_refresh_done(k, usable) ==
    slot' = IF slot.key # k THEN slot
            ELSE [slot EXCEPT !.busy = FALSE, !.wait = 0,
                              !.fails = IF usable THEN 0 ELSE Low(@ + 1, GAPS)]

\* elpis_prefetch_start(), for a stale reply of the message cache.
Prefetch(load) ==
    out' = IF load \/ out["prefetch"] > 0 THEN out ELSE [out EXCEPT !["prefetch"] = 1]

Say(e) == late' = (e.is = "set" /\ e.left = 0 /\ e.v < brought)

(***************************************************************************)
(* A client asks: the message cache first, then cache_try(), then the zone.  *)
(***************************************************************************)
FromMsg(load) ==
    /\ msg # None
    /\ Say(msg)
    /\ IF msg.left = 0 THEN Prefetch(load) ELSE out' = out
    /\ UNCHANGED <<zone, caches, slot, theirs, brought, due>>

\* An exact hit; a stale one is served and its question refreshed.
FromSet(load) ==
    /\ msg = None /\ rr # None
    /\ Say(rr)
    /\ msg' = PutMsg("set", rr.v, rr.left)
    /\ IF rr.left = 0 THEN stale_refresh(load) ELSE UNCHANGED <<slot, out, due>>
    /\ UNCHANGED <<zone, rr, nx, theirs, brought>>

\* The NXDOMAIN marker, looked at only where there is no set, and never stale.
FromMarker ==
    /\ msg = None /\ rr = None /\ nx > 0
    /\ late' = FALSE
    /\ msg' = PutMsg("nx", 0, nx)
    /\ UNCHANGED <<zone, rr, nx, slot, out, theirs, brought, due>>

\* Nothing cached: the resolution asks the zone and the client waits for it.
FromZone ==
    /\ msg = None /\ rr = None /\ nx = 0
    /\ IF zone.is = "set"
       THEN /\ rr' = PutSet(zone.v, zone.ttl)
            /\ msg' = PutMsg("set", zone.v, zone.ttl)
            /\ nx' = nx
       ELSE /\ nx' = IF zone.is = "nx" THEN MaxTtl ELSE 0
            /\ msg' = IF zone.is = "nx" THEN PutMsg("nx", 0, MaxTtl) ELSE msg
            /\ rr' = rr
    /\ late' = FALSE
    /\ UNCHANGED <<zone, slot, out, theirs, brought, due>>

Ask(load) == FromMsg(load) \/ FromSet(load) \/ FromMarker \/ FromZone

(***************************************************************************)
(* A refresh ends (task_finish()).                                           *)
(***************************************************************************)
\* A positive answer: kept if its TTL lets it be.
Brings ==
    /\ zone.is = "set"
    /\ rr' = PutSet(zone.v, zone.ttl)
    /\ msg' = PutMsg("set", zone.v, zone.ttl)
    /\ nx' = nx
    /\ brought' = zone.v

\* nxdomain_storable(): an NXDOMAIN replaces a cached NXDOMAIN at once.
nxdomain_storable == msg # None /\ msg.is = "nx"

\* note_refresh_outcome(): otherwise the reply it would replace counts it, and
\* goes with its records at the NX_CONFIRM-th in a row; with no reply cached
\* there is nothing to count in.
Denies ==
    /\ zone.is = "nx"
    /\ nx' = MaxTtl
    /\ \E gone \in {msg # None /\ ~nxdomain_storable /\ msg.n + 1 >= NX_CONFIRM} :
          /\ msg' = IF nxdomain_storable THEN PutMsg("nx", 0, MaxTtl)
                    ELSE IF gone THEN None
                    ELSE IF msg = None THEN msg
                    ELSE [msg EXCEPT !.n = @ + 1]
          /\ rr' = IF gone THEN None ELSE rr
    /\ UNCHANGED brought

\* No usable answer: nothing changes but the count, which starts over.
Fails ==
    /\ zone.is = "dead"
    /\ msg' = IF msg = None THEN msg ELSE [msg EXCEPT !.n = 0]
    /\ UNCHANGED <<rr, nx, brought>>

Usable == zone.is = "set" \/ (zone.is = "nx" /\ nxdomain_storable)

Land(k) ==
    /\ out[k] > 0
    /\ out' = [out EXCEPT ![k] = @ - 1]
    /\ Brings \/ Denies \/ Fails
    /\ IF k = "stale" THEN stale_refresh_done("ours", Usable) ELSE slot' = slot
    /\ due' = IF k # "stale" \/ slot.key # "ours" THEN due
              ELSE IF Usable THEN 1 ELSE 2 ^ Low(slot.fails + 1, GAPS)
    /\ UNCHANGED <<zone, theirs, late>>

(***************************************************************************)
(* The other question on the slot.  It takes the slot over, which forgets    *)
(* what it held for ours.                                                    *)
(***************************************************************************)
TheyStart ==
    /\ ~theirs /\ ~Held("theirs")
    /\ slot' = Taken("theirs") /\ theirs' = TRUE /\ due' = 0
    /\ UNCHANGED <<zone, caches, out, brought, late>>

TheyEnd ==
    /\ theirs /\ theirs' = FALSE
    /\ \E usable \in BOOLEAN : stale_refresh_done("theirs", usable)
    /\ UNCHANGED <<zone, caches, out, brought, late, due>>

(***************************************************************************)
(* The world: time, eviction, the zone's changes.                            *)
(***************************************************************************)
\* A second.  A refresh ends by its deadline, so none is BUSY seconds old.
Tick ==
    /\ ~(slot.busy /\ slot.wait >= BUSY - 1 /\ (theirs \/ out["stale"] > 0))
    /\ rr' = Older(rr) /\ msg' = Older(msg) /\ nx' = Dec(nx) /\ due' = Dec(due)
    /\ slot' = [slot EXCEPT !.wait = Low(@ + 1, MaxWait)]
    /\ UNCHANGED <<zone, out, theirs, brought, late>>

Evict ==
    /\ \/ msg # None /\ msg' = None /\ rr' = rr
       \/ rr # None /\ rr' = None /\ msg' = msg
    /\ UNCHANGED <<zone, nx, slot, out, theirs, brought, late, due>>

Change ==
    /\ zone' \in [is : {"set", "nx", "dead"}, v : {zone.v, zone.v + 1}, ttl : TTLS]
    /\ zone'.v <= VERSIONS /\ zone' # zone
    /\ UNCHANGED <<caches, slot, out, theirs, brought, late, due>>

Next ==
    \/ Tick \/ TheyStart \/ TheyEnd \/ Evict \/ Change
    \/ \E load \in BOOLEAN : Ask(load)
    \/ \E k \in Kinds : Land(k)

(***************************************************************************)
(* Time passes, a refresh ends (its task has a deadline), and a question     *)
(* that matters is asked again by some client while the worker has room.     *)
(***************************************************************************)
Fairness ==
    /\ WF_vars(Tick) /\ WF_vars(TheyEnd)
    /\ \A k \in Kinds : WF_vars(Land(k))
    /\ WF_vars(Ask(FALSE))

Spec == Init /\ [][Next]_vars /\ Fairness

-----------------------------------------------------------------------------
TypeOK ==
    /\ slot.key \in Keys /\ slot.wait \in 0..MaxWait /\ slot.fails \in 0..GAPS
    /\ out["prefetch"] \in 0..1 /\ out["stale"] \in 0..PENDING /\ due \in 0..MaxWait

\* A slot that says a refresh is out is right: a refresh of its question is in
\* flight, so nobody is held back by the end of one that has ended
\* (stale_refresh_done()).
BusyIsTrue == slot.busy => IF slot.key = "ours" THEN out["stale"] > 0 ELSE theirs

\* "At most one a second for a question, never two at once, and backing off
\* while they keep failing": as long as no other question takes the slot, a
\* refresh starts only when the last one has ended and the gap is over.
Spaced == out'["stale"] > out["stale"] => due = 0

\* Serving stale is not done in place of refreshing: if the zone from some time
\* on gives one cacheable answer, the caches come to hold it, however many
\* refreshes failed before and whichever question had the slot.
Refreshed ==
    (<>[](zone.is = "set" /\ zone.ttl > 0)) => []<>(rr # None => rr.v = zone.v)

\* Once a refresh has brought a newer answer the next client is not served the
\* older set.
NextIsFresh == ~late
=============================================================================
