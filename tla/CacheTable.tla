----------------------------- MODULE CacheTable -----------------------------
(***************************************************************************)
(* One shard of the cache table (src/src/cache/cache.c): open addressing   *)
(* over control bytes that are read a group at a time, tombstones, growth, *)
(* CLOCK eviction and the accounting.  Each operation holds the shard's    *)
(* lock from beginning to end, so each is one step; the threads are in     *)
(* their order.  It implements CacheMap.                                   *)
(***************************************************************************)
EXTENDS Integers, FiniteSets, FiniteSetsExt, TLC

CONSTANTS Keys, Entries, None, BUDGET,
          Hash,                 \* the hash of each key
          TAGS,                 \* 2^7: tags a control byte can hold
          GROUP,                \* ELPIS_GROUP: control bytes read at once
          MIN_CAP,
          PER,                  \* slots swept by one tick of elpis_cache_expire
          MaxNow

VARIABLES t,                    \* the shard
          now
vars == <<t, now>>

EMPTY == -1
DELETED == -2

\* shard_alloc(): the control bytes, with a copy of the first group behind the
\* last so that a group can be read from any of them.
Alloc(cap) ==
    [cap |-> cap, ctrl |-> [i \in 0 .. cap + GROUP - 1 |-> EMPTY],
     slots |-> [i \in 0 .. cap - 1 |-> None], used |-> 0, tomb |-> 0, hand |-> 0]
Init == t = Alloc(MIN_CAP) @@ [bytes |-> 0] /\ now = 1

\* ctrl_set().
CtrlSet(s, i, v) ==
    [s EXCEPT !.ctrl = [j \in DOMAIN @ |->
        IF j = i \/ (i < GROUP /\ j = s.cap + i) THEN v ELSE @[j]]]

Tag(k) == Hash[k] % TAGS

\* The groups on the probe path of key k: where each starts, and how many are
\* looked at before the search gives up.
Start(s, k, j) == ((Hash[k] \div TAGS) + j * GROUP) % s.cap
Path(s) == 0 .. s.cap \div GROUP
InGroup == 0 .. GROUP - 1

Matches(s, k, j) ==
    {b \in InGroup : LET e == s.slots[(Start(s, k, j) + b) % s.cap]
                     IN  /\ s.ctrl[Start(s, k, j) + b] = Tag(k)
                         /\ e # None /\ e.key = k}
Ends(s, k, j) == \E b \in InGroup : s.ctrl[Start(s, k, j) + b] = EMPTY

\* find_slot(): the slots that hold k, up to the first group with an empty byte.
FindSlot(s, k) ==
    LET seen == {j \in Path(s) : \A i \in 0 .. j - 1 : ~Ends(s, k, i)}
        hits == {j \in seen : Matches(s, k, j) # {}}
    IN  IF hits = {} THEN None
        ELSE (Start(s, k, Min(hits)) + Min(Matches(s, k, Min(hits)))) % s.cap

\* find_free(): the first byte on the path that is empty or a tombstone.
Specials(s, k, j) == {b \in InGroup : s.ctrl[Start(s, k, j) + b] \in {EMPTY, DELETED}}
FindFree(s, k) ==
    LET open == {j \in Path(s) : Specials(s, k, j) # {}}
    IN  IF open = {} THEN None
        ELSE (Start(s, k, Min(open)) + Min(Specials(s, k, Min(open)))) % s.cap

Placed(s, i, e) ==
    [CtrlSet(s, i, Tag(e.key)) EXCEPT !.slots[i] = e, !.used = @ + 1]

\* shard_rehash(): every entry into a new, empty table.
Rehashed(s, cap) ==
    LET new == Alloc(cap) @@ [bytes |-> s.bytes]
        upto[i \in 0 .. s.cap] ==
            IF i = 0 THEN new
            ELSE LET e == s.slots[i - 1]
                     r == upto[i - 1]
                 IN  IF e = None THEN r ELSE Placed(r, FindFree(r, e.key), e)
    IN  upto[s.cap]

\* Mutant: a dropped entry leaves an empty byte behind.
Dropped_Empty(s, i) ==
    [CtrlSet(s, i, EMPTY) EXCEPT
        !.slots[i] = None, !.bytes = @ - s.slots[i].size, !.used = @ - 1]

\* slot_drop().
Dropped(s, i) ==
    [CtrlSet(s, i, DELETED) EXCEPT
        !.slots[i] = None, !.bytes = @ - s.slots[i].size,
        !.used = @ - 1, !.tomb = @ + 1]

Full(s) == {i \in DOMAIN s.slots : s.slots[i] # None}
Lapsed(e) == e.expiry # 0 /\ e.expiry <= now

\* shard_evict_one(): the hand goes round twice at most, clearing reference
\* bits, and takes the first entry that has expired, or is neither pinned nor
\* referenced.  What the hand passes on step n, and what it takes:
Passed(s, n) == (s.hand + n) % s.cap
\* Mutant: pinned entries are taken like the others.
Victims_All(s) ==
    {n \in 0 .. 2 * s.cap - 1 :
        LET e == s.slots[Passed(s, n)] IN e # None /\ (Lapsed(e) \/ ~e.ref \/ n >= s.cap)}
Victims(s) ==
    {n \in 0 .. 2 * s.cap - 1 :
        LET e == s.slots[Passed(s, n)]
        IN  e # None /\ (Lapsed(e) \/ (~e.pinned /\ (~e.ref \/ n >= s.cap)))}
Evicted(s) ==
    LET n == Min(Victims(s))
        swept == {Passed(s, m) : m \in 0 .. n - 1}
    IN  Dropped([s EXCEPT
            !.hand = (@ + n + 1) % s.cap,
            !.slots = [i \in DOMAIN @ |->
                IF i \in swept /\ @[i] # None /\ ~@[i].pinned
                THEN [@[i] EXCEPT !.ref = FALSE] ELSE @[i]]], Passed(s, n))

\* elpis_cache_insert(): room within the budget, as far as eviction can make it.
Roomy(s, size) ==
    LET after[n \in 0 .. s.used] ==
            IF n = 0 THEN s
            ELSE LET r == after[n - 1]
                 IN  IF r.bytes + size > BUDGET /\ Victims(r) # {} THEN Evicted(r) ELSE r
    IN  after[s.used]

\* Grown when seven eighths of it are used or tombstones; to the same size when
\* it is the tombstones.
Grown(s) ==
    IF (s.used + s.tomb + 1) * 8 <= s.cap * 7 THEN s
    ELSE Rehashed(s, Max({MIN_CAP, IF (s.used + 1) * 2 > s.cap THEN s.cap * 2 ELSE s.cap}))

Inserted(s, e) ==
    LET i == FindFree(s, e.key)
    IN  [Placed(s, i, e) EXCEPT
            !.tomb = IF s.ctrl[i] = DELETED THEN @ - 1 ELSE @, !.bytes = @ + e.size]

Insert(k, entry) ==
    LET e == [key |-> k, ref |-> TRUE] @@ entry
        i == FindSlot(t, k)
        roomy == Roomy(t, e.size)
    IN  /\ t' = IF i # None
                THEN [t EXCEPT !.slots[i] = e, !.bytes = @ - t.slots[i].size + e.size]
                ELSE IF roomy.bytes + e.size > BUDGET /\ ~e.pinned THEN roomy
                ELSE Inserted(Grown(roomy), e)
        /\ now' = now

\* elpis_cache_read_begin() and elpis_cache_read_end(): the entry is marked as
\* referenced, and copied by the caller.
Read(k) ==
    LET i == FindSlot(t, k)
    IN  /\ t' = IF i = None THEN t ELSE [t EXCEPT !.slots[i].ref = TRUE]
        /\ now' = now

\* elpis_cache_remove().
Remove(k) ==
    /\ FindSlot(t, k) # None
    /\ t' = Dropped(t, FindSlot(t, k))
    /\ now' = now

\* elpis_cache_flush(): the table keeps its size and its hand.
Flush ==
    /\ t' = [Alloc(t.cap) EXCEPT !.hand = t.hand] @@ [bytes |-> 0]
    /\ now' = now

\* elpis_cache_expire(): a few slots from where the hand is.
Expire ==
    LET swept == {Passed(t, n) : n \in 0 .. PER - 1}
        gone == {i \in swept \cap Full(t) : Lapsed(t.slots[i])}
        upto[n \in 0 .. t.cap] ==
            IF n = 0 THEN t
            ELSE IF n - 1 \in gone THEN Dropped(upto[n - 1], n - 1) ELSE upto[n - 1]
    IN  t' = [upto[t.cap] EXCEPT !.hand = (@ + PER) % t.cap] /\ now' = now

Tick == now < MaxNow /\ now' = now + 1 /\ t' = t

Next ==
    \/ \E k \in Keys : Read(k) \/ Remove(k) \/ \E e \in Entries : Insert(k, e)
    \/ Flush \/ Expire \/ Tick

Spec == Init /\ [][Next]_vars
-----------------------------------------------------------------------------
(* Properties                                                              *)

\* The books of a shard: the control bytes, with their copy, say what the slots
\* hold, and the counters and the bytes charged add up.
Sound ==
    /\ \A i \in 0 .. t.cap - 1 :
         t.slots[i] # None <=> t.ctrl[i] \notin {EMPTY, DELETED}
    /\ \A i \in Full(t) : t.ctrl[i] = Tag(t.slots[i].key)
    /\ \A i \in 0 .. GROUP - 1 : t.ctrl[t.cap + i] = t.ctrl[i]
    /\ t.used = Cardinality(Full(t))
    /\ t.tomb = Cardinality({i \in 0 .. t.cap - 1 : t.ctrl[i] = DELETED})
    /\ t.bytes = MapThenSumSet(LAMBDA i : t.slots[i].size, Full(t))

Held(k) == {i \in Full(t) : t.slots[i].key = k}

\* A lookup, which ends at the first group with an empty byte and passes over
\* tombstones, finds the one slot that holds the key whenever there is one: no
\* order of insertions, removals, evictions and growths hides an entry or leaves
\* a second, older one under the same key.
Finds ==
    \A k \in Keys : Held(k) = {FindSlot(t, k)} \ {None}

\* The map that the slots stand for.
Value(e) == [size |-> e.size, pinned |-> e.pinned, expiry |-> e.expiry]
Store == [k \in Keys |-> LET at == Held(k)
                         IN  IF at = {} THEN None ELSE Value(t.slots[CHOOSE i \in at : TRUE])]
Map == INSTANCE CacheMap WITH store <- Store

\* The table is that map: a replacement, an eviction, a sweep of the hand or a
\* growth loses no entry but to make room, to expiry or on request, none that is
\* pinned to make room, and no more than it takes; and an entry is refused only
\* when dropping all that may be dropped would not make room for it.
ImplementsMap == Map!Spec
=============================================================================
