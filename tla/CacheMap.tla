------------------------------ MODULE CacheMap ------------------------------
(***************************************************************************)
(* What one shard of the cache table promises its users, the message, the  *)
(* RRset and the delegation cache (src/include/elpis/cache.h): a map from  *)
(* keys to entries that loses an entry only to make room, because it has   *)
(* expired or because it was told to.                                      *)
(***************************************************************************)
EXTENDS Integers, FiniteSets, FiniteSetsExt

CONSTANTS Keys, Entries,        \* entries: records with size, pinned and expiry
          None, BUDGET          \* bytes_max

VARIABLES store,                \* the map: each key's entry, or None
          now                   \* elpis_cached_now_s()
vars == <<store, now>>

Present == {k \in Keys : store[k] # None}
Bytes(S) == MapThenSumSet(LAMBDA k : store[k].size, S)
Expired(k) == store[k].expiry # 0 /\ store[k].expiry <= now
Evictable == {k \in Present : ~store[k].pinned \/ Expired(k)}
Without(S) == [k \in Keys |-> IF k \in S THEN None ELSE store[k]]

Init == store = [k \in Keys |-> None] /\ now = 1

\* A new entry takes the place of the old one under its key, whatever its size.
Replace(k, e) ==
    /\ store[k] # None /\ store' = [store EXCEPT ![k] = e] /\ now' = now

\* A new key is made room for, by dropping entries that are not pinned, and no
\* more of them than it takes; it is refused when that is not enough, unless it
\* is pinned itself.
Add(k, e) ==
    LET V == {v \in Present : store'[v] = None}
        fits(S) == Bytes(Present \ S) + e.size <= BUDGET
    IN  /\ store[k] = None
        /\ store' = IF fits(V) \/ e.pinned THEN [Without(V) EXCEPT ![k] = e] ELSE Without(V)
        /\ V \subseteq Evictable
        /\ fits(V) \/ V = Evictable
        /\ V # {} => \E v \in V : ~fits(V \ {v})
        /\ now' = now

Remove(k) ==
    store[k] # None /\ store' = Without({k}) /\ now' = now

Flush == store' = Without(Keys) /\ now' = now

Expire ==
    LET V == {v \in Present : store'[v] = None}
    IN  store' = Without(V) /\ (\A v \in V : Expired(v)) /\ now' = now

Tick == now' > now /\ store' = store

Next ==
    \/ \E k \in Keys : Remove(k) \/ \E e \in Entries : Replace(k, e) \/ Add(k, e)
    \/ Flush \/ Expire \/ Tick

Spec == Init /\ [][Next]_vars
=============================================================================
