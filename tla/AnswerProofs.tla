---------------------------- MODULE AnswerProofs -----------------------------
(***************************************************************************)
(* Proofs about Answer: what a client is told is earned, for any names,      *)
(* aliases, zones, subnets and number of resolutions at once.                *)
(*                                                                         *)
(* The cache and the resolutions rest on one another: a status that is       *)
(* linked to the cache's is true of the answer only if the cache's are true  *)
(* of what it holds, and what it holds was written back by resolutions.  So  *)
(* the invariant is of the RRsets, of the messages and of every resolution   *)
(* under way at once, and each action is shown to keep it.                   *)
(***************************************************************************)
EXTENDS Answer, TLAPS

\* An RRset of the cache: its key says what it is, a verdict is true of it, and
\* what was learnt for want of a subnet is marked.
RcOK(wd, k, e) ==
    /\ k[2] = "T" => (e.neg <=> wd.has[k[1]] # "data")
    /\ k[2] = "CNAME" => ~e.neg /\ wd.has[k[1]] = "alias"
    /\ k[2] = "NX" => e.neg
    /\ e.neg => e.sec = "unchecked"
    /\ e.sec = "secure" => e.ver # 0 /\ k[1] \in wd.signed
    /\ e.sec = "insecure" => k[1] \notin wd.signed
    /\ e.view = "here" /\ ~e.neg => e.local

\* A status holds of every link, but for what came behind it.
ProvenIn(wd, r) == r.ver # 0 /\ r.own \in wd.signed
FailsIn(wd, r) == r.ver = 0 /\ r.own \in wd.signed
Vouched(wd, t) ==
    ~t.behind => /\ t.sec = "secure" => \A r \in t.ans : ProvenIn(wd, r)
                 /\ t.sec \in {"secure", "insecure"} => \A r \in t.ans : ~FailsIn(wd, r)

\* Where a resolution is: nothing at first, no verdict of its own before its end.
Staged(t) ==
    /\ t.stage \in {"look", "ask"} /\ t.restarts = 0 => t.ans = {} /\ t.sec = "unchecked"
    /\ t.stage # "finish" => t.sec \in {"unchecked", "insecure", "secure"}
    /\ t.sec = "indeterminate" => t.lost

\* The data is that of the name the chain has come to, while it goes on, and an
\* answer left unchecked has none.
Placed(wd, t) ==
    /\ \A r \in t.ans : /\ r.typ = "T" => /\ t.stage # "finish" => r.own = t.qname
                                         /\ wd.has[r.own] = "data"
                        /\ r.typ = "CNAME" => wd.has[r.own] = "alias"
    /\ t.stage = "finish" /\ ~t.cd /\ t.rcode = "ok" /\ t.sec = "unchecked" =>
          \A r \in t.ans : r.typ # "T"

\* Whom the records are for.
Viewed(t) ==
    \A r \in t.ans : /\ r.view \in Subnets => t.sub = r.view /\ t.tailored
                     /\ r.view = "here" /\ r.typ # "SOA" => t.sub = Nil /\ t.local

\* Two versions of an RRset only off the wire, and no signature has run out.
Single(wd, t) ==
    /\ \A r \in t.ans : r.age # "lapsed"
    /\ ~t.twice => \A r, s \in t.ans : r.own = s.own /\ r.typ = s.typ => r.ver = s.ver
    /\ t.sec = "bogus" => t.twice \/ \E r \in t.ans : FailsIn(wd, r)

TaskOK(wd, t) == Vouched(wd, t) /\ Staged(t) /\ Placed(wd, t) /\ Viewed(t) /\ Single(wd, t)

\* A message of the cache, under the key it is found by.
McOK(wd, k, e) ==
    /\ e.ad /\ ~e.behind => \A r \in e.recs : ProvenIn(wd, r)
    /\ ~k[2] /\ ~e.behind /\ e.rcode = "ok" /\ (\E r \in e.recs : r.typ = "T") =>
          \A r \in e.recs : ~FailsIn(wd, r)
    /\ \A r \in e.recs : /\ r.view \in Subnets => k[3] = r.view
                         /\ r.view = "here" /\ r.typ # "SOA" => k[3] = "all" /\ e.local

\* Before there is a world there is nothing.
Blank ==
    world = Nil => /\ \A k \in Keys : rc[k] = Nil
                   /\ \A k \in MKeys : mc[k] = Nil
                   /\ \A i \in Tasks : task[i] = Free

RcInv == \A k \in Keys : rc[k] # Nil => RcOK(world, k, rc[k])
McInv == \A k \in MKeys : mc[k] # Nil => McOK(world, k, mc[k])
TaskInv == \A i \in Tasks : task[i] # Free => TaskOK(world, task[i])
IInv == TypeOK /\ Blank /\ RcInv /\ McInv /\ TaskInv
-----------------------------------------------------------------------------
(* Records and resolutions                                                 *)

\* The fields of a resolution.
LEMMA ResolutionFields ==
    ASSUME NEW t \in Resolutions
    PROVE  /\ t.stage \in {"look", "ask", "judge", "finish"} /\ t.orig \in Names /\ t.qname \in Names
           /\ t.cd \in BOOLEAN /\ t.sub \in Subnets \cup {Nil} /\ t.refresh \in BOOLEAN
           /\ t.again \in BOOLEAN /\ t.restarts \in Nat /\ t.ans \subseteq Recs
           /\ t.rcode \in {"ok", "nx", "servfail"} /\ t.sec \in Secs /\ t.tailored \in BOOLEAN
           /\ t.local \in BOOLEAN /\ t.lost \in BOOLEAN /\ t.twice \in BOOLEAN
           /\ t.behind \in BOOLEAN
    BY DEF Resolutions

\* A resolution is not a free slot, and its stage tells.
LEMMA NotFree ==
    /\ \A t \in Resolutions : t # Free
    /\ \A t \in Resolutions \cup {Free} :
         t.stage \in {"look", "ask", "judge", "finish"} => t \in Resolutions
    BY DEF Resolutions, Free

\* chain_sec() links no more than both links are worth.
LEMMA LinkedIsWeakest ==
    ASSUME NEW a \in {"unchecked", "insecure", "secure"},
           NEW b \in {"unchecked", "insecure", "secure"}
    PROVE  /\ Linked(a, b) \in {"unchecked", "insecure", "secure"}
           /\ Linked(a, b) = "secure" => a = "secure" /\ b = "secure"
           /\ Linked(a, b) \in {"secure", "insecure"} =>
                 a \in {"secure", "insecure"} /\ b \in {"secure", "insecure"}
<1>1. CASE "unchecked" \in {a, b}
    BY <1>1 DEF Linked
<1>2. CASE "unchecked" \notin {a, b}
    <2>1. a \in {"insecure", "secure"} /\ b \in {"insecure", "secure"}
        BY <1>2
    <2>2. Rank["insecure"] = 2 /\ Rank["secure"] = 3
        BY DEF Rank
    <2> QED
        BY <2>1, <2>2, <1>2 DEF Linked
<1> QED
    BY <1>1, <1>2

\* The record an RRset of the cache becomes.
OfCache(k, e) ==
    [own |-> k[1], typ |-> IF e.neg THEN "SOA" ELSE k[2], ver |-> e.ver, age |-> e.age,
     view |-> e.view]

\* It is a record, with the fields of the RRset.
LEMMA CacheRecord ==
    ASSUME NEW wd, NEW k \in Keys, NEW e \in RcEntries, RcOK(wd, k, e)
    PROVE  /\ OfCache(k, e) \in Recs
           /\ OfCache(k, e).own = k[1] /\ OfCache(k, e).ver = e.ver
           /\ OfCache(k, e).age = e.age /\ OfCache(k, e).view = e.view
           /\ e.neg => OfCache(k, e).typ = "SOA"
           /\ ~e.neg => OfCache(k, e).typ = k[2] /\ k[2] # "NX"
    BY DEF OfCache, Recs, RcEntries, Keys, RcOK

\* A link taken from the cache.
WithLink(t, a, s, l) == [t EXCEPT !.ans = a, !.sec = s, !.local = l]

\* Taken() as such a step, and the types of what it writes.
LEMMA TakenFields ==
    ASSUME NEW wd, NEW t \in Resolutions, NEW k \in Keys, NEW e \in RcEntries, RcOK(wd, k, e),
           t.sec \in {"unchecked", "insecure", "secure"}, NEW l, l = (t.local \/ e.local)
    PROVE  /\ Taken(t, k, e) =
                 WithLink(t, Added(t.ans, OfCache(k, e)), Chained(t, e.sec), l)
           /\ Added(t.ans, OfCache(k, e)) \in SUBSET Recs
           /\ Chained(t, e.sec) \in {"unchecked", "insecure", "secure"}
           /\ l \in BOOLEAN
<1>1. Taken(t, k, e) = WithLink(t, Added(t.ans, OfCache(k, e)), Chained(t, e.sec), l)
    BY DEF Taken, OfCache, WithLink
<1>2. Added(t.ans, OfCache(k, e)) \in SUBSET Recs
    BY CacheRecord, ResolutionFields DEF Added
<1>3. e.sec \in {"unchecked", "insecure", "secure"} /\ e.local \in BOOLEAN
    BY DEF RcEntries
<1>4. Chained(t, e.sec) \in {"unchecked", "insecure", "secure"}
    BY <1>3, LinkedIsWeakest DEF Chained
<1> QED
    BY <1>1, <1>2, <1>3, <1>4, ResolutionFields

\* A resolution that has gone on from one link.
Stepped(t, st, q, n, a, s, l, c) ==
    [t EXCEPT !.stage = st, !.qname = q, !.restarts = n, !.ans = a, !.sec = s, !.local = l,
              !.rcode = c]

\* Its fields and its type.
LEMMA Onward ==
    ASSUME NEW t \in Resolutions,
           NEW st \in {"look", "ask", "judge", "finish"}, NEW q \in Names, NEW n \in Nat,
           NEW a \in SUBSET Recs, NEW s \in Secs, NEW l \in BOOLEAN,
           NEW c \in {"ok", "nx", "servfail"}
    PROVE  LET u == Stepped(t, st, q, n, a, s, l, c) IN
           /\ u \in Resolutions
           /\ u.stage = st /\ u.qname = q /\ u.restarts = n /\ u.ans = a /\ u.sec = s
           /\ u.local = l /\ u.rcode = c
           /\ u.orig = t.orig /\ u.cd = t.cd /\ u.sub = t.sub /\ u.refresh = t.refresh
           /\ u.again = t.again /\ u.tailored = t.tailored /\ u.lost = t.lost
           /\ u.twice = t.twice /\ u.behind = t.behind
    BY Zenon DEF Stepped, Resolutions

\* The steps of cache_try() as such: the data found, an alias, a denial.
Found(v, st) == [v EXCEPT !.stage = st]
Followed(v, q, n, st) == [v EXCEPT !.qname = q, !.restarts = n, !.stage = st]
Denied(v, m) == [v EXCEPT !.rcode = "nx", !.stage = "finish", !.local = m]

\* Exact() is a step of that form...
LEMMA FoundForm ==
    ASSUME NEW t \in Resolutions, NEW a \in SUBSET Recs, NEW s \in Secs, NEW l \in BOOLEAN,
           NEW st \in {"look", "ask", "judge", "finish"}
    PROVE  Found(WithLink(t, a, s, l), st) =
              Stepped(t, st, t.qname, t.restarts, a, s, l, t.rcode)
    BY Zenon DEF WithLink, Found, Stepped, Resolutions

\* ... and so is Alias()...
LEMMA FollowedForm ==
    ASSUME NEW t \in Resolutions, NEW a \in SUBSET Recs, NEW s \in Secs, NEW l \in BOOLEAN,
           NEW st \in {"look", "ask"}, NEW q \in Names, NEW n \in Nat
    PROVE  Followed(WithLink(t, a, s, l), q, n, st) = Stepped(t, st, q, n, a, s, l, t.rcode)
    BY Zenon DEF WithLink, Followed, Stepped, Resolutions

\* ... and so is Gone().
LEMMA DeniedForm ==
    ASSUME NEW t \in Resolutions, NEW a \in SUBSET Recs, NEW s \in Secs, NEW l \in BOOLEAN,
           NEW m \in BOOLEAN
    PROVE  Denied(WithLink(t, a, s, l), m) =
              Stepped(t, "finish", t.qname, t.restarts, a, s, m, "nx")
    BY Zenon DEF WithLink, Denied, Stepped, Resolutions

\* A link from the cache leaves the answer vouched for by its status.
LEMMA TakenIsVouched ==
    ASSUME NEW wd, NEW t \in Resolutions, TaskOK(wd, t), t.stage = "look",
           NEW k \in Keys, NEW e \in RcEntries, RcOK(wd, k, e), ~t.behind
    PROVE  /\ Chained(t, e.sec) = "secure" =>
                 \A r \in Added(t.ans, OfCache(k, e)) : ProvenIn(wd, r)
           /\ Chained(t, e.sec) \in {"secure", "insecure"} =>
                 \A r \in Added(t.ans, OfCache(k, e)) : ~FailsIn(wd, r)
<1> DEFINE x == OfCache(k, e)
<1>1. x.own = k[1] /\ x.ver = e.ver
    BY CacheRecord
<1>2. e.sec \in {"unchecked", "insecure", "secure"} /\ t.restarts \in Nat
    BY DEF RcEntries, Resolutions
<1>3. /\ e.sec = "secure" => ProvenIn(wd, x)
      /\ e.sec \in {"secure", "insecure"} => ~FailsIn(wd, x)
    BY <1>1 DEF RcOK, ProvenIn, FailsIn
<1>4. \A r \in Added(t.ans, x) : r \in t.ans \/ r = x
    BY DEF Added
<1>5. CASE t.restarts = 0
    <2>1. t.ans = {} /\ Chained(t, e.sec) = e.sec
        BY <1>5 DEF TaskOK, Staged, Chained
    <2> QED
        BY <1>3, <1>4, <2>1
<1>6. CASE t.restarts # 0
    <2>1. t.sec \in {"unchecked", "insecure", "secure"} /\ Chained(t, e.sec) = Linked(t.sec, e.sec)
        BY <1>6 DEF TaskOK, Staged, Chained
    <2>2. /\ Chained(t, e.sec) = "secure" => t.sec = "secure" /\ e.sec = "secure"
          /\ Chained(t, e.sec) \in {"secure", "insecure"} =>
                t.sec \in {"secure", "insecure"} /\ e.sec \in {"secure", "insecure"}
        BY <1>2, <2>1, LinkedIsWeakest
    <2>3. /\ t.sec = "secure" => \A r \in t.ans : ProvenIn(wd, r)
          /\ t.sec \in {"secure", "insecure"} => \A r \in t.ans : ~FailsIn(wd, r)
        BY DEF TaskOK, Vouched
    <2> QED
        BY <1>3, <1>4, <2>2, <2>3
<1> QED
    BY <1>5, <1>6

\* It is of the name the chain has come to, or a denial.
LEMMA TakenIsPlaced ==
    ASSUME NEW wd, NEW t \in Resolutions, TaskOK(wd, t), t.stage = "look",
           NEW k \in Keys, NEW e \in RcEntries, RcOK(wd, k, e), e.neg \/ k[1] = t.qname,
           NEW r \in Added(t.ans, OfCache(k, e))
    PROVE  /\ r.typ = "T" => r.own = t.qname /\ wd.has[r.own] = "data"
           /\ r.typ = "CNAME" => wd.has[r.own] = "alias"
<1>1. CASE r \in t.ans
    BY <1>1 DEF TaskOK, Placed
<1>2. CASE r = OfCache(k, e)
    <2>1. /\ r.own = k[1] /\ e.neg => r.typ = "SOA"
          /\ e.neg \in BOOLEAN
          /\ ~e.neg => r.typ = k[2]
        BY <1>2, CacheRecord DEF RcEntries
    <2> QED
        BY <1>2, <2>1, CacheRecord DEF RcOK
<1> QED
    BY <1>1, <1>2 DEF Added

\* It is for everyone, or for a client without a subnet, or a denial.
LEMMA TakenIsViewed ==
    ASSUME NEW wd, NEW t \in Resolutions, TaskOK(wd, t), NEW k \in Keys, NEW e \in RcEntries,
           RcOK(wd, k, e), NEW l \in BOOLEAN, t.local => l, ~e.neg /\ e.local => l /\ t.sub = Nil,
           NEW r \in Added(t.ans, OfCache(k, e))
    PROVE  /\ r.view \in Subnets => t.sub = r.view /\ t.tailored
           /\ r.view = "here" /\ r.typ # "SOA" => t.sub = Nil /\ l
<1>1. CASE r \in t.ans
    BY <1>1 DEF TaskOK, Viewed
<1>2. CASE r = OfCache(k, e)
    <2>1. /\ r.view = e.view /\ e.neg => r.typ = "SOA"
          /\ e.neg \in BOOLEAN /\ e.view \in {"all", "here"}
        BY <1>2, CacheRecord DEF RcEntries
    <2>2. r.view = e.view
        BY <1>2, CacheRecord
    <2> QED
        BY <2>1, <2>2, NilAssumption DEF RcOK
<1> QED
    BY <1>1, <1>2 DEF Added

\* It is added only where the answer has no copy, and its signatures stand.
LEMMA TakenIsSingle ==
    ASSUME NEW wd, NEW t \in Resolutions, TaskOK(wd, t), NEW k \in Keys, NEW e \in RcEntries,
           RcOK(wd, k, e), e.age # "lapsed"
    PROVE  /\ \A r \in Added(t.ans, OfCache(k, e)) : r.age # "lapsed"
           /\ ~t.twice => \A r, s \in Added(t.ans, OfCache(k, e)) :
                            r.own = s.own /\ r.typ = s.typ => r.ver = s.ver
<1> DEFINE x == OfCache(k, e)
<1>1. x.age # "lapsed"
    BY CacheRecord
<1>2. \A r \in Added(t.ans, x) : r \in t.ans \/ (r = x /\ ~Has(t.ans, <<x.own, x.typ>>))
    BY DEF Added
<1>3. ~Has(t.ans, <<x.own, x.typ>>) => \A r \in t.ans : ~(r.own = x.own /\ r.typ = x.typ)
    BY DEF Has
<1> HIDE DEF x
<1> QED
    BY <1>1, <1>2, <1>3 DEF TaskOK, Single, x

\* A resolution that has taken a link from the cache is sound again: one that
\* follows an alias leaves no data behind, and one that ends unchecked ends with
\* a denial of the data.
LEMMA AfterTaken ==
    ASSUME NEW wd, NEW t \in Resolutions, TaskOK(wd, t), t.stage = "look",
           NEW k \in Keys, NEW e \in RcEntries, RcOK(wd, k, e), e.age # "lapsed",
           e.neg \/ k[1] = t.qname,
           NEW st \in {"look", "ask", "judge", "finish"}, NEW q \in Names, NEW n \in Nat,
           NEW l \in BOOLEAN, NEW c \in {"ok", "nx", "servfail"},
           t.local => l, ~e.neg /\ e.local => l /\ t.sub = Nil,
           st \in {"look", "ask"} => n # 0,
           q = t.qname \/ wd.has[t.qname] = "alias",
           st = "finish" /\ c = "ok" /\ Chained(t, e.sec) = "unchecked" =>
               wd.has[t.qname] # "data"
    PROVE  LET u == Stepped(t, st, q, n, Added(t.ans, OfCache(k, e)), Chained(t, e.sec), l, c)
           IN  u \in Resolutions /\ TaskOK(wd, u)
<1> DEFINE a == Added(t.ans, OfCache(k, e))
           s == Chained(t, e.sec)
           u == Stepped(t, st, q, n, a, s, l, c)
<1>1. t.sec \in {"unchecked", "insecure", "secure"}
    BY DEF TaskOK, Staged
<1>2. a \in SUBSET Recs /\ s \in {"unchecked", "insecure", "secure"}
    BY <1>1, TakenFields
<1>3. s \in Secs
    BY <1>2 DEF Secs
<1>4. /\ ~t.behind => /\ s = "secure" => \A r \in a : ProvenIn(wd, r)
                      /\ s \in {"secure", "insecure"} => \A r \in a : ~FailsIn(wd, r)
    BY TakenIsVouched
<1>5. \A r \in a : /\ r.typ = "T" => r.own = t.qname /\ wd.has[r.own] = "data"
                   /\ r.typ = "CNAME" => wd.has[r.own] = "alias"
    BY TakenIsPlaced
<1>6. \A r \in a : /\ r.view \in Subnets => t.sub = r.view /\ t.tailored
                   /\ r.view = "here" /\ r.typ # "SOA" => t.sub = Nil /\ l
    BY TakenIsViewed
<1>7. /\ \A r \in a : r.age # "lapsed"
      /\ ~t.twice => \A r, x \in a : r.own = x.own /\ r.typ = x.typ => r.ver = x.ver
    BY TakenIsSingle
<1> SUFFICES u \in Resolutions /\ TaskOK(wd, u)
    OBVIOUS
<1> HIDE DEF a, s
<1>8. /\ u \in Resolutions
      /\ u.stage = st /\ u.qname = q /\ u.restarts = n /\ u.ans = a /\ u.sec = s
      /\ u.local = l /\ u.rcode = c
      /\ u.cd = t.cd /\ u.sub = t.sub /\ u.tailored = t.tailored /\ u.lost = t.lost
      /\ u.twice = t.twice /\ u.behind = t.behind
    BY <1>2, <1>3, Onward
<1> HIDE DEF u
<1>9. Vouched(wd, u)
    BY <1>8, <1>4 DEF Vouched
<1>10. Staged(u)
    <2>1. st \in {"look", "ask"} /\ n = 0 => FALSE
        OBVIOUS
    <2> QED
        BY <1>8, <1>2, <2>1 DEF Staged
<1>11. Placed(wd, u)
    <2>1. \A r \in a : /\ r.typ = "T" => r.own = q /\ wd.has[r.own] = "data"
                       /\ r.typ = "CNAME" => wd.has[r.own] = "alias"
        BY <1>5
    <2>2. st = "finish" /\ c = "ok" /\ s = "unchecked" => \A r \in a : r.typ # "T"
        BY <1>5 DEF s
    <2> QED
        BY <1>8, <2>1, <2>2 DEF Placed
<1>12. Viewed(u)
    BY <1>8, <1>6 DEF Viewed
<1>13. Single(wd, u)
    BY <1>8, <1>7, <1>2 DEF Single
<1> QED
    BY <1>8, <1>9, <1>10, <1>11, <1>12, <1>13 DEF TaskOK

-----------------------------------------------------------------------------
(* The actions                                                             *)

\* Once there is a world, it is one of the worlds.
LEMMA AWorld ==
    ASSUME IInv, world # Nil
    PROVE  /\ world \in Worlds
           /\ world.has \in [Names -> {"alias", "data", "nodata", "nx"}]
           /\ world.to \in [Names -> Names]
    BY WorldsAssumption DEF IInv, TypeOK

\* A resolution under way: there is a world, and it is sound.
LEMMA UnderWay ==
    ASSUME IInv, NEW i \in Tasks, task[i].stage \in {"look", "ask", "judge", "finish"}
    PROVE  /\ task[i] \in Resolutions /\ TaskOK(world, task[i])
           /\ world # Nil
<1>1. task[i] \in Resolutions
    BY NotFree DEF IInv, TypeOK
<1>2. task[i] # Free
    BY <1>1, NotFree
<1> QED
    BY <1>1, <1>2 DEF IInv, TaskInv, Blank

\* An entry of the cache, where there is one.
LEMMA AnEntry ==
    ASSUME IInv, NEW k \in Keys, rc[k] # Nil
    PROVE  rc[k] \in RcEntries /\ RcOK(world, k, rc[k])
    BY DEF IInv, TypeOK, RcInv

\* A step of one resolution that leaves the caches alone.
LEMMA TaskStep ==
    ASSUME IInv, NEW i \in Tasks, NEW u \in Resolutions, TaskOK(world, u), world # Nil,
           task' = [task EXCEPT ![i] = u], UNCHANGED <<world, mc>>
    PROVE  /\ task' \in [Tasks -> Resolutions \cup {Free}] /\ TaskInv'
           /\ world' \in Worlds \cup {Nil} /\ Blank'
           /\ mc' \in [MKeys -> McEntries \cup {Nil}] /\ McInv'
<1>1. task \in [Tasks -> Resolutions \cup {Free}]
    BY DEF IInv, TypeOK
<1>2. \A j \in Tasks : task'[j] = IF j = i THEN u ELSE task[j]
    BY <1>1
<1>3. TaskInv'
    BY <1>2 DEF IInv, TaskInv
<1> QED
    BY <1>1, <1>3 DEF IInv, TypeOK, Blank, McInv

\* The same when the RRset cache is left alone too.
LEMMA TaskStepOnly ==
    ASSUME IInv, NEW i \in Tasks, NEW u \in Resolutions, TaskOK(world, u), world # Nil,
           task' = [task EXCEPT ![i] = u], UNCHANGED <<world, mc, rc>>
    PROVE  IInv'
<1>1. /\ task' \in [Tasks -> Resolutions \cup {Free}] /\ TaskInv'
      /\ world' \in Worlds \cup {Nil} /\ Blank'
      /\ mc' \in [MKeys -> McEntries \cup {Nil}] /\ McInv'
    BY TaskStep, Zenon
<1>2. rc' \in [Keys -> RcEntries \cup {Nil}] /\ RcInv'
    BY DEF IInv, TypeOK, RcInv
<1> QED
    BY <1>1, <1>2 DEF IInv, TypeOK

\* cache_try() finds the data, or its denial.
LEMMA ExactKeeps ==
    ASSUME IInv, NEW i \in Tasks, Exact(i)
    PROVE  IInv'
<1> DEFINE t == task[i]
           k == <<t.qname, "T">>
           e == rc[k]
           st == IF ~e.neg /\ Chained(t, e.sec) = "unchecked" THEN "judge" ELSE "finish"
           l == t.local \/ e.local
           u == Stepped(t, st, t.qname, t.restarts, Added(t.ans, OfCache(k, e)),
                        Chained(t, e.sec), l, t.rcode)
<1>1. t.stage = "look" /\ Usable(t, e) /\ UNCHANGED <<world, rc, mc>>
    BY DEF Exact
<1>2. t \in Resolutions /\ TaskOK(world, t) /\ world # Nil
    BY <1>1, UnderWay
<1>3. k \in Keys /\ e \in RcEntries /\ RcOK(world, k, e)
    BY <1>1, <1>2, AnEntry, ResolutionFields DEF Keys, Usable
<1>4. t.sec \in {"unchecked", "insecure", "secure"}
    BY <1>1, <1>2 DEF TaskOK, Staged
<1>5. task' = [task EXCEPT ![i] = [Taken(t, k, e) EXCEPT
                  !.stage = IF ~e.neg /\ Taken(t, k, e).sec = "unchecked" THEN "judge"
                            ELSE "finish"]]
    BY DEF Exact
<1> HIDE DEF t, k, e
<1>6. l = (t.local \/ e.local)
    OBVIOUS
<1> HIDE DEF l
<1>7. /\ Taken(t, k, e) =
             WithLink(t, Added(t.ans, OfCache(k, e)), Chained(t, e.sec), l)
      /\ Added(t.ans, OfCache(k, e)) \in SUBSET Recs
      /\ Chained(t, e.sec) \in {"unchecked", "insecure", "secure"}
      /\ l \in BOOLEAN
    BY <1>2, <1>3, <1>4, <1>6, TakenFields
<1>8. Chained(t, e.sec) \in Secs
    BY <1>7 DEF Secs
<1>9. Taken(t, k, e).sec = Chained(t, e.sec)
    BY <1>2, <1>7 DEF WithLink, Resolutions
<1>10. st \in {"look", "ask", "judge", "finish"}
    OBVIOUS
<1>11. st \notin {"look", "ask"}
    OBVIOUS
<1>12. st = "finish" /\ Chained(t, e.sec) = "unchecked" => e.neg
    BY <1>3 DEF RcEntries
<1>13. (t.local => l) /\ (e.local => l)
    BY <1>6, Zenon
<1>14. task' = [task EXCEPT ![i] = Found(Taken(t, k, e), st)]
    BY <1>5, <1>9 DEF Found
<1> HIDE DEF st
<1>15. Found(Taken(t, k, e), st) = u
    BY <1>2, <1>7, <1>10, <1>8, FoundForm
<1>16. task' = [task EXCEPT ![i] = u]
    BY <1>14, <1>15
<1>17. u \in Resolutions /\ TaskOK(world, u)
    <2>1. k[1] = t.qname /\ k[2] = "T"
        BY DEF k
    <2>2. e.age # "lapsed" /\ (e.local => t.sub = Nil)
        BY <1>1 DEF Usable
    <2>3. /\ t.qname \in Names /\ t.restarts \in Nat /\ t.rcode \in {"ok", "nx", "servfail"}
        BY <1>2, ResolutionFields
    <2>4. st = "finish" /\ Chained(t, e.sec) = "unchecked" => world.has[t.qname] # "data"
        BY <2>1, <1>3, <1>12 DEF RcOK
    <2> QED
        BY <1>1, <1>2, <1>3, <1>7, <1>10, <1>11, <1>13, <2>1, <2>2, <2>3, <2>4, AfterTaken, SMTT(30)
<1> QED
    BY <1>1, <1>2, <1>16, <1>17, TaskStepOnly, Zenon

\* cache_try() follows an alias.
LEMMA AliasKeeps ==
    ASSUME IInv, NEW i \in Tasks, Alias(i)
    PROVE  IInv'
<1> DEFINE t == task[i]
           k == <<t.qname, "CNAME">>
           e == rc[k]
           q == world.to[t.qname]
           st == IF t.restarts < MAX_CHAIN THEN "look" ELSE "ask"
           l == t.local \/ e.local
           n == Taken(t, k, e).restarts + 1
           u == Stepped(t, st, q, n, Added(t.ans, OfCache(k, e)),
                        Chained(t, e.sec), l, t.rcode)
<1>1. t.stage = "look" /\ Usable(t, e) /\ UNCHANGED <<world, rc, mc>>
    BY DEF Alias
<1>2. t \in Resolutions /\ TaskOK(world, t) /\ world # Nil
    BY <1>1, UnderWay
<1>3. k \in Keys /\ e \in RcEntries /\ RcOK(world, k, e)
    BY <1>1, <1>2, AnEntry, ResolutionFields DEF Keys, Usable
<1>4. t.sec \in {"unchecked", "insecure", "secure"}
    BY <1>1, <1>2 DEF TaskOK, Staged
<1>5. task' = [task EXCEPT ![i] = Followed(Taken(t, k, e), q, n, st)]
    BY DEF Alias, Followed
<1>6. st \in {"look", "ask"} /\ l = (t.local \/ e.local)
    OBVIOUS
<1>7. k[1] = t.qname /\ k[2] = "CNAME"
    OBVIOUS
<1>8. t.qname \in Names /\ t.rcode \in {"ok", "nx", "servfail"} /\ t.restarts \in Nat
    BY <1>2, ResolutionFields
<1>9. q \in Names
    BY <1>2, <1>8, AWorld
<1> HIDE DEF t, k, e, l, q
<1>10. /\ Taken(t, k, e) = WithLink(t, Added(t.ans, OfCache(k, e)), Chained(t, e.sec), l)
       /\ Added(t.ans, OfCache(k, e)) \in SUBSET Recs
       /\ Chained(t, e.sec) \in {"unchecked", "insecure", "secure"}
       /\ l \in BOOLEAN
    BY <1>2, <1>3, <1>4, <1>6, TakenFields
<1>11. Chained(t, e.sec) \in Secs /\ st \in {"look", "ask"}
    BY <1>10 DEF Secs
<1>12. n \in Nat /\ n # 0
    <2>1. Taken(t, k, e).restarts = t.restarts
        BY <1>2, <1>10 DEF WithLink, Resolutions
    <2> QED
        BY <1>8, <2>1
<1> HIDE DEF st, n
<1>13. Followed(Taken(t, k, e), q, n, st) = u
    BY <1>2, <1>9, <1>10, <1>11, <1>12, FollowedForm
<1>14. u \in Resolutions /\ TaskOK(world, u)
    <2>1. e.age # "lapsed" /\ (e.local => t.sub = Nil)
        BY <1>1 DEF Usable
    <2>3. world.has[t.qname] = "alias"
        BY <1>3, <1>7 DEF RcOK
    <2>4. (t.local => l) /\ (e.local => l) /\ st \in {"look", "ask", "judge", "finish"}
        BY <1>6, Zenon
    <2>5. st # "finish"
        BY <1>6
    <2> QED
        BY <1>1, <1>2, <1>3, <1>7, <1>8, <1>9, <1>10, <1>12, <2>1, <2>3, <2>4, <2>5,
           AfterTaken, SMTT(30)
<1> QED
    BY <1>1, <1>2, <1>5, <1>13, <1>14, TaskStepOnly, Zenon

\* cache_try() finds that the name, or one above it, does not exist.
LEMMA GoneKeeps ==
    ASSUME IInv, NEW i \in Tasks, Gone(i)
    PROVE  IInv'
<1> DEFINE t == task[i]
<1>1. t.stage = "look" /\ UNCHANGED <<world, rc, mc>>
    BY DEF Gone
<1>2. t \in Resolutions /\ TaskOK(world, t) /\ world # Nil
    BY <1>1, UnderWay
<1>3. PICK k \in Denials(t) :
         task' = [task EXCEPT ![i] = Denied(Taken(t, k, rc[k]),
                    IF k[1] = t.qname THEN Taken(t, k, rc[k]).local ELSE t.local)]
    BY Zenon DEF Gone, Denied
<1> DEFINE e == rc[k]
           l == t.local \/ e.local
           m == IF k[1] = t.qname THEN Taken(t, k, e).local ELSE t.local
           u == Stepped(t, "finish", t.qname, t.restarts, Added(t.ans, OfCache(k, e)),
                        Chained(t, e.sec), m, "nx")
<1>4. t.qname \in Names /\ t.restarts \in Nat /\ t.local \in BOOLEAN
    BY <1>2, ResolutionFields
<1>5. k \in Keys /\ k[2] = "NX" /\ e # Nil /\ e.age = "fresh"
    BY <1>4, AboveAssumption DEF Denials, Keys, Usable
<1>6. e \in RcEntries /\ RcOK(world, k, e)
    BY <1>5, AnEntry
<1>7. t.sec \in {"unchecked", "insecure", "secure"}
    BY <1>1, <1>2 DEF TaskOK, Staged
<1>8. l = (t.local \/ e.local)
    OBVIOUS
<1>9. task' = [task EXCEPT ![i] = Denied(Taken(t, k, e), m)]
    BY <1>3
<1> HIDE DEF t, e, l
<1>10. /\ Taken(t, k, e) = WithLink(t, Added(t.ans, OfCache(k, e)), Chained(t, e.sec), l)
       /\ Added(t.ans, OfCache(k, e)) \in SUBSET Recs
       /\ Chained(t, e.sec) \in {"unchecked", "insecure", "secure"}
       /\ l \in BOOLEAN
    BY <1>2, <1>5, <1>6, <1>7, <1>8, TakenFields
<1>11. Chained(t, e.sec) \in Secs
    BY <1>10 DEF Secs
<1>12. m \in BOOLEAN /\ (t.local => m)
    <2>1. Taken(t, k, e).local = l
        BY <1>2, <1>10 DEF WithLink, Resolutions
    <2> QED
        BY <1>4, <1>8, <2>1, Zenon
<1> HIDE DEF m
<1>13. Denied(Taken(t, k, e), m) = u
    BY <1>2, <1>10, <1>11, <1>12, DeniedForm
<1>14. u \in Resolutions /\ TaskOK(world, u)
    <2>1. e.neg
        BY <1>5, <1>6 DEF RcOK
    <2> QED
        BY <1>1, <1>2, <1>4, <1>5, <1>6, <1>11, <1>12, <2>1, AfterTaken
<1> QED
    BY <1>1, <1>2, <1>9, <1>13, <1>14, TaskStepOnly, Zenon

\* A resolution that goes on, or gives up, with what it has.
Moved(t, st, c) == [t EXCEPT !.stage = st, !.rcode = c]

\* It stays sound.
LEMMA MovedKeeps ==
    ASSUME IInv, NEW i \in Tasks, NEW t, t = task[i], t.stage \in {"look", "ask"},
           NEW st \in {"ask", "finish"}, NEW c \in {"ok", "nx", "servfail"},
           st = "ask" => c = t.rcode, st = "finish" => c = "servfail",
           task' = [task EXCEPT ![i] = Moved(t, st, c)], UNCHANGED <<world, mc, rc>>
    PROVE  IInv'
<1> DEFINE u == Moved(t, st, c)
<1>1. t \in Resolutions /\ TaskOK(world, t) /\ world # Nil
    BY UnderWay
<1>2. /\ u \in Resolutions /\ u.stage = st /\ u.rcode = c
      /\ u.qname = t.qname /\ u.restarts = t.restarts /\ u.ans = t.ans /\ u.sec = t.sec
      /\ u.local = t.local /\ u.cd = t.cd /\ u.sub = t.sub /\ u.tailored = t.tailored
      /\ u.lost = t.lost /\ u.twice = t.twice /\ u.behind = t.behind
    BY <1>1, Zenon DEF Moved, Resolutions
<1> HIDE DEF u
<1>3. Vouched(world, u) /\ Viewed(u) /\ Single(world, u)
    BY <1>1, <1>2 DEF TaskOK, Vouched, Viewed, Single
<1>4. Staged(u)
    BY <1>1, <1>2 DEF TaskOK, Staged
<1>5. Placed(world, u)
    BY <1>1, <1>2 DEF TaskOK, Placed
<1>6. TaskOK(world, u)
    BY <1>3, <1>4, <1>5 DEF TaskOK
<1>7. task' = [task EXCEPT ![i] = u]
    BY DEF u
<1> QED
    BY <1>1, <1>2, <1>6, <1>7, TaskStepOnly, Zenon

\* cache_try() finds nothing, or is not asked.
LEMMA MissKeeps ==
    ASSUME IInv, NEW i \in Tasks, Miss(i)
    PROVE  IInv'
<1>1. task[i].stage = "look" /\ UNCHANGED <<world, rc, mc>>
    BY DEF Miss
<1>2. task[i] \in Resolutions
    BY <1>1, UnderWay
<1>3. Moved(task[i], "ask", task[i].rcode) = [task[i] EXCEPT !.stage = "ask"]
    BY <1>2, Zenon DEF Moved, Resolutions
<1>4. task' = [task EXCEPT ![i] = Moved(task[i], "ask", task[i].rcode)]
    BY <1>3, Zenon DEF Miss
<1>5. task[i].rcode \in {"ok", "nx", "servfail"}
    BY <1>2, ResolutionFields
<1> QED
    BY <1>1, <1>4, <1>5, MovedKeeps, Zenon

\* elpis_task_fail().
LEMMA FailKeeps ==
    ASSUME IInv, NEW i \in Tasks, Fail(i)
    PROVE  IInv'
<1>1. task[i].stage = "ask" /\ UNCHANGED <<world, rc, mc>>
    BY DEF Fail
<1>2. task' = [task EXCEPT ![i] = Moved(task[i], "finish", "servfail")]
    BY Zenon DEF Fail, Moved
<1> QED
    BY <1>1, <1>2, MovedKeeps, Zenon

\* A reply to t's question for n, and what it brings along: fresh records of what
\* the zones hold, for whom they were asked for, one version of each.
ReplyOK(wd, t, n, R) ==
    /\ R \subseteq Recs
    /\ \A r \in R : /\ r.age = "fresh"
                    /\ r.typ = "T" => /\ wd.has[r.own] = "data"
                                      /\ r.own = n \/ (wd.has[n] = "alias" /\ r.own = wd.to[n])
                    /\ r.typ = "CNAME" => wd.has[r.own] = "alias"
                    /\ r.typ = "SOA" => r.own = n /\ wd.has[n] \in {"nodata", "nx"}
                    /\ r.view \in Subnets => r.view = t.sub
                    /\ r.view = "here" => t.sub = Nil
    /\ \A r, s \in R : r.view = s.view
    /\ \A r, s \in R : r.own = s.own => r.ver = s.ver

\* One record of it.
OneRecord(t, n, m, w) ==
    [own |-> m, typ |-> TypeOf(m), ver |-> w, age |-> "fresh", view |-> ViewOf(t, n)]

\* It is a record, of what the zones hold under its owner.
LEMMA RecordOK ==
    ASSUME IInv, world # Nil, NEW t \in Resolutions, NEW n \in Names, NEW m \in Names,
           NEW w \in Versions(m), m = n \/ world.has[m] = "data", m # n => m = world.to[n],
           m # n => world.has[n] = "alias", NEW x, x = OneRecord(t, n, m, w)
    PROVE  /\ x \in Recs /\ x.own = m /\ x.ver = w /\ x.age = "fresh" /\ x.view = ViewOf(t, n)
           /\ x.typ = "T" => world.has[m] = "data"
           /\ x.typ = "CNAME" => world.has[m] = "alias"
           /\ x.typ = "SOA" => m = n /\ world.has[n] \in {"nodata", "nx"}
<1>1. w \in Versions3
    BY DEF Versions, Versions3
<1>2. ViewOf(t, n) \in Subnets \cup {"all", "here"}
    BY ResolutionFields DEF ViewOf
<1>3. /\ world.has[m] \in {"alias", "data", "nodata", "nx"}
      /\ TypeOf(m) \in {"T", "CNAME", "SOA"}
      /\ TypeOf(m) = "T" => world.has[m] = "data"
      /\ TypeOf(m) = "CNAME" => world.has[m] = "alias"
      /\ TypeOf(m) = "SOA" => world.has[m] \in {"nodata", "nx"}
    BY AWorld DEF TypeOf
<1>4. x \in Recs /\ x.own = m /\ x.ver = w /\ x.age = "fresh" /\ x.view = ViewOf(t, n)
    BY <1>1, <1>2, <1>3 DEF OneRecord, Recs, Ages
<1>5. x.typ = TypeOf(m)
    BY DEF OneRecord
<1> QED
    BY <1>3, <1>4, <1>5

\* Every reply is one.
LEMMA RepliesOK ==
    ASSUME IInv, world # Nil, NEW t \in Resolutions, NEW n \in Names, NEW R \in Replies(t, n)
    PROVE  ReplyOK(world, t, n, R)
<1> DEFINE m == world.to[n]
<1>1. m \in Names
    BY AWorld
<1>2. /\ ViewOf(t, n) \in Subnets => ViewOf(t, n) = t.sub
      /\ ViewOf(t, n) = "here" => t.sub = Nil
    BY NilAssumption, ResolutionFields DEF ViewOf
<1>3. CASE \E w \in Versions(n) : R = {OneRecord(t, n, n, w)}
    <2>1. PICK w \in Versions(n) : R = {OneRecord(t, n, n, w)}
        BY <1>3
    <2> DEFINE x == OneRecord(t, n, n, w)
    <2>2. /\ x \in Recs /\ x.own = n /\ x.age = "fresh" /\ x.view = ViewOf(t, n)
          /\ x.typ = "T" => world.has[n] = "data"
          /\ x.typ = "CNAME" => world.has[n] = "alias"
          /\ x.typ = "SOA" => world.has[n] \in {"nodata", "nx"}
        BY RecordOK
    <2> HIDE DEF x
    <2> QED
        BY <1>2, <2>1, <2>2 DEF ReplyOK, x
<1>4. CASE /\ world.has[n] = "alias" /\ world.has[m] = "data"
           /\ \E w \in Versions(n), v \in Versions(m) :
                 R = {OneRecord(t, n, n, w), OneRecord(t, n, m, v)}
    <2>1. PICK w \in Versions(n), v \in Versions(m) :
                 R = {OneRecord(t, n, n, w), OneRecord(t, n, m, v)}
        BY <1>4
    <2> DEFINE x == OneRecord(t, n, n, w)
               y == OneRecord(t, n, m, v)
    <2>2. /\ x \in Recs /\ x.own = n /\ x.age = "fresh" /\ x.view = ViewOf(t, n)
          /\ x.typ = "T" => world.has[n] = "data"
          /\ x.typ = "CNAME" => world.has[n] = "alias"
          /\ x.typ = "SOA" => world.has[n] \in {"nodata", "nx"}
        BY RecordOK
    <2>3. /\ y \in Recs /\ y.own = m /\ y.age = "fresh" /\ y.view = ViewOf(t, n)
          /\ y.typ = "T" => world.has[m] = "data"
          /\ y.typ = "CNAME" => world.has[m] = "alias"
          /\ y.typ = "SOA" => m = n /\ world.has[n] \in {"nodata", "nx"}
        BY <1>1, <1>4, RecordOK
    <2>4. R = {x, y} /\ m # n
        BY <1>4, <2>1
    <2> HIDE DEF x, y
    <2> QED
        BY <1>2, <1>4, <2>2, <2>3, <2>4 DEF ReplyOK
<1> QED
    BY <1>3, <1>4 DEF Replies, OneRecord

\* Where cache_message_rrsets() and cache_negative() file a record, and as what.
FiledAt(n, r) == IF r.typ = "SOA" THEN <<n, IF world.has[n] = "nx" THEN "NX" ELSE "T">>
                 ELSE <<r.own, r.typ>>
FiledAs(t, r) == [neg |-> r.typ = "SOA", ver |-> r.ver, sec |-> "unchecked", age |-> "fresh",
                  local |-> t.sub = Nil, view |-> r.view]
FiledFrom(n, R, k) == CHOOSE x \in R : FiledAt(n, x) = k

\* What cache_message_rrsets() leaves under one key.
LEMMA FiledForm ==
    ASSUME NEW t, NEW n, NEW R, NEW k \in Keys
    PROVE  /\ (\E r \in R : FiledAt(n, r) = k /\ ~Tailored(r)) =>
                 Filed(t, n, R)[k] = FiledAs(t, FiledFrom(n, R, k))
           /\ ~(\E r \in R : FiledAt(n, r) = k /\ ~Tailored(r)) => Filed(t, n, R)[k] = rc[k]
    BY DEF Filed, FiledAt, FiledAs, FiledFrom

\* It is true of the key, unchecked, and marked where it is the view from here.
LEMMA FiledSound ==
    ASSUME IInv, world # Nil, NEW t \in Resolutions, NEW n \in Names, NEW R,
           ReplyOK(world, t, n, R), UNCHANGED world, rc' = Filed(t, n, R)
    PROVE  rc' \in [Keys -> RcEntries \cup {Nil}] /\ RcInv'
<1>1. ASSUME NEW k \in Keys
      PROVE  /\ rc'[k] \in RcEntries \cup {Nil}
             /\ rc'[k] # Nil => RcOK(world, k, rc'[k])
    <2>1. CASE ~\E r \in R : FiledAt(n, r) = k /\ ~Tailored(r)
        <3>1. rc'[k] = rc[k]
            BY <2>1, FiledForm
        <3>2. rc[k] \in RcEntries \cup {Nil}
            BY DEF IInv, TypeOK
        <3> QED
            BY <3>1, <3>2, AnEntry
    <2>2. CASE \E r \in R : FiledAt(n, r) = k /\ ~Tailored(r)
        <3> DEFINE x == FiledFrom(n, R, k)
                   e == FiledAs(t, x)
        <3>1. x \in R /\ FiledAt(n, x) = k
            BY <2>2 DEF FiledFrom
        <3>2. rc'[k] = e
            BY <2>2, FiledForm
        <3> HIDE DEF x
        <3>3. ~Tailored(x)
            BY <2>2, <3>1 DEF ReplyOK, Tailored
        <3>4. x \in Recs /\ x.view \in {"all", "here"}
            BY <3>1, <3>3 DEF ReplyOK, Recs, Tailored
        <3>5. /\ x.typ \in {"T", "CNAME", "SOA"}
              /\ x.typ = "T" => world.has[x.own] = "data"
              /\ x.typ = "CNAME" => world.has[x.own] = "alias"
              /\ x.typ = "SOA" => world.has[n] \in {"nodata", "nx"}
              /\ x.view = "here" => t.sub = Nil
            BY <3>1, <3>4 DEF ReplyOK, Recs
        <3>6. e \in RcEntries
            BY <3>4 DEF FiledAs, RcEntries, Recs, Ages
        <3>7. /\ e.neg <=> x.typ = "SOA"
              /\ e.sec = "unchecked"
              /\ e.local <=> t.sub = Nil
              /\ e.view = x.view
            BY Zenon DEF FiledAs
        <3>8. /\ x.typ = "SOA" => k[1] = n /\ k[2] = IF world.has[n] = "nx" THEN "NX" ELSE "T"
              /\ x.typ # "SOA" => k[1] = x.own /\ k[2] = x.typ
            BY <3>1 DEF FiledAt
        <3> HIDE DEF e
        <3>9. RcOK(world, k, e)
            BY <3>5, <3>7, <3>8 DEF RcOK
        <3> QED
            BY <3>2, <3>6, <3>9
    <2> QED
        BY <2>1, <2>2
<1>2. DOMAIN rc' = Keys /\ rc' = [k \in Keys |-> rc'[k]]
    BY DEF Filed
<1> QED
    BY <1>1, <1>2 DEF RcInv

\* What accept_rr() and note_ecs() make of a reply.
NewOf(t, R) == {r \in R : ~\E x \in t.ans : x.own = r.own /\ x.typ = r.typ /\ x.ver = r.ver}
Hears(t, R, v) ==
    /\ v.ans = t.ans \cup NewOf(t, R)
    /\ v.behind <=> t.behind \/ t.sec # "unchecked"
    /\ v.twice <=> t.twice \/ \E r \in R : Has(t.ans, <<r.own, r.typ>>)
    /\ v.tailored <=> t.tailored \/ \E r \in R : Tailored(r)
    /\ v.local <=> t.local \/ t.sub = Nil
    /\ v.sec = t.sec /\ v.cd = t.cd /\ v.sub = t.sub /\ v.lost = t.lost

\* Kept() does that, and leaves the question and the status alone.
LEMMA KeptFields ==
    ASSUME NEW t \in Resolutions, NEW R \in SUBSET Recs
    PROVE  LET v == Kept(t, R) IN
           /\ v \in Resolutions /\ Hears(t, R, v)
           /\ v.qname = t.qname /\ v.restarts = t.restarts /\ v.rcode = t.rcode
<1> DEFINE a == t.ans \cup NewOf(t, R)
           b == t.behind \/ t.sec # "unchecked"
           w == t.twice \/ \E r \in R : Has(t.ans, <<r.own, r.typ>>)
           g == t.tailored \/ \E r \in R : Tailored(r)
           l == t.local \/ t.sub = Nil
<1>1. Kept(t, R) = [t EXCEPT !.ans = a, !.behind = b, !.twice = w, !.tailored = g, !.local = l]
    BY DEF Kept, NewOf
<1>2. a \in SUBSET Recs /\ b \in BOOLEAN /\ w \in BOOLEAN /\ g \in BOOLEAN /\ l \in BOOLEAN
    BY ResolutionFields DEF NewOf
<1> SUFFICES LET v == Kept(t, R) IN
           /\ v \in Resolutions
           /\ v.ans = a /\ v.behind = b /\ v.twice = w /\ v.tailored = g /\ v.local = l
           /\ v.qname = t.qname /\ v.restarts = t.restarts /\ v.rcode = t.rcode
           /\ v.sec = t.sec /\ v.cd = t.cd /\ v.sub = t.sub /\ v.lost = t.lost
    BY Zenon DEF Hears
<1> HIDE DEF a, b, w, g, l
<1> DEFINE u == [t EXCEPT !.ans = a, !.behind = b, !.twice = w, !.tailored = g, !.local = l]
<1>3. u \in Resolutions
    BY <1>2, Zenon DEF Resolutions
<1>4. u.ans = a /\ u.behind = b /\ u.twice = w /\ u.tailored = g /\ u.local = l
    BY DEF Resolutions
<1>5. /\ u.qname = t.qname /\ u.restarts = t.restarts /\ u.rcode = t.rcode
      /\ u.sec = t.sec /\ u.cd = t.cd /\ u.sub = t.sub /\ u.lost = t.lost
    BY DEF Resolutions
<1> HIDE DEF u
<1>6. Kept(t, R) = u
    BY <1>1, Zenon DEF u
<1> QED
    BY <1>3, <1>4, <1>5, <1>6, Zenon

\* What a reply brings leaves the resolution sound.
LEMMA HeardIsSound ==
    ASSUME NEW wd, NEW t \in Resolutions, TaskOK(wd, t), t.stage = "ask", NEW R,
           ReplyOK(wd, t, t.qname, R), NEW u, Hears(t, R, u),
           \/ u.stage = "judge" /\ u.qname = t.qname /\ wd.has[t.qname] # "alias"
           \/ u.stage = "look" /\ u.qname = wd.to[t.qname] /\ wd.has[t.qname] = "alias"
              /\ u.restarts # 0
           \/ u.stage = "finish" /\ u.rcode = "servfail"
    PROVE  TaskOK(wd, u)
<1>1. \A r \in u.ans : r \in t.ans \/ r \in R
    BY DEF NewOf, Hears
<1>2. Vouched(wd, u)
    BY DEF Vouched, Hears
<1>3. Staged(u)
    BY DEF TaskOK, Staged, Hears
<1>4. Placed(wd, u)
    <2>1. ASSUME NEW r \in u.ans
          PROVE  /\ r.typ = "T" => wd.has[r.own] = "data"
                 /\ r.typ = "CNAME" => wd.has[r.own] = "alias"
                 /\ r.typ = "T" => \/ r.own = t.qname
                                   \/ wd.has[t.qname] = "alias" /\ r.own = wd.to[t.qname]
        BY <1>1 DEF TaskOK, Placed, ReplyOK
    <2>2. \A r \in u.ans : r.typ = "T" /\ u.stage # "finish" => r.own = u.qname
        BY <2>1
    <2> QED
        BY <2>1, <2>2 DEF Placed
<1>5. Viewed(u)
    <2>1. ASSUME NEW r \in u.ans
          PROVE  /\ r.view \in Subnets => u.sub = r.view /\ u.tailored
                 /\ r.view = "here" /\ r.typ # "SOA" => u.sub = Nil /\ u.local
        <3>1. CASE r \in t.ans
            BY <3>1 DEF TaskOK, Viewed, Hears
        <3>2. CASE r \in R
            BY <3>2 DEF ReplyOK, Tailored, Hears
        <3> QED
            BY <1>1, <3>1, <3>2
    <2> QED
        BY <2>1 DEF Viewed
<1>6. Single(wd, u)
    <2>1. \A r \in u.ans : r.age # "lapsed"
        BY <1>1 DEF TaskOK, Single, ReplyOK
    <2>2. ASSUME ~u.twice, NEW r \in u.ans, NEW s \in u.ans, r.own = s.own, r.typ = s.typ
          PROVE  r.ver = s.ver
        <3>1. ~t.twice /\ ~(\E x \in R : Has(t.ans, <<x.own, x.typ>>))
            BY <2>2 DEF Hears
        <3>2. \A x \in R, y \in t.ans : ~(x.own = y.own /\ x.typ = y.typ)
            BY <3>1 DEF Has
        <3>3. CASE r \in t.ans /\ s \in t.ans
            BY <2>2, <3>1, <3>3 DEF TaskOK, Single
        <3>4. CASE r \in R /\ s \in R
            BY <2>2, <3>4 DEF ReplyOK
        <3> QED
            BY <1>1, <2>2, <3>2, <3>3, <3>4
    <2>3. u.sec # "bogus"
        BY DEF TaskOK, Staged, Hears
    <2> QED
        BY <2>1, <2>2, <2>3 DEF Single
<1> QED
    BY <1>2, <1>3, <1>4, <1>5, <1>6 DEF TaskOK

\* A reply heard, and the question it leaves.
Heard(v, st, q, n, c) == [v EXCEPT !.stage = st, !.qname = q, !.restarts = n, !.rcode = c]

\* The fields that change, and what was heard stays.
LEMMA HeardFields ==
    ASSUME NEW t, NEW R, NEW v \in Resolutions, Hears(t, R, v), NEW st, NEW q, NEW n, NEW c
    PROVE  LET u == Heard(v, st, q, n, c) IN
           /\ Hears(t, R, u)
           /\ u.stage = st /\ u.qname = q /\ u.restarts = n /\ u.rcode = c
           /\ /\ st \in {"look", "ask", "judge", "finish"} /\ q \in Names /\ n \in Nat
              /\ c \in {"ok", "nx", "servfail"}
              => u \in Resolutions
<1> DEFINE u == Heard(v, st, q, n, c)
<1>1. /\ u.stage = st /\ u.qname = q /\ u.restarts = n /\ u.rcode = c
      /\ u.ans = v.ans /\ u.behind = v.behind /\ u.twice = v.twice
      /\ u.tailored = v.tailored /\ u.local = v.local
      /\ u.sec = v.sec /\ u.cd = v.cd /\ u.sub = v.sub /\ u.lost = v.lost
    BY DEF Heard, Resolutions
<1>2. /\ st \in {"look", "ask", "judge", "finish"} /\ q \in Names /\ n \in Nat
      /\ c \in {"ok", "nx", "servfail"}
      => u \in Resolutions
    BY Zenon DEF Heard, Resolutions
<1> HIDE DEF u
<1>3. Hears(t, R, u)
    BY <1>1 DEF Hears
<1> QED
    BY <1>1, <1>2, <1>3 DEF u

\* on_response() files, keeps and goes on, and all stays sound.
LEMMA ReplyKeeps ==
    ASSUME IInv, NEW i \in Tasks, Reply(i)
    PROVE  IInv'
<1> DEFINE t == task[i]
           n == t.qname
<1>1. t.stage = "ask" /\ UNCHANGED <<world, mc>>
    BY DEF Reply
<1>2. t \in Resolutions /\ TaskOK(world, t) /\ world # Nil
    BY <1>1, UnderWay
<1>3. PICK R \in Replies(t, n) :
         /\ rc' = Filed(t, n, R)
         /\ task' = [task EXCEPT ![i] =
                IF world.has[n] # "alias"
                THEN [Kept(t, R) EXCEPT !.stage = "judge",
                          !.rcode = IF world.has[n] = "nx" THEN "nx" ELSE "ok"]
                ELSE IF t.restarts < MAX_CHAIN
                THEN [Kept(t, R) EXCEPT !.stage = "look",
                          !.qname = world.to[n], !.restarts = @ + 1]
                ELSE [Kept(t, R) EXCEPT !.stage = "finish", !.rcode = "servfail"]]
    BY Zenon DEF Reply
<1> DEFINE v == Kept(t, R)
           c == IF world.has[n] = "nx" THEN "nx" ELSE "ok"
           q == world.to[n]
           m == v.restarts + 1
<1>4. n \in Names /\ t.restarts \in Nat
    BY <1>2, ResolutionFields
<1>5. ReplyOK(world, t, n, R)
    BY <1>2, <1>4, RepliesOK
<1>6. /\ v \in Resolutions
      /\ Hears(t, R, v)
      /\ v.qname = t.qname /\ v.restarts = t.restarts
      /\ v.rcode = t.rcode
    BY <1>2, <1>5, KeptFields DEF ReplyOK
<1>7. q \in Names /\ c \in {"ok", "nx", "servfail"}
    BY <1>2, <1>4, AWorld
<1> HIDE DEF v
<1>8. v.qname \in Names /\ v.restarts \in Nat /\ v.rcode \in {"ok", "nx", "servfail"}
    BY <1>4, <1>6, ResolutionFields
<1>9. m \in Nat /\ m # 0
    BY <1>8
<1>10. \E u \in Resolutions : TaskOK(world, u) /\ task' = [task EXCEPT ![i] = u]
    <2>1. CASE world.has[n] # "alias"
        <3> DEFINE u == Heard(v, "judge", v.qname, v.restarts, c)
        <3>1. u = [v EXCEPT !.stage = "judge", !.rcode = c]
            BY <1>6, Zenon DEF Heard, Resolutions
        <3>2. task' = [task EXCEPT ![i] = u]
            BY <1>3, <2>1, <3>1, Zenon DEF v
        <3> HIDE DEF c, t
        <3>3. /\ u \in Resolutions /\ u.stage = "judge" /\ u.qname = n
              /\ Hears(t, R, u)
            BY <1>6, <1>7, <1>8, HeardFields
        <3> HIDE DEF u
        <3>4. TaskOK(world, u)
            BY <1>1, <1>2, <1>5, <1>6, <2>1, <3>3, HeardIsSound
        <3> QED
            BY <3>2, <3>3, <3>4, Zenon
    <2>2. CASE world.has[n] = "alias" /\ t.restarts < MAX_CHAIN
        <3> DEFINE u == Heard(v, "look", q, m, v.rcode)
        <3>1. u = [v EXCEPT !.stage = "look", !.qname = q, !.restarts = m]
            BY <1>6, Zenon DEF Heard, Resolutions
        <3>2. task' = [task EXCEPT ![i] = u]
            BY <1>3, <2>2, <3>1, Zenon DEF v
        <3> HIDE DEF q, m, t
        <3>3. /\ u \in Resolutions /\ u.stage = "look" /\ u.qname = q /\ u.restarts = m
              /\ Hears(t, R, u)
            BY <1>6, <1>7, <1>8, <1>9, HeardFields
        <3> HIDE DEF u
        <3>4. TaskOK(world, u)
            BY <1>1, <1>2, <1>5, <1>6, <1>9, <2>2, <3>3, HeardIsSound DEF q
        <3> QED
            BY <3>2, <3>3, <3>4, Zenon
    <2>3. CASE world.has[n] = "alias" /\ ~(t.restarts < MAX_CHAIN)
        <3> DEFINE u == Heard(v, "finish", v.qname, v.restarts, "servfail")
        <3>1. u = [v EXCEPT !.stage = "finish", !.rcode = "servfail"]
            BY <1>6, Zenon DEF Heard, Resolutions
        <3>2. task' = [task EXCEPT ![i] = u]
            BY <1>3, <2>3, <3>1, Zenon DEF v
        <3>3. /\ u \in Resolutions /\ u.stage = "finish" /\ u.rcode = "servfail"
              /\ Hears(t, R, u)
            BY <1>6, <1>8, HeardFields
        <3> HIDE DEF u
        <3>4. TaskOK(world, u)
            BY <1>1, <1>2, <1>5, <1>6, <3>3, HeardIsSound
        <3> QED
            BY <3>2, <3>3, <3>4, Zenon
    <2> QED
        BY <2>1, <2>2, <2>3
<1>11. rc' \in [Keys -> RcEntries \cup {Nil}] /\ RcInv'
    BY <1>1, <1>2, <1>3, <1>4, <1>5, FiledSound
<1>12. /\ task' \in [Tasks -> Resolutions \cup {Free}] /\ TaskInv'
       /\ world' \in Worlds \cup {Nil} /\ Blank'
       /\ mc' \in [MKeys -> McEntries \cup {Nil}] /\ McInv'
    BY <1>1, <1>2, <1>10, TaskStep, Zenon
<1> QED
    BY <1>11, <1>12 DEF IInv, TypeOK

\* What checking a record of a resolution finds is true of it.
LEMMA StandsIsTrue ==
    ASSUME NEW t \in Resolutions, TaskOK(world, t), NEW r \in t.ans
    PROVE  /\ Stands(t, r) \in {"insecure", "secure", "bogus"}
           /\ Stands(t, r) = "secure" => ProvenIn(world, r)
           /\ Stands(t, r) = "insecure" => r.own \notin world.signed
           /\ Stands(t, r) = "bogus" => t.twice \/ FailsIn(world, r)
<1> DEFINE S == SetOf(t, r)
           vs == {x.ver : x \in S}
<1>1. r \in S /\ S \subseteq t.ans /\ \A x \in S : x.own = r.own /\ x.typ = r.typ
    BY DEF SetOf
<1>2. r.ver \in {0, 1, 2} /\ r.ver \in vs
    BY <1>1 DEF Resolutions, Recs, Versions3
<1>3. \A x \in S : x.age # "lapsed"
    BY <1>1 DEF TaskOK, Single
<1>4. ~t.twice => vs = {r.ver}
    <2>1. ~t.twice => \A x \in S : x.ver = r.ver
        BY <1>1 DEF TaskOK, Single
    <2> QED
        BY <1>1, <2>1
<1>5. /\ r.own \notin world.signed => Stands(t, r) = "insecure"
      /\ r.own \in world.signed /\ vs \in {{1}, {2}} => Stands(t, r) = "secure"
      /\ r.own \in world.signed /\ vs \notin {{1}, {2}} => Stands(t, r) = "bogus"
    BY <1>3, SMTT(30) DEF Stands
<1>6. vs \in {{1}, {2}} => r.ver # 0
    BY <1>2
<1>7. ~t.twice /\ vs \notin {{1}, {2}} => r.ver = 0
    BY <1>2, <1>4
<1> HIDE DEF vs, S
<1> QED
    BY <1>5, <1>6, <1>7 DEF ProvenIn, FailsIn

\* A resolution that has its verdict.
Judged(t, s, b, lo) == [t EXCEPT !.stage = "finish", !.sec = s, !.behind = b, !.lost = lo]

\* The fields that change, and the others.
LEMMA JudgedFields ==
    ASSUME NEW t \in Resolutions, NEW s, NEW b, NEW lo
    PROVE  LET u == Judged(t, s, b, lo) IN
           /\ u.stage = "finish" /\ u.sec = s /\ u.behind = b /\ u.lost = lo
           /\ u.qname = t.qname /\ u.restarts = t.restarts /\ u.ans = t.ans
           /\ u.rcode = t.rcode /\ u.cd = t.cd /\ u.sub = t.sub /\ u.tailored = t.tailored
           /\ u.local = t.local /\ u.twice = t.twice
           /\ s \in Secs /\ b \in BOOLEAN /\ lo \in BOOLEAN => u \in Resolutions
    BY Zenon DEF Judged, Resolutions

\* A verdict that is true of the answer leaves the resolution sound.
LEMMA JudgedIsSound ==
    ASSUME NEW wd, NEW t \in Resolutions, TaskOK(wd, t), t.stage = "judge",
           NEW s \in Secs, NEW b \in BOOLEAN, NEW lo \in BOOLEAN,
           s = "secure" => \A r \in t.ans : ProvenIn(wd, r),
           s \in {"secure", "insecure"} => \A r \in t.ans : ~FailsIn(wd, r),
           s = "bogus" => t.twice \/ \E r \in t.ans : FailsIn(wd, r),
           s = "indeterminate" => lo, s = "unchecked" => t.cd
    PROVE  LET u == Judged(t, s, b, lo) IN u \in Resolutions /\ TaskOK(wd, u)
<1> DEFINE u == Judged(t, s, b, lo)
<1>1. /\ u.stage = "finish" /\ u.sec = s /\ u.behind = b /\ u.lost = lo
      /\ u.qname = t.qname /\ u.restarts = t.restarts /\ u.ans = t.ans
      /\ u.rcode = t.rcode /\ u.cd = t.cd /\ u.sub = t.sub /\ u.tailored = t.tailored
      /\ u.local = t.local /\ u.twice = t.twice /\ u \in Resolutions
  <2>1. u.stage = "finish" /\ u.sec = s /\ u.behind = b /\ u.lost = lo
    BY JudgedFields
  <2>2. u.qname = t.qname /\ u.restarts = t.restarts /\ u.ans = t.ans /\ u.rcode = t.rcode
    BY JudgedFields
  <2>3. u.cd = t.cd /\ u.sub = t.sub /\ u.tailored = t.tailored
    BY JudgedFields
  <2>4. u.local = t.local /\ u.twice = t.twice
    BY JudgedFields
  <2>5. u \in Resolutions
    BY JudgedFields
  <2> HIDE DEF u
  <2> QED BY <2>1, <2>2, <2>3, <2>4, <2>5
<1> HIDE DEF u
<1>2. Vouched(wd, u)
    BY <1>1 DEF Vouched
<1>3. Staged(u)
    BY <1>1 DEF Staged
<1>4. Placed(wd, u)
    BY <1>1 DEF TaskOK, Placed
<1>5. Viewed(u)
    BY <1>1 DEF TaskOK, Viewed
<1>6. Single(wd, u)
    BY <1>1 DEF TaskOK, Single
<1> QED
    BY <1>1, <1>2, <1>3, <1>4, <1>5, <1>6, Zenon DEF TaskOK, u

\* What put_verdict() writes, from which record, and when.
RecordedAs(t, r) == [neg |-> FALSE, ver |-> r.ver, sec |-> Stands(t, r), age |-> "fresh",
                     local |-> t.local, view |-> r.view]
RecordedFrom(t, k) == CHOOSE x \in t.ans : <<x.own, x.typ>> = k
Recordable(t, k) ==
    Has(t.ans, k) /\ \A r \in t.ans : <<r.own, r.typ>> = k =>
        ~Tailored(r) /\ r.age = "fresh" /\ Stands(t, r) # "bogus"

\* What put_verdict() leaves under one key.
LEMMA RecordedForm ==
    ASSUME NEW t, NEW k \in Keys
    PROVE  /\ Recordable(t, k) => Recorded(t)[k] = RecordedAs(t, RecordedFrom(t, k))
           /\ ~Recordable(t, k) => Recorded(t)[k] = rc[k]
    BY DEF Recorded, RecordedAs, RecordedFrom, Recordable

\* The verdict written back is true of the records it is written over.
LEMMA RecordedSound ==
    ASSUME IInv, NEW t \in Resolutions, TaskOK(world, t), UNCHANGED world, rc' = Recorded(t)
    PROVE  rc' \in [Keys -> RcEntries \cup {Nil}] /\ RcInv'
<1>1. ASSUME NEW k \in Keys
      PROVE  /\ rc'[k] \in RcEntries \cup {Nil}
             /\ rc'[k] # Nil => RcOK(world, k, rc'[k])
    <2>1. CASE ~Recordable(t, k)
        <3>1. rc'[k] = rc[k]
            BY <2>1, RecordedForm
        <3>2. rc[k] \in RcEntries \cup {Nil}
            BY DEF IInv, TypeOK
        <3> QED
            BY <3>1, <3>2, AnEntry
    <2>2. CASE Recordable(t, k)
        <3> DEFINE x == RecordedFrom(t, k)
                   e == RecordedAs(t, x)
        <3>1. x \in t.ans /\ <<x.own, x.typ>> = k
            BY <2>2 DEF RecordedFrom, Recordable, Has
        <3>2. rc'[k] = e
            BY <2>2, RecordedForm
        <3> HIDE DEF x
        <3>3. ~Tailored(x) /\ Stands(t, x) # "bogus"
            BY <2>2, <3>1 DEF Recordable
        <3>4. /\ x \in Recs /\ x.view \in {"all", "here"} /\ x.ver \in Versions3
              /\ x.typ \in {"T", "CNAME", "SOA"}
            BY <3>1, <3>3, ResolutionFields DEF Recs, Tailored
        <3>5. /\ x.typ = "T" => world.has[x.own] = "data"
              /\ x.typ = "CNAME" => world.has[x.own] = "alias"
              /\ x.view = "here" /\ x.typ # "SOA" => t.local
            BY <3>1 DEF TaskOK, Placed, Viewed
        <3>6. /\ Stands(t, x) \in {"insecure", "secure"}
              /\ Stands(t, x) = "secure" => ProvenIn(world, x)
              /\ Stands(t, x) = "insecure" => x.own \notin world.signed
            BY <3>1, <3>3, StandsIsTrue
        <3>7. e \in RcEntries
            BY <3>4, <3>6, ResolutionFields DEF RecordedAs, RcEntries, Ages
        <3>8. /\ e.neg = FALSE /\ e.ver = x.ver /\ e.sec = Stands(t, x) /\ e.local = t.local
              /\ e.view = x.view
            BY DEF RecordedAs
        <3>9. k[1] = x.own /\ k[2] = x.typ /\ k[2] \in {"T", "CNAME"}
            BY <3>1, <3>4 DEF Keys
        <3> HIDE DEF e
        <3>10. RcOK(world, k, e)
            BY <3>5, <3>6, <3>8, <3>9 DEF RcOK, ProvenIn
        <3> QED
            BY <3>2, <3>7, <3>10
    <2> QED
        BY <2>1, <2>2
<1>2. DOMAIN rc' = Keys /\ rc' = [k \in Keys |-> rc'[k]]
    BY DEF Recorded
<1> QED
    BY <1>1, <1>2 DEF RcInv

\* elpis_val_start() and its end.
LEMMA JudgeKeeps ==
    ASSUME IInv, NEW i \in Tasks, Judge(i)
    PROVE  IInv'
<1> DEFINE t == task[i]
           S == {Stands(t, r) : r \in t.ans}
           sec == IF "bogus" \in S THEN "bogus"
                  ELSE IF "insecure" \in S THEN "insecure" ELSE "secure"
<1>1. t.stage = "judge" /\ UNCHANGED <<world, mc>>
    BY Zenon DEF Judge
<1>2. t \in Resolutions /\ TaskOK(world, t) /\ world # Nil
    BY <1>1, UnderWay
<1>3. t.lost \in BOOLEAN /\ t.behind \in BOOLEAN /\ t.cd \in BOOLEAN
    BY <1>2, ResolutionFields
<1>4. rc' = rc => rc' \in [Keys -> RcEntries \cup {Nil}] /\ RcInv'
    BY <1>1 DEF IInv, TypeOK, RcInv
<1>5. rc' = Recorded(t) => rc' \in [Keys -> RcEntries \cup {Nil}] /\ RcInv'
    BY <1>1, <1>2, RecordedSound
<1>6. rc' = rc \/ rc' = Recorded(t)
    BY Zenon DEF Judge
<1>7. \E u \in Resolutions : TaskOK(world, u) /\ task' = [task EXCEPT ![i] = u]
    <2>1. CASE t.cd /\ task' = [task EXCEPT ![i].stage = "finish", ![i].sec = "unchecked"]
        <3> DEFINE u == Judged(t, "unchecked", t.behind, t.lost)
        <3>1. u = [t EXCEPT !.stage = "finish", !.sec = "unchecked"]
            BY <1>2, Zenon DEF Judged, Resolutions
        <3>2. task' = [task EXCEPT ![i] = u]
            BY <2>1, <3>1, Zenon
        <3> HIDE DEF t
        <3>3. u \in Resolutions /\ TaskOK(world, u)
            BY <1>1, <1>2, <1>3, <2>1, JudgedIsSound DEF Secs
        <3> QED
            BY <3>2, <3>3, Zenon
    <2>2. CASE task' = [task EXCEPT ![i].stage = "finish", ![i].sec = sec, ![i].behind = FALSE]
        <3> DEFINE u == Judged(t, sec, FALSE, t.lost)
        <3>1. u = [t EXCEPT !.stage = "finish", !.sec = sec, !.behind = FALSE]
            BY <1>2, Zenon DEF Judged, Resolutions
        <3>2. task' = [task EXCEPT ![i] = u]
            BY <2>2, <3>1, Zenon
        <3>3. /\ sec = "secure" => \A r \in t.ans : ProvenIn(world, r)
              /\ sec \in {"secure", "insecure"} => \A r \in t.ans : ~FailsIn(world, r)
              /\ sec = "bogus" => t.twice \/ \E r \in t.ans : FailsIn(world, r)
              /\ sec \in {"secure", "insecure", "bogus"}
            <4>1. ASSUME NEW r \in t.ans
                  PROVE  /\ Stands(t, r) \in S
                         /\ Stands(t, r) \in {"insecure", "secure", "bogus"}
                         /\ Stands(t, r) = "secure" => ProvenIn(world, r)
                         /\ Stands(t, r) = "insecure" => r.own \notin world.signed
                BY <1>2, StandsIsTrue
            <4>2. "bogus" \in S => \E r \in t.ans : Stands(t, r) = "bogus"
                OBVIOUS
            <4>3. "bogus" \in S => t.twice \/ \E r \in t.ans : FailsIn(world, r)
                BY <1>2, <4>2, StandsIsTrue
            <4> HIDE DEF S
            <4> QED
                BY <4>1, <4>3 DEF ProvenIn, FailsIn
        <3> HIDE DEF t, sec
        <3>4. PICK b \in BOOLEAN : b = FALSE
            BY Zenon
        <3>5. sec \in Secs
            BY <3>3 DEF Secs
        <3>6. Judged(t, sec, b, t.lost) \in Resolutions /\ TaskOK(world, Judged(t, sec, b, t.lost))
            BY <1>1, <1>2, <1>3, <3>3, <3>5, JudgedIsSound
        <3> QED
            BY <3>2, <3>4, <3>6, Zenon
    <2>3. CASE task' = [task EXCEPT ![i].stage = "finish", ![i].lost = TRUE,
                                    ![i].sec = "indeterminate"]
        <3> DEFINE u == Judged(t, "indeterminate", t.behind, TRUE)
        <3>1. u = [t EXCEPT !.stage = "finish", !.lost = TRUE, !.sec = "indeterminate"]
            BY <1>2, Zenon DEF Judged, Resolutions
        <3>2. task' = [task EXCEPT ![i] = u]
            BY <2>3, <3>1, Zenon
        <3> HIDE DEF t
        <3>4. PICK b \in BOOLEAN : b = TRUE
            BY Zenon
        <3>5. /\ Judged(t, "indeterminate", t.behind, b) \in Resolutions
              /\ TaskOK(world, Judged(t, "indeterminate", t.behind, b))
            BY <1>1, <1>2, <1>3, <3>4, JudgedIsSound, Zenon DEF Secs
        <3> QED
            BY <3>2, <3>4, <3>5, Zenon
    <2> QED
        BY <2>1, <2>2, <2>3, Zenon DEF Judge
<1>8. /\ task' \in [Tasks -> Resolutions \cup {Free}] /\ TaskInv'
      /\ world' \in Worlds \cup {Nil} /\ Blank'
      /\ mc' \in [MKeys -> McEntries \cup {Nil}] /\ McInv'
    BY <1>1, <1>2, <1>7, TaskStep, Zenon
<1> QED
    BY <1>4, <1>5, <1>6, <1>8 DEF IInv, TypeOK

\* A resolution starts sound.
LEMMA StartedIsSound ==
    ASSUME NEW wd, NEW q \in Names, NEW cd \in BOOLEAN, NEW sub \in Subnets \cup {Nil},
           NEW refresh \in BOOLEAN, NEW again \in BOOLEAN
    PROVE  LET u == Started(q, cd, sub, refresh, again) IN u \in Resolutions /\ TaskOK(wd, u)
<1> DEFINE u == Started(q, cd, sub, refresh, again)
<1>1. u \in Resolutions
    BY DEF Started, Resolutions, Secs
<1>2. u.ans = {} /\ u.sec = "unchecked" /\ u.stage = "look"
    BY DEF Started
<1> HIDE DEF u
<1>3. TaskOK(wd, u)
    BY <1>2 DEF TaskOK, Vouched, Staged, Placed, Viewed, Single
<1> QED
    BY <1>1, <1>3 DEF u

\* cache_store_answer() files what is sound, under the key it is sound for.
LEMMA EntryIsSound ==
    ASSUME NEW wd, NEW t \in Resolutions, TaskOK(wd, t), t.stage = "finish", Storable(t)
    PROVE  MKey(t) \in MKeys /\ Entry(t) \in McEntries /\ McOK(wd, MKey(t), Entry(t))
<1> DEFINE k == MKey(t)
           e == Entry(t)
<1>1. /\ t.orig \in Names /\ t.cd \in BOOLEAN /\ t.sub \in Subnets \cup {Nil}
      /\ t.ans \in SUBSET Recs /\ t.local \in BOOLEAN /\ t.behind \in BOOLEAN /\ t.sec \in Secs
    BY ResolutionFields
<1>2. k \in MKeys
    BY <1>1 DEF MKey, MKeys
<1>3. /\ k[2] = t.cd
      /\ t.sub # Nil /\ t.tailored => k[3] = t.sub
      /\ t.sub = Nil => k[3] = "all"
    BY DEF MKey
<1>4. /\ e.recs = t.ans /\ e.rcode = t.rcode /\ e.local = t.local /\ e.behind = t.behind
      /\ e.ad <=> t.sec = "secure"
    BY Zenon DEF Entry
<1>5. ~Refused(t) /\ t.sec # "bogus" /\ t.rcode \in {"ok", "nx"}
    BY DEF Storable, Fit
<1>6. e \in McEntries
    BY <1>1, <1>5 DEF Entry, McEntries
<1> HIDE DEF k, e
<1>7. e.ad /\ ~e.behind => \A r \in e.recs : ProvenIn(wd, r)
    BY <1>4 DEF TaskOK, Vouched
<1>8. ASSUME ~k[2], ~e.behind, e.rcode = "ok", \E r \in e.recs : r.typ = "T"
      PROVE  \A r \in e.recs : ~FailsIn(wd, r)
    <2>1. ~t.cd /\ ~t.lost
        BY <1>3, <1>5, <1>8 DEF Refused
    <2>2. t.sec # "unchecked" /\ t.sec # "indeterminate"
        BY <1>4, <1>8, <2>1 DEF TaskOK, Placed, Staged
    <2>3. t.sec \in {"secure", "insecure"}
        BY <1>1, <1>5, <2>2 DEF Secs
    <2> QED
        BY <1>4, <1>8, <2>3 DEF TaskOK, Vouched
<1>9. ASSUME NEW r \in e.recs
      PROVE  /\ r.view \in Subnets => k[3] = r.view
             /\ r.view = "here" /\ r.typ # "SOA" => k[3] = "all" /\ e.local
    BY <1>3, <1>4, <1>9, NilAssumption DEF TaskOK, Viewed
<1>10. McOK(wd, k, e)
    BY <1>7, <1>8, <1>9 DEF McOK
<1> QED
    BY <1>2, <1>6, <1>10 DEF k, e

\* Entries that are dropped leave the rest sound.
LEMMA DroppedSound ==
    ASSUME IInv, UNCHANGED world, NEW D,
           rc' = [k \in Keys |-> IF k \in D THEN Nil ELSE rc[k]]
    PROVE  rc' \in [Keys -> RcEntries \cup {Nil}] /\ RcInv'
<1>1. rc \in [Keys -> RcEntries \cup {Nil}]
    BY DEF IInv, TypeOK
<1>2. \A k \in Keys : rc'[k] = Nil \/ rc'[k] = rc[k]
    OBVIOUS
<1> QED
    BY <1>1, <1>2 DEF IInv, RcInv

\* task_finish().
LEMMA FinishKeeps ==
    ASSUME IInv, NEW i \in Tasks, Finish(i)
    PROVE  IInv'
<1> DEFINE t == task[i]
           done == [task EXCEPT ![i] = Free]
           kept == [k \in Keys |-> IF Refused(t) /\ k \in TakenBack(t) THEN Nil ELSE rc[k]]
<1>1. t.stage = "finish" /\ UNCHANGED world
    BY DEF Finish
<1>2. t \in Resolutions /\ TaskOK(world, t) /\ world # Nil
    BY <1>1, UnderWay
<1>3. /\ t.orig \in Names /\ t.cd \in BOOLEAN /\ t.sub \in Subnets \cup {Nil}
      /\ t.tailored \in BOOLEAN /\ t.again \in BOOLEAN
    BY <1>2, ResolutionFields
<1>4. MKey(t) \in MKeys
    BY <1>3 DEF MKey, MKeys
<1>5. task' \in [Tasks -> Resolutions \cup {Free}] /\ TaskInv'
    <2> DEFINE u == Started(t.orig, t.cd, t.sub, TRUE, FALSE)
    <2>1. u \in Resolutions /\ TaskOK(world, u)
        <3>1. PICK x \in BOOLEAN, y \in BOOLEAN : x = TRUE /\ y = FALSE
            BY Zenon
        <3> HIDE DEF t
        <3>2. LET v == Started(t.orig, t.cd, t.sub, x, y) IN v \in Resolutions /\ TaskOK(world, v)
            BY <1>3, StartedIsSound
        <3> QED
            BY <3>1, <3>2, Zenon
    <2>2. task' = done \/ \E j \in Tasks : task' = [done EXCEPT ![j] = u]
        BY Zenon DEF Finish, Slots
    <2> HIDE DEF u
    <2>3. task \in [Tasks -> Resolutions \cup {Free}]
        BY DEF IInv, TypeOK
    <2>4. \A j \in Tasks : task'[j] = Free \/ task'[j] = u \/ task'[j] = task[j]
        BY <2>2, <2>3
    <2>5. task' \in [Tasks -> Resolutions \cup {Free}]
        BY <2>1, <2>2, <2>3
    <2> QED
        BY <1>1, <2>1, <2>4, <2>5 DEF IInv, TaskInv
<1>6. mc' \in [MKeys -> McEntries \cup {Nil}] /\ McInv'
    <2>1. mc \in [MKeys -> McEntries \cup {Nil}]
        BY DEF IInv, TypeOK
    <2>2. CASE mc' = mc
        BY <1>1, <2>1, <2>2 DEF IInv, McInv
    <2>3. CASE mc' = [mc EXCEPT ![MKey(t)] = Nil]
        BY <1>1, <2>1, <2>3, Zenon DEF IInv, McInv
    <2>4. CASE Storable(t) /\ mc' = [mc EXCEPT ![MKey(t)] = Entry(t)]
        <3>1. Entry(t) \in McEntries /\ McOK(world, MKey(t), Entry(t))
            BY <1>1, <1>2, <2>4, EntryIsSound
        <3>2. \A k \in MKeys : mc'[k] = IF k = MKey(t) THEN Entry(t) ELSE mc[k]
            BY <2>1, <2>4
        <3>3. mc' \in [MKeys -> McEntries \cup {Nil}]
            BY <2>1, <2>4, <3>1, Zenon
        <3> QED
            BY <1>1, <3>1, <3>2, <3>3 DEF IInv, McInv
    <2> QED
        BY <2>2, <2>3, <2>4 DEF Finish
<1>7. rc' \in [Keys -> RcEntries \cup {Nil}] /\ RcInv'
    <2>1. \E D : rc' = [k \in Keys |-> IF k \in D THEN Nil ELSE rc[k]]
        <3> DEFINE B == IF Refused(t) THEN TakenBack(t) ELSE {}
        <3>1. kept = [k \in Keys |-> IF k \in B THEN Nil ELSE rc[k]]
            OBVIOUS
        <3>2. CASE rc' = kept
            BY <3>1, <3>2, Zenon
        <3>3. CASE rc' = [k \in Keys |-> IF k \in Forgotten(t) THEN Nil ELSE kept[k]]
            <4>1. rc' = [k \in Keys |-> IF k \in Forgotten(t) \cup B THEN Nil ELSE rc[k]]
                BY <3>1, <3>3
            <4> QED
                BY <4>1, Zenon
        <3> QED
            BY <3>2, <3>3 DEF Finish
    <2> QED
        BY <1>1, <2>1, DroppedSound
<1> QED
    BY <1>1, <1>2, <1>5, <1>6, <1>7 DEF IInv, TypeOK, Blank

\* handle_query() and elpis_prefetch_start().
LEMMA AskedKeeps ==
    ASSUME IInv, world # Nil, NEW i \in Tasks, NEW a \in world.asked,
           Query(i, a[1], a[2], a[3]) \/ Prefetch(i, a[1], a[2], a[3])
    PROVE  IInv'
<1>1. a[1] \in Names /\ a[2] \in BOOLEAN /\ a[3] \in Subnets \cup {Nil}
    <2>1. world.asked \subseteq Names \X BOOLEAN \X (Subnets \cup {Nil})
        BY AWorld, WorldsAssumption
    <2> QED
        BY <2>1
<1>2. UNCHANGED <<world, mc, rc>>
    BY Zenon DEF Query, Prefetch
<1>3. PICK x \in BOOLEAN, y \in BOOLEAN :
         task' = [task EXCEPT ![i] = Started(a[1], a[2], a[3], x, y)]
    BY Zenon DEF Query, Prefetch
<1> DEFINE u == Started(a[1], a[2], a[3], x, y)
<1>4. u \in Resolutions /\ TaskOK(world, u)
    BY <1>1, StartedIsSound
<1> HIDE DEF u
<1> QED
    BY <1>2, <1>3, <1>4, TaskStepOnly, Zenon DEF u

\* Entries age and are evicted.
LEMMA LapseKeeps ==
    ASSUME IInv, Lapse
    PROVE  IInv'
<1>1. UNCHANGED <<world, task>>
    BY DEF Lapse
<1>2. rc \in [Keys -> RcEntries \cup {Nil}] /\ mc \in [MKeys -> McEntries \cup {Nil}]
    BY DEF IInv, TypeOK
<1>3. CASE \E k \in MKeys : mc[k] # Nil /\ mc' = [mc EXCEPT ![k] = Nil] /\ rc' = rc
    <2>1. PICK k \in MKeys : mc[k] # Nil /\ mc' = [mc EXCEPT ![k] = Nil] /\ rc' = rc
        BY <1>3, Zenon
    <2>2. mc' \in [MKeys -> McEntries \cup {Nil}] /\ McInv'
        BY <1>1, <1>2, <2>1 DEF IInv, McInv
    <2>3. Blank'
        BY <1>1, <1>2, <2>1 DEF IInv, Blank
    <2> QED
        BY <1>1, <2>1, <2>2, <2>3 DEF IInv, TypeOK, RcInv, TaskInv
<1>4. CASE \E k \in Keys : rc[k] # Nil /\ mc' = mc /\ rc' = [rc EXCEPT ![k] = Nil]
    <2>1. PICK k \in Keys : rc[k] # Nil /\ mc' = mc /\ rc' = [rc EXCEPT ![k] = Nil]
        BY <1>4, Zenon
    <2>2. rc' \in [Keys -> RcEntries \cup {Nil}] /\ RcInv'
        BY <1>1, <1>2, <2>1 DEF IInv, RcInv
    <2>3. Blank'
        BY <1>1, <1>2, <2>1 DEF IInv, Blank
    <2> QED
        BY <1>1, <2>1, <2>2, <2>3 DEF IInv, TypeOK, McInv, TaskInv
<1>5. CASE \E k \in Keys, a \in Ages : rc[k] # Nil /\ mc' = mc /\ rc' = [rc EXCEPT ![k].age = a]
    <2>1. PICK k \in Keys, a \in Ages :
             rc[k] # Nil /\ mc' = mc /\ rc' = [rc EXCEPT ![k].age = a]
        BY <1>5, Zenon
    <2> DEFINE e == [rc[k] EXCEPT !.age = a]
    <2>2. rc[k] \in RcEntries /\ RcOK(world, k, rc[k])
        BY <2>1, AnEntry
    <2>3. /\ e \in RcEntries /\ e.neg = rc[k].neg /\ e.ver = rc[k].ver /\ e.sec = rc[k].sec
          /\ e.local = rc[k].local /\ e.view = rc[k].view
        BY <2>2 DEF RcEntries
    <2>4. rc' = [rc EXCEPT ![k] = e]
        BY <2>1
    <2> HIDE DEF e
    <2>5. RcOK(world, k, e)
        BY <2>2, <2>3 DEF RcOK
    <2>6. rc' \in [Keys -> RcEntries \cup {Nil}] /\ RcInv'
        BY <1>1, <1>2, <2>3, <2>4, <2>5 DEF IInv, RcInv
    <2>7. Blank'
        BY <1>1, <2>1 DEF IInv, Blank
    <2> QED
        BY <1>1, <2>1, <2>6, <2>7 DEF IInv, TypeOK, McInv, TaskInv
<1> QED
    BY <1>3, <1>4, <1>5 DEF Lapse, Ages

\* The zones.
LEMMA ChooseKeeps ==
    ASSUME IInv, Choose
    PROVE  IInv'
<1>1. /\ \A k \in Keys : rc[k] = Nil
      /\ \A k \in MKeys : mc[k] = Nil
      /\ \A i \in Tasks : task[i] = Free
    BY DEF Choose, IInv, Blank
<1>2. world' \in Worlds /\ world' # Nil /\ UNCHANGED <<rc, mc, task>>
    BY NilAssumption DEF Choose
<1> QED
    BY <1>1, <1>2 DEF IInv, TypeOK, Blank, RcInv, McInv, TaskInv
-----------------------------------------------------------------------------
(* The theorems                                                            *)

\* The caches and the resolutions under way are sound together, whatever the
\* order in which resolutions share, replace, refuse and let expire what is there
\* (cache_try(), on_response(), put_verdict(), task_finish()).
THEOREM AnswersSound == Spec => []IInv
<1>1. Init => IInv
    BY DEF Init, IInv, TypeOK, Blank, RcInv, McInv, TaskInv
<1>2. IInv /\ [Next]_vars => IInv'
    <2> SUFFICES ASSUME IInv, [Next]_vars PROVE IInv'
        OBVIOUS
    <2>1. CASE UNCHANGED vars
        BY <2>1 DEF vars, IInv, TypeOK, Blank, RcInv, McInv, TaskInv
    <2>2. CASE Choose
        BY <2>2, ChooseKeeps
    <2>3. CASE Lapse
        BY <2>3, LapseKeeps
    <2>4. ASSUME NEW i \in Tasks,
                 \/ Exact(i) \/ Alias(i) \/ Gone(i) \/ Miss(i) \/ Reply(i)
                 \/ Fail(i) \/ Judge(i) \/ Finish(i)
          PROVE  IInv'
        BY <2>4, ExactKeeps, AliasKeeps, GoneKeeps, MissKeeps, ReplyKeeps, FailKeeps,
           JudgeKeeps, FinishKeeps
    <2>5. ASSUME NEW i \in Tasks, world # Nil, NEW a \in world.asked,
                 Query(i, a[1], a[2], a[3]) \/ Prefetch(i, a[1], a[2], a[3])
          PROVE  IInv'
        BY <2>5, AskedKeeps
    <2> QED
        BY <2>1, <2>2, <2>3, <2>4, <2>5, Zenon DEF Next
<1> QED
    BY <1>1, <1>2, PTL DEF Spec

\* A reply that goes out is a finished resolution's or an entry's.
FromTask(t) ==
    [cd |-> t.cd, sub |-> t.sub, recs |-> Answered(t).recs, rcode |-> Answered(t).rcode,
     ad |-> Answered(t).ad, behind |-> t.behind]
FromEntry(k, sub) ==
    [cd |-> k[2], sub |-> sub, recs |-> mc[k].recs, rcode |-> mc[k].rcode, ad |-> mc[k].ad,
     behind |-> mc[k].behind]

\* Each reply in Sent is one of the two.
LEMMA SentFrom ==
    ASSUME NEW m \in Sent
    PROVE  \/ \E i \in Tasks : task[i].stage = "finish" /\ m = FromTask(task[i])
           \/ \E k \in MKeys, sub \in Subnets \cup {Nil} :
                 mc[k] # Nil /\ k \in Hit(k[1], k[2], sub) /\ m = FromEntry(k, sub)
    BY DEF Sent, FromTask, FromEntry

\* What a resolution sends its client.
LEMMA TaskEarned ==
    ASSUME IInv, NEW i \in Tasks, task[i].stage = "finish", NEW m, m = FromTask(task[i])
    PROVE  /\ m.ad /\ ~m.behind => \A r \in m.recs : ProvenIn(world, r)
           /\ ~m.cd /\ ~m.behind /\ Positive(m) => \A r \in m.recs : ~FailsIn(world, r)
           /\ \A r \in m.recs : /\ r.view \in Subnets => m.sub = r.view
                                /\ r.view = "here" /\ r.typ # "SOA" => m.sub = Nil
<1> DEFINE t == task[i]
<1>1. t \in Resolutions /\ TaskOK(world, t)
    BY UnderWay
<1> HIDE DEF t
<1>2. /\ m.cd = t.cd /\ m.sub = t.sub /\ m.behind = t.behind
      /\ m.recs = IF Refused(t) THEN {} ELSE t.ans
      /\ m.rcode = IF Refused(t) THEN "servfail" ELSE t.rcode
      /\ m.ad <=> t.sec = "secure" /\ ~t.cd
    BY Zenon DEF FromTask, Answered, t
<1>3. m.recs \subseteq t.ans
    BY <1>2
<1>4. m.ad /\ ~m.behind => \A r \in m.recs : ProvenIn(world, r)
    BY <1>1, <1>2, <1>3 DEF TaskOK, Vouched
<1>5. ASSUME ~m.cd, ~m.behind, Positive(m)
      PROVE  \A r \in m.recs : ~FailsIn(world, r)
    <2>1. ~Refused(t) /\ t.rcode = "ok" /\ \E r \in t.ans : r.typ = "T"
        BY <1>2, <1>5 DEF Positive
    <2>2. t.sec # "bogus" /\ ~t.lost
        BY <1>2, <1>5, <2>1 DEF Refused
    <2>3. t.sec # "unchecked" /\ t.sec # "indeterminate"
        BY <1>1, <1>2, <1>5, <2>1, <2>2, Zenon DEF TaskOK, Placed, Staged, t
    <2>4. t.sec \in {"secure", "insecure"}
        BY <1>1, <2>2, <2>3, ResolutionFields DEF Secs
    <2> QED
        BY <1>1, <1>2, <1>3, <1>5, <2>4 DEF TaskOK, Vouched
<1>6. \A r \in m.recs : /\ r.view \in Subnets => m.sub = r.view
                        /\ r.view = "here" /\ r.typ # "SOA" => m.sub = Nil
    BY <1>1, <1>2, <1>3 DEF TaskOK, Viewed
<1> QED
    BY <1>4, <1>5, <1>6, Zenon

\* What the message cache sends for one, to whoever it serves the entry.
LEMMA EntryEarned ==
    ASSUME IInv, NEW k \in MKeys, NEW sub \in Subnets \cup {Nil}, mc[k] # Nil,
           k \in Hit(k[1], k[2], sub), NEW m, m = FromEntry(k, sub)
    PROVE  /\ m.ad /\ ~m.behind => \A r \in m.recs : ProvenIn(world, r)
           /\ ~m.cd /\ ~m.behind /\ Positive(m) => \A r \in m.recs : ~FailsIn(world, r)
           /\ \A r \in m.recs : /\ r.view \in Subnets => m.sub = r.view
                                /\ r.view = "here" /\ r.typ # "SOA" => m.sub = Nil
<1> DEFINE e == mc[k]
<1>1. McOK(world, k, e)
    BY DEF IInv, McInv
<1>2. /\ m.cd = k[2] /\ m.sub = sub /\ m.behind = e.behind /\ m.recs = e.recs
      /\ m.rcode = e.rcode /\ m.ad = e.ad
    BY DEF FromEntry
<1>3. k[3] = sub \/ (k[3] = "all" /\ ~(sub # Nil /\ e.local))
    BY DEF Hit
<1>4. k[3] = "all" /\ e.local => sub = Nil
    BY <1>3, NilAssumption
<1>5. k[3] \in Subnets => sub = k[3]
    BY <1>3, NilAssumption
<1> HIDE DEF e
<1> QED
    BY <1>1, <1>2, <1>4, <1>5 DEF McOK, Positive

\* What a client is told is earned: nothing that fails validation in an answer
\* with the data, AD only where every link is proven, what was tailored to a
\* subnet to that subnet alone, and no false alarm (chain_sec(), task_finish(),
\* cache_store_answer(), try_cache_fast()).
THEOREM AnswersEarned == Spec => []AnswerEarned
<1>1. IInv => AnswerEarned
    <2> SUFFICES ASSUME IInv PROVE AnswerEarned
        OBVIOUS
    <2>1. ASSUME NEW m \in Sent
          PROVE  /\ m.ad /\ ~m.behind => \A r \in m.recs : ProvenIn(world, r)
                 /\ ~m.cd /\ ~m.behind /\ Positive(m) => \A r \in m.recs : ~FailsIn(world, r)
                 /\ \A r \in m.recs : /\ r.view \in Subnets => m.sub = r.view
                                      /\ r.view = "here" /\ r.typ # "SOA" => m.sub = Nil
        BY <2>1, SentFrom, TaskEarned, EntryEarned
    <2>2. PositiveWithheld /\ AdEarned /\ OwnSubnet
        BY <2>1 DEF PositiveWithheld, AdEarned, OwnSubnet, Fails, Proven, FailsIn, ProvenIn
    <2>3. NoFalseAlarm
        BY DEF IInv, TaskInv, TaskOK, Single, NoFalseAlarm, Fails, FailsIn
    <2> QED
        BY <2>2, <2>3 DEF AnswerEarned
<1> QED
    BY <1>1, AnswersSound, PTL
=============================================================================
