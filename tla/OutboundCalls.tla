--------------------------- MODULE OutboundCalls ----------------------------
(***************************************************************************)
(* What each call of outbound.c and dot.c leaves behind, of any worker in  *)
(* order: which of a task's queries are still its own, what is called      *)
(* next, and the queries that have no part in it, which do not notice      *)
(* (Untouched, Others, CallOK).                                            *)
(***************************************************************************)
EXTENDS OutboundEdits

\* Nobody's query is freed.
LEMMA FreeNobody ==
    ASSUME NEW v \in Worker, Connected(v), Hooks(v), NEW x \in Queries, v.q[x].task = "none"
    PROVE  LET u == OutFree(v, x)
           IN  /\ u \in Worker /\ Connected(u) /\ Hooks(u) /\ SameHooks(v, u)
               /\ \A y \in Queries \ {x} : u.q[y] = v.q[y]
<1> DEFINE u == OutFree(v, x)
<1>1. /\ u \in Worker /\ Connected(u)
      /\ u.q[x] = NoQuery /\ \A y \in Queries \ {x} : u.q[y] = v.q[y]
      /\ \A t \in Tasks :
           /\ u.out[t] = IF v.out[t] = x /\ v.q[x].task = t THEN 0 ELSE v.out[t]
           /\ u.race[t] = IF v.race[t] = x /\ v.q[x].task = t THEN 0 ELSE v.race[t]
  BY OutFreeOp
<1>2. NoQuery.task = "none"
  BY DEF NoQuery
<1>3. "none" \notin Tasks
  BY OutboundAssumption
<1> HIDE DEF u, NoQuery
<1>4. SameHooks(v, u)
  BY <1>1, <1>2, <1>3 DEF SameHooks
<1>5. Hooks(u)
  BY <1>1, <1>4, SameHooked
<1> QED BY <1>1, <1>4, <1>5 DEF u

\* out_unhook(): what else the task had out is its query now.
LEMMA UnhookOp ==
    ASSUME NEW v \in Worker, Connected(v), Hooks(v), NEW x \in Queries, NEW t \in Tasks,
           v.q[x].task = t
    PROVE  LET u == Unhook(v, t, x)
               o == Other(v, t, x)
           IN  /\ u \in Worker /\ Connected(u) /\ Hooks(u) /\ OffQ(v, u, x)
               /\ Taken(v, u, t, o) /\ o \in Queries \cup {0} /\ o # x
               /\ o # 0 => v.q[o].task = t
<1> DEFINE u == Unhook(v, t, x)
           o == Other(v, t, x)
<1>1. /\ v.out[t] \in Queries \cup {0} /\ v.race[t] \in Queries \cup {0}
      /\ \A y \in Queries : v.q[y].task \in Tasks \cup {"none"}
      /\ "none" \notin Tasks /\ 0 \notin Queries
  BY Pointers
<1>2. /\ x \in {v.out[t], v.race[t]}
      /\ \A y \in Queries : v.q[y].task = t => y \in {v.out[t], v.race[t]} /\ v.q[y].via # "none"
      /\ v.out[t] # 0 => v.q[v.out[t]].task = t
      /\ v.race[t] # 0 => v.q[v.race[t]].task = t /\ v.out[t] # v.race[t]
  BY <1>1 DEF Hooks
<1>3. /\ o \in Queries \cup {0} /\ o # x /\ (o # 0 => v.q[o].task = t)
      /\ \A y \in Queries : v.q[y].task = t => y \in {x, o} /\ v.q[y].via # "none"
  BY <1>1, <1>2, SMTT(60) DEF Other
<1> HIDE DEF o
<1>4. u = PointBoth(v, t, o, x)
  BY DEF Unhook, PointBoth, o
<1> HIDE DEF u
<1>5. /\ u \in Worker /\ Connected(u) /\ OffQ(v, u, x)
      /\ u.out[t] = o /\ u.race[t] = 0
      /\ \A a \in Tasks \ {t} : u.out[a] = v.out[a] /\ u.race[a] = v.race[a]
  BY <1>3, <1>4, PointOp
<1>6. Taken(v, u, t, o)
  <2>1. o # 0 => u.q[o].task = t /\ u.q[o].via # "none" /\ v.q[o].task \in {"none", t}
    BY <1>3, <1>5 DEF OffQ
  <2>2. ASSUME NEW y \in Queries \ {o}
        PROVE  IF v.q[y].task = t THEN u.q[y].task = "none"
               ELSE u.q[y].task = v.q[y].task /\ (v.q[y].task # "none" => u.q[y].via = v.q[y].via)
    BY <1>3, <1>5, <2>2 DEF OffQ
  <2> QED BY <1>5, <2>1, <2>2 DEF Taken
<1>7. Hooks(u)
  BY <1>3, <1>5, <1>6, TakenHooked
<1> QED BY <1>3, <1>5, <1>6, <1>7 DEF u, o

\* What handle_message() does with the queries of a task whose answer has
\* come: the other one, if there is, lives on as a probe.
Alone(v, t, x) ==
    LET other == Other(v, t, x)
        unhooked == Unhook(v, t, x)
    IN  IF other = 0 THEN unhooked
        ELSE [ToProbe(unhooked, other) EXCEPT !.out[t] = 0]

\* The task has nothing out then.
LEMMA AloneOp ==
    ASSUME NEW v \in Worker, Connected(v), Hooks(v), NEW x \in Queries, NEW t \in Tasks,
           v.q[x].task = t
    PROVE  LET u == Alone(v, t, x)
           IN  /\ u \in Worker /\ Connected(u) /\ Hooks(u) /\ NothingOut(u, t)
               /\ u.q[x].task = "none" /\ u.q[x].via = v.q[x].via
<1> DEFINE u == Alone(v, t, x)
           o == Other(v, t, x)
           h == Unhook(v, t, x)
           p == ToProbe(h, o)
<1>1. /\ h \in Worker /\ Connected(h) /\ Hooks(h) /\ OffQ(v, h, x)
      /\ Taken(v, h, t, o) /\ o \in Queries \cup {0} /\ o # x
  BY UnhookOp
<1>2. CASE o = 0
  <2>1. u = h
    BY <1>2 DEF Alone
  <2> HIDE DEF o, h, u
  <2>2. /\ u \in Worker /\ Connected(u) /\ Hooks(u) /\ NothingOut(u, t)
        /\ u.q[x].task = "none" /\ u.q[x].via = v.q[x].via
    BY <1>1, <1>2, <2>1 DEF OffQ, Taken, NothingOut
  <2> QED BY <2>2 DEF u
<1>3. CASE o # 0
  <2>1. u = [p EXCEPT !.out[t] = 0]
    BY <1>3 DEF Alone
  <2> HIDE DEF u, h, o
  <2>2. Kept(h, p) /\ OffQ(h, p, o)
    BY <1>1, <1>3, OffOp, Zenon
  <2> HIDE DEF p
  <2>3. /\ u \in Worker /\ Connected(u) /\ u.q = p.q /\ u.race = h.race
        /\ u.out[t] = 0 /\ \A a \in Tasks \ {t} : u.out[a] = h.out[a]
    BY <2>1, <2>2, EditOut DEF Kept
  <2>4. u.q[x].task = "none" /\ u.q[x].via = v.q[x].via
    BY <1>1, <2>2, <2>3 DEF OffQ
  <2>5. Taken(h, u, t, 0)
    <3>1. \A a \in Tasks \ {t} : u.out[a] = h.out[a] /\ u.race[a] = h.race[a]
      BY <2>3
    <3>2. u.out[t] = 0 /\ u.race[t] = 0
      BY <1>1, <2>3 DEF Taken
    <3>3. ASSUME NEW y \in Queries \ {0}
          PROVE  IF h.q[y].task = t THEN u.q[y].task = "none"
                 ELSE u.q[y].task = h.q[y].task /\ (h.q[y].task # "none" => u.q[y].via = h.q[y].via)
      <4>1. h.q[y].task = t => y = o
        <5>1. h.q[y].task = t => y \in {h.out[t], h.race[t]}
          BY <1>1, OutboundAssumption, SMTT(60) DEF Hooks
        <5>2. y # 0 /\ h.race[t] = 0 /\ h.out[t] = o
          BY <1>1 DEF Taken
        <5> QED BY <5>1, <5>2
      <4> QED BY <1>1, <1>3, <2>2, <2>3, <4>1 DEF OffQ, Taken
    <3> QED BY <3>1, <3>2, <3>3 DEF Taken
  <2>6. Hooks(u)
    BY <1>1, <2>3, <2>5, TakenHooked
  <2> QED BY <2>3, <2>4, <2>5, <2>6 DEF Taken, NothingOut, u
<1> QED BY <1>2, <1>3

-----------------------------------------------------------------------------
(* Sending.                                                                 *)

\* The queries in use stay as they are.
Untouched(v, u) == \A y \in Queries : v.q[y].via # "none" => u.q[y] = v.q[y]

\* out_start() touches none of them.
LEMMA StartedUntouched ==
    ASSUME NEW v \in Worker, NEW t, NEW udp_only, NEW r, Started(v, t, udp_only, r)
    PROVE  Untouched(v, r.w)
BY OutboundAssumption DEF Started, Untouched

\* A query that is not in use has no task.
LEMMA UnusedNobody ==
    ASSUME NEW v \in Worker, Hooks(v), NEW y \in Queries, v.q[y].via = "none"
    PROVE  v.q[y].task = "none"
BY DEF Hooks

\* A task with nothing out has no query.
LEMMA NothingOutNone ==
    ASSUME NEW v \in Worker, Hooks(v), NEW t \in Tasks, NothingOut(v, t), NEW y \in Queries
    PROVE  v.q[y].task # t
BY OutboundAssumption DEF Hooks, NothingOut

\* elpis_out_send() for a task with nothing out: the new query is its query.
LEMMA SendOp ==
    ASSUME NEW v \in Worker, Connected(v), Hooks(v), NEW t \in Tasks, NEW s \in Servers,
           NothingOut(v, t), NEW tcp, NEW r \in OutSend(v, t, s, tcp)
    PROVE  /\ r.w \in Worker /\ Connected(r.w) /\ Hooks(r.w) /\ Untouched(v, r.w)
           /\ r.x \in Queries \cup {0} /\ r.w.out[t] = r.x /\ r.w.race[t] = 0
<1>1. Cancel(v, t) = v
  BY DEF Cancel, NothingOut
<1>2. PICK k \in OutStart(v, t, s, tcp, FALSE, FALSE) :
            r = [x |-> k.x, w |-> [k.w EXCEPT !.out[t] = k.x, !.again[t] = 0]]
  BY <1>1, Zenon DEF OutSend
<1> DEFINE a == [k.w EXCEPT !.out[t] = k.x]
           u == [a EXCEPT !.again[t] = 0]
<1>3. r.x = k.x /\ r.w = u
  BY <1>2
<1>4. Started(v, t, FALSE, k)
  BY OutStartOp, Zenon
<1>5. k.w \in Worker /\ Connected(k.w) /\ k.w.out = v.out /\ k.w.race = v.race /\ k.x \in Queries \cup {0}
  BY <1>4 DEF Started, Kept
<1>6. /\ a \in Worker /\ Connected(a) /\ a.q = k.w.q /\ a.race = v.race
      /\ a.out[t] = k.x /\ \A b \in Tasks \ {t} : a.out[b] = v.out[b]
  BY <1>5, EditOut
<1> HIDE DEF a
<1>7. u \in Worker /\ Connected(u) /\ u.q = k.w.q /\ u.out = a.out /\ u.race = v.race
  BY <1>6, EditAgain
<1> HIDE DEF u
<1>8. Taken(v, u, t, k.x)
  <2>1. k.x # 0 => u.q[k.x].task = t /\ u.q[k.x].via # "none" /\ v.q[k.x].task = "none"
    BY <1>4, <1>5, <1>7, UnusedNobody DEF Started
  <2>2. ASSUME NEW y \in Queries \ {k.x}
        PROVE  v.q[y].task # t /\ u.q[y].task = v.q[y].task
               /\ (v.q[y].task # "none" => u.q[y].via = v.q[y].via)
    <3>1. v.q[y].task # t
      BY NothingOutNone
    <3>2. u.q[y] = v.q[y] \/ (v.q[y].via = "none" /\ u.q[y].task = "none")
      BY <1>4, <1>7 DEF Started
    <3>3. v.q[y].via = "none" => v.q[y].task = "none"
      BY UnusedNobody
    <3> QED BY <3>1, <3>2, <3>3
  <2> QED BY <1>6, <1>7, <2>1, <2>2 DEF Taken, NothingOut
<1>9. Hooks(u)
  BY <1>5, <1>7, <1>8, TakenHooked
<1>10. Untouched(v, u)
  <2>1. Untouched(v, k.w)
    BY <1>4, StartedUntouched, Zenon
  <2> QED BY <1>7, <2>1 DEF Untouched
<1> QED BY <1>3, <1>5, <1>6, <1>7, <1>8, <1>9, <1>10 DEF NothingOut

\* What out_start() made is no task's.
GivenAway(v, r, u) ==
    /\ \A a \in Tasks : u.out[a] = v.out[a] /\ u.race[a] = v.race[a]
    /\ \A y \in Queries \ {r.x} : u.q[y] = r.w.q[y]
    /\ r.x # 0 => u.q[r.x].task = "none"

\* Then the tasks' pointers are as good as they were.
LEMMA StartedSame ==
    ASSUME NEW v \in Worker, Connected(v), Hooks(v), NEW t \in Tasks, NEW udp_only, NEW r,
           Started(v, t, udp_only, r), NEW u \in Worker, GivenAway(v, r, u)
    PROVE  Hooks(u)
<1>1. ASSUME NEW y \in Queries
      PROVE  u.q[y].task = v.q[y].task /\ (v.q[y].task # "none" => u.q[y].via = v.q[y].via)
  <2>1. v.q[y].via = "none" => v.q[y].task = "none"
    BY UnusedNobody
  <2>2. CASE y = r.x
    BY <2>1, <2>2, OutboundAssumption DEF Started, GivenAway
  <2>3. CASE y # r.x
    BY <2>1, <2>3 DEF Started, GivenAway
  <2> QED BY <2>2, <2>3
<1>2. SameHooks(v, u)
  BY <1>1 DEF SameHooks, GivenAway
<1> QED BY <1>2, SameHooked

\* elpis_out_race() adds at most a query that races the task's.
LEMMA RaceOp ==
    ASSUME NEW v \in Worker, Connected(v), Hooks(v), NEW t \in Tasks, NEW s \in Servers,
           NEW u \in OutRace(v, t, s)
    PROVE  u \in Worker /\ Connected(u) /\ Hooks(u) /\ Untouched(v, u)
<1>1. CASE u = v
  BY <1>1 DEF Untouched
<1>2. CASE u # v
  <2>1. v.out[t] # 0 /\ v.race[t] = 0 /\ v.q[v.out[t]].via = "udp"
    BY <1>2, Zenon DEF OutRace
  <2>2. PICK r \in OutStart(v, t, s, FALSE, TRUE, TRUE) :
              u = IF r.x = 0 THEN r.w ELSE [r.w EXCEPT !.race[t] = r.x]
    BY <1>2, Zenon DEF OutRace
  <2>3. Started(v, t, TRUE, r)
    BY OutStartOp, Zenon
  <2>4. r.w \in Worker /\ Connected(r.w) /\ r.w.out = v.out /\ r.w.race = v.race
    BY <2>3 DEF Started, Kept
  <2>5. Untouched(v, r.w)
    BY <2>3, StartedUntouched, Zenon
  <2>6. CASE r.x = 0
    <3>1. u = r.w
      BY <2>2, <2>6
    <3>2. GivenAway(v, r, r.w)
      BY <2>4, <2>6 DEF GivenAway
    <3>3. Hooks(r.w)
      BY <2>3, <2>4, <3>2, StartedSame, Zenon
    <3> QED BY <2>4, <2>5, <3>1, <3>3
  <2>7. CASE r.x # 0
    <3> DEFINE e == [r.w EXCEPT !.race[t] = r.x]
    <3>1. u = e
      BY <2>2, <2>7
    <3>2. /\ e \in Worker /\ Connected(e) /\ e.q = r.w.q /\ e.out = v.out
          /\ e.race[t] = r.x /\ \A a \in Tasks \ {t} : e.race[a] = v.race[a]
      BY <2>3, <2>4, EditRace DEF Started
    <3> HIDE DEF e
    <3>3. /\ \A a \in Tasks : v.out[a] \in Queries \cup {0} /\ v.race[a] \in Queries \cup {0}
          /\ \A y \in Queries : v.q[y].task \in Tasks \cup {"none"}
          /\ "none" \notin Tasks /\ 0 \notin Queries
      BY Pointers
    <3>4. ASSUME NEW y \in Queries, v.q[y].task # "none"
          PROVE  v.q[y].via # "none" /\ e.q[y] = v.q[y] /\ y # r.x
      BY <2>3, <2>7, <3>2, <3>4, UnusedNobody DEF Started
    <3>5. ASSUME NEW y \in Queries, e.q[y].task # "none", y # r.x
          PROVE  v.q[y].task # "none" /\ e.q[y] = v.q[y]
      BY <2>3, <3>2, <3>5 DEF Started
    <3>6. ASSUME NEW a \in Tasks
          PROVE  /\ e.out[a] # 0 => e.q[e.out[a]].task = a
                 /\ e.race[a] # 0 => /\ e.q[e.race[a]].task = a /\ e.q[e.race[a]].via = "udp"
                                     /\ e.out[a] # 0 /\ e.out[a] # e.race[a]
                                     /\ e.q[e.out[a]].via = "udp"
      <4>1. /\ v.out[a] # 0 => v.q[v.out[a]].task = a
            /\ v.race[a] # 0 => /\ v.q[v.race[a]].task = a /\ v.q[v.race[a]].via = "udp"
                                /\ v.out[a] # 0 /\ v.out[a] # v.race[a]
                                /\ v.q[v.out[a]].via = "udp"
        BY SMTT(60) DEF Hooks
      <4>2. a # "none"
        BY <3>3
      <4>3. CASE a = t
        <5>1. e.q[r.x].task = t /\ e.q[r.x].via = "udp"
          BY <2>3, <2>7, <3>2 DEF Started
        <5>2. e.q[v.out[t]] = v.q[v.out[t]] /\ v.out[t] # r.x
          BY <2>1, <3>3, <3>4, <4>1, <4>2, <4>3
        <5> QED BY <2>1, <3>2, <4>1, <4>3, <5>1, <5>2, SMTT(60)
      <4>4. CASE a # t
        BY <3>2, <3>3, <3>4, <4>1, <4>2, <4>4, SMTT(60)
      <4> QED BY <4>3, <4>4, SMTT(60)
    <3>7. ASSUME NEW y \in Queries, e.q[y].task # "none"
          PROVE  e.q[y].via # "none" /\ y \in {e.out[e.q[y].task], e.race[e.q[y].task]}
      <4>1. CASE y = r.x
        BY <2>3, <2>7, <3>2, <4>1, Zenon DEF Started
      <4>2. CASE y # r.x
        <5>1. v.q[y].task \in Tasks /\ e.q[y] = v.q[y] /\ v.q[y].via # "none"
              /\ y \in {v.out[v.q[y].task], v.race[v.q[y].task]}
          BY <3>3, <3>5, <3>7, <4>2, SMTT(60) DEF Hooks
        <5>2. v.q[y].task = t => y = v.out[t]
          BY <2>1, <3>3, <5>1
        <5> QED BY <3>2, <5>1, <5>2
      <4> QED BY <4>1, <4>2
    <3>8. Hooks(e)
      BY <3>6, <3>7, Zenon DEF Hooks
    <3>9. Untouched(v, e)
      BY <2>5, <3>2 DEF Untouched
    <3> QED BY <3>1, <3>2, <3>8, <3>9
  <2> QED BY <2>6, <2>7
<1> QED BY <1>1, <1>2

\* elpis_out_probe() adds at most a query nobody waits for.
LEMMA ProbeOp ==
    ASSUME NEW v \in Worker, Connected(v), Hooks(v), NEW t \in Tasks, NEW s \in Servers,
           NEW u \in OutProbe(v, t, s)
    PROVE  u \in Worker /\ Connected(u) /\ Hooks(u) /\ Untouched(v, u)
<1>1. PICK r \in OutStart(v, t, s, FALSE, TRUE, TRUE) :
            u = IF r.x = 0 THEN r.w ELSE ToProbe(r.w, r.x)
  BY Zenon DEF OutProbe
<1>2. Started(v, t, TRUE, r)
  BY OutStartOp, Zenon
<1>3. /\ r.w \in Worker /\ Connected(r.w) /\ r.w.out = v.out /\ r.w.race = v.race
      /\ r.x \in Queries \cup {0}
  BY <1>2 DEF Started, Kept
<1>4. Untouched(v, r.w)
  BY <1>2, StartedUntouched, Zenon
<1>5. CASE r.x = 0
  <2>1. u = r.w
    BY <1>1, <1>5
  <2>3. GivenAway(v, r, r.w)
    BY <1>3, <1>5 DEF GivenAway
  <2>2. Hooks(r.w)
    BY <1>2, <1>3, <2>3, StartedSame, Zenon
  <2> QED BY <1>3, <1>4, <2>1, <2>2
<1>6. CASE r.x # 0
  <2>1. u = ToProbe(r.w, r.x)
    BY <1>1, <1>6
  <2>2. Kept(r.w, u) /\ OffQ(r.w, u, r.x)
    BY <1>3, <1>6, <2>1, OffOp, Zenon
  <2>3. Hooks(u)
    <3>1. u \in Worker /\ GivenAway(v, r, u)
      BY <1>3, <2>2 DEF Kept, OffQ, GivenAway
    <3> QED BY <1>2, <3>1, StartedSame, Zenon
  <2>4. Untouched(v, u)
    BY <1>2, <1>4, <1>6, <2>2 DEF Untouched, OffQ, Started
  <2> QED BY <2>2, <2>3, <2>4 DEF Kept
<1> QED BY <1>5, <1>6

\* The rest of send_query() touches no query in use.
LEMMA ExploreOp ==
    ASSUME NEW v \in Worker, Connected(v), Hooks(v), NEW t \in Tasks, NEW s \in Servers,
           NEW u \in Explore(v, t, s)
    PROVE  u \in Worker /\ Connected(u) /\ Hooks(u) /\ Untouched(v, u)
<1> DEFINE G(m) == m \in Worker /\ Connected(m) /\ Hooks(m) /\ Untouched(v, m)
           raced == {v} \cup UNION {OutRace(v, t, a) : a \in Servers \ {s}}
<1>1. G(v)
  BY DEF Untouched
<1>2. u = v \/ \E r \in raced : u = r \/ \E a \in Servers : u \in OutProbe(r, t, a)
  BY DEF Explore
<1>3. ASSUME NEW r \in raced PROVE G(r)
  <2>1. r = v \/ \E a \in Servers : r \in OutRace(v, t, a)
    OBVIOUS
  <2> QED BY <1>1, <2>1, RaceOp
<1> HIDE DEF raced
<1>4. ASSUME NEW r \in raced, NEW a \in Servers, NEW m \in OutProbe(r, t, a) PROVE G(m)
  <2>1. G(r)
    BY <1>3
  <2>2. m \in Worker /\ Connected(m) /\ Hooks(m) /\ Untouched(r, m)
    BY <2>1, ProbeOp
  <2> QED BY <2>1, <2>2 DEF Untouched
<1> HIDE DEF G
<1>5. G(u)
  BY <1>1, <1>2, <1>3, <1>4
<1> QED BY <1>5 DEF G

\* elpis_out_cancel(): the task has nothing out.
LEMMA CancelOp ==
    ASSUME NEW v \in Worker, Connected(v), Hooks(v), NEW t \in Tasks
    PROVE  Cancel(v, t) \in Worker /\ Connected(Cancel(v, t)) /\ Hooks(Cancel(v, t))
<1> DEFINE x == v.race[t]
           m == ToProbe(v, x)
           r == IF x = 0 THEN v ELSE [m EXCEPT !.race[t] = 0]
           o == r.out[t]
           u == Cancel(v, t)
<1>1. u = IF o = 0 THEN r ELSE OutFree(r, o)
  BY DEF Cancel
<1>2. /\ v.out[t] \in Queries \cup {0} /\ x \in Queries \cup {0}
      /\ \A y \in Queries : v.q[y].task \in Tasks \cup {"none"}
      /\ "none" \notin Tasks /\ 0 \notin Queries
  BY Pointers
<1>3. r \in Worker /\ Connected(r) /\ Hooks(r) /\ r.race[t] = 0
  <2>1. CASE x = 0
    BY <2>1
  <2>2. CASE x # 0
    <3> DEFINE e == [m EXCEPT !.race[t] = 0]
    <3>1. Kept(v, m) /\ OffQ(v, m, x)
      BY <1>2, <2>2, OffOp, Zenon
    <3> HIDE DEF m
    <3>2. /\ e \in Worker /\ Connected(e) /\ e.q = m.q /\ e.out = v.out
          /\ e.race[t] = 0 /\ \A a \in Tasks \ {t} : e.race[a] = v.race[a]
      BY <3>1, EditRace DEF Kept
    <3> HIDE DEF e
    <3>3. /\ v.q[x].task = t /\ v.out[t] # 0 /\ v.out[t] # x
          /\ v.q[v.out[t]].task = t /\ v.q[v.out[t]].via = "udp"
          /\ \A y \in Queries : v.q[y].task = t => y \in {v.out[t], x}
      BY <1>2, <2>2 DEF Hooks
    <3>4. Taken(v, e, t, v.out[t])
      <4>1. e.q[v.out[t]].task = t /\ e.q[v.out[t]].via # "none"
        BY <1>2, <3>1, <3>2, <3>3, Zenon DEF OffQ
      <4>2. ASSUME NEW y \in Queries \ {v.out[t]}
            PROVE  IF v.q[y].task = t THEN e.q[y].task = "none"
                   ELSE e.q[y].task = v.q[y].task
                        /\ (v.q[y].task # "none" => e.q[y].via = v.q[y].via)
        BY <3>1, <3>2, <3>3, SMTT(60) DEF OffQ
      <4> QED BY <3>2, <3>3, <4>1, <4>2, SMTT(60) DEF Taken
    <3>5. Hooks(e)
      BY <1>2, <3>2, <3>4, TakenHooked
    <3> QED BY <2>2, <3>2, <3>5 DEF e
  <2> QED BY <2>1, <2>2
<1> HIDE DEF r
<1>4. CASE o = 0
  BY <1>1, <1>3, <1>4
<1>5. CASE o # 0
  <2>1. u = OutFree(r, o)
    BY <1>1, <1>5
  <2>2. /\ o \in Queries /\ r.q[o].task = t
        /\ \A y \in Queries : r.q[y].task = t => y = o
    BY <1>2, <1>3, <1>5, Pointers, SMTT(60) DEF Hooks
  <2> HIDE DEF u, o
  <2>3. /\ u \in Worker /\ Connected(u)
        /\ u.q[o] = NoQuery /\ \A y \in Queries \ {o} : u.q[y] = r.q[y]
        /\ \A a \in Tasks :
             /\ u.out[a] = IF r.out[a] = o /\ r.q[o].task = a THEN 0 ELSE r.out[a]
             /\ u.race[a] = IF r.race[a] = o /\ r.q[o].task = a THEN 0 ELSE r.race[a]
    BY <1>3, <2>1, <2>2, OutFreeOp
  <2>4. NoQuery.task = "none"
    BY DEF NoQuery
  <2> HIDE DEF NoQuery
  <2>5. Taken(r, u, t, 0)
    <3>1. /\ \A a \in Tasks \ {t} : u.out[a] = r.out[a] /\ u.race[a] = r.race[a]
          /\ u.out[t] = 0 /\ u.race[t] = 0
      BY <1>2, <1>3, <2>2, <2>3 DEF o
    <3>2. ASSUME NEW y \in Queries
          PROVE  IF r.q[y].task = t THEN u.q[y].task = "none"
                 ELSE u.q[y].task = r.q[y].task /\ u.q[y].via = r.q[y].via
      BY <2>2, <2>3, <2>4
    <3> QED BY <3>1, <3>2 DEF Taken
  <2>6. Hooks(u)
    BY <1>3, <2>3, <2>5, TakenHooked
  <2> QED BY <2>3, <2>6 DEF u
<1> QED BY <1>4, <1>5

-----------------------------------------------------------------------------
(* The handlers.                                                            *)

Good(v) == v \in Worker /\ Connected(v) /\ Hooks(v)

\* The calls a handler leaves to be made: a task with nothing out is stepped,
\* then the query that led to it freed, which is nobody's.
CallOK(v, x, c) ==
    \/ c = <<>>
    \/ \E t \in Tasks :
         /\ NothingOut(v, t)
         /\ \/ c = <<StepTask(t)>>
            \/ /\ c = <<StepTask(t), FreeQuery(x)>>
               /\ v.q[x].via # "none" /\ v.q[x].task = "none"

\* elpis_task_resend() for a task with nothing out.
LEMMA ResendOp ==
    ASSUME NEW v, Good(v), NEW t \in Tasks, NEW s \in Servers, NothingOut(v, t),
           NEW tcp, NEW cookie \in BOOLEAN, NEW r \in Resend(v, t, s, tcp, cookie), NEW x
    PROVE  Good(r.w) /\ CallOK(r.w, x, r.call)
<1>1. PICK k \in OutSend(v, t, s, tcp) :
            r = IF k.x = 0 THEN [w |-> k.w, call |-> <<StepTask(t)>>]
                ELSE [w |-> [k.w EXCEPT !.q[k.x].retry = cookie], call |-> <<>>]
  BY Zenon DEF Resend
<1>2. /\ k.w \in Worker /\ Connected(k.w) /\ Hooks(k.w)
      /\ k.x \in Queries \cup {0} /\ k.w.out[t] = k.x /\ k.w.race[t] = 0
  BY SendOp DEF Good
<1>3. CASE k.x = 0
  <2>1. r.w = k.w /\ r.call = <<StepTask(t)>>
    BY <1>1, <1>3
  <2> QED BY <1>2, <1>3, <2>1 DEF Good, CallOK, NothingOut
<1>4. CASE k.x # 0
  <2> DEFINE u == [k.w EXCEPT !.q[k.x].retry = cookie]
  <2>1. r.w = u /\ r.call = <<>>
    BY <1>1, <1>4
  <2>2. Kept(k.w, u) /\ MarkedQ(k.w, u, k.x)
    BY <1>2, <1>4, MarkOp, Zenon
  <2> HIDE DEF u
  <2>3. Hooks(u)
    BY <1>2, <1>4, <2>2, MarkedHooked DEF Kept
  <2> QED BY <2>1, <2>2, <2>3 DEF Good, CallOK, Kept
<1> QED BY <1>3, <1>4

\* handle_message(), whatever the answer says.
LEMMA HandleMessageOp ==
    ASSUME NEW v, Good(v), NEW x \in Queries, v.q[x].via # "none", NEW m,
           NEW r \in HandleMessage(v, x, m)
    PROVE  Good(r.w) /\ CallOK(r.w, x, r.call)
<1> DEFINE q == v.q[x]
           t == q.task
           unhooked == Unhook(v, t, x)
           alone == Alone(v, t, x)
           freed == OutFree(alone, x)
<1>1. \/ t = "none" /\ r = [w |-> OutFree(v, x), call |-> <<>>]
      \/ t # "none" /\ r = [w |-> OutFree(unhooked, x), call |-> <<>>]
      \/ t # "none" /\ \E tcp : \E cookie \in BOOLEAN : r \in Resend(freed, t, q.server, tcp, cookie)
      \/ t # "none" /\ r = [w |-> alone, call |-> <<StepTask(t), FreeQuery(x)>>]
  <2>1. HandleMessage(v, x, m) =
          CASE t = "none" -> {[w |-> OutFree(v, x), call |-> <<>>]}
            [] t # "none" /\ Other(v, t, x) # 0 /\ m \in {"unusable", "refusal"} ->
                 {[w |-> OutFree(unhooked, x), call |-> <<>>]}
            [] t # "none" /\ (m = "garbled" \/ (m = "refusal" /\ Other(v, t, x) = 0)) ->
                 Resend(freed, t, q.server, q.via # "udp", FALSE)
            [] t # "none" /\ m = "badcookie" /\ ~q.retry ->
                 Resend(freed, t, q.server, FALSE, TRUE)
            [] t # "none" /\ m = "truncated" /\ q.via = "udp" ->
                 Resend(freed, t, q.server, TRUE, FALSE)
            [] OTHER -> {[w |-> alone, call |-> <<StepTask(t), FreeQuery(x)>>]}
    BY Zenon DEF HandleMessage, Alone
  <2> HIDE DEF unhooked, alone, freed
  <2> QED BY <2>1, Zenon
<1>2. v \in Worker /\ Connected(v) /\ Hooks(v) /\ t \in Tasks \cup {"none"} /\ q.server \in Servers
  BY Pointers DEF Good, Connected
<1>3. CASE t = "none" /\ r = [w |-> OutFree(v, x), call |-> <<>>]
  <2>1. r.w = OutFree(v, x) /\ r.call = <<>>
    BY <1>3
  <2> QED BY <1>2, <1>3, <2>1, FreeNobody DEF Good, CallOK
<1>4. CASE t # "none" /\ r = [w |-> OutFree(unhooked, x), call |-> <<>>]
  <2>1. r.w = OutFree(unhooked, x) /\ r.call = <<>>
    BY <1>4
  <2>2. unhooked \in Worker /\ Connected(unhooked) /\ Hooks(unhooked) /\ unhooked.q[x].task = "none"
    BY <1>2, <1>4, UnhookOp, Zenon DEF OffQ
  <2> HIDE DEF unhooked
  <2> QED BY <2>1, <2>2, FreeNobody DEF Good, CallOK
<1>5. ASSUME t # "none"
      PROVE  /\ Good(alone) /\ NothingOut(alone, t) /\ alone.q[x].task = "none"
             /\ alone.q[x].via # "none" /\ Good(freed) /\ NothingOut(freed, t)
  <2>1. /\ alone \in Worker /\ Connected(alone) /\ Hooks(alone) /\ NothingOut(alone, t)
        /\ alone.q[x].task = "none" /\ alone.q[x].via = v.q[x].via
    BY <1>2, <1>5, AloneOp, Zenon
  <2> HIDE DEF alone
  <2>2. freed \in Worker /\ Connected(freed) /\ Hooks(freed) /\ SameHooks(alone, freed)
    BY <2>1, FreeNobody, Zenon
  <2> HIDE DEF freed
  <2> QED BY <1>2, <1>5, <2>1, <2>2, Zenon DEF Good, SameHooks, NothingOut
<1>6. CASE t # "none" /\ \E tcp : \E cookie \in BOOLEAN : r \in Resend(freed, t, q.server, tcp, cookie)
  <2> HIDE DEF freed
  <2> QED BY <1>2, <1>5, <1>6, ResendOp, Zenon
<1>7. CASE t # "none" /\ r = [w |-> alone, call |-> <<StepTask(t), FreeQuery(x)>>]
  <2>1. r.w = alone /\ r.call = <<StepTask(t), FreeQuery(x)>>
    BY <1>7
  <2> HIDE DEF alone
  <2> QED BY <1>2, <1>5, <1>7, <2>1, Zenon DEF CallOK
<1> QED BY <1>1, <1>3, <1>4, <1>6, <1>7, Zenon

\* The queries in use other than x stay as they are.
Others(v, u, x) == \A y \in Queries \ {x} : v.q[y].via # "none" => u.q[y] = v.q[y]

\* A task's query over DoT or TCP is its only one: no race is beside it.
LEMMA DotAlone ==
    ASSUME NEW v, Good(v), NEW x \in Queries, v.q[x].via # "udp", v.q[x].task # "none"
    PROVE  /\ v.q[x].task \in Tasks /\ v.out[v.q[x].task] = x /\ v.race[v.q[x].task] = 0
           /\ \A y \in Queries : v.q[y].task = v.q[x].task => y = x
<1> DEFINE t == v.q[x].task
<1>1. /\ t \in Tasks /\ v.out[t] \in Queries \cup {0} /\ v.race[t] \in Queries \cup {0}
      /\ 0 \notin Queries
  BY Pointers DEF Good
<1>2. /\ x \in {v.out[t], v.race[t]}
      /\ v.race[t] # 0 => v.q[v.race[t]].via = "udp" /\ v.q[v.out[t]].via = "udp"
      /\ \A y \in Queries : v.q[y].task = t => y \in {v.out[t], v.race[t]}
  BY <1>1, Zenon DEF Good, Hooks
<1>3. v.race[t] = 0
  BY <1>1, <1>2, Zenon
<1> QED BY <1>1, <1>2, <1>3

\* x, the task's only query, is handed over to what out_start() made.
HandedOver(v, u, t, x, r) ==
    /\ u \in Worker /\ Connected(u) /\ u.race = v.race
    /\ u.out[t] = r.x /\ \A a \in Tasks \ {t} : u.out[a] = v.out[a]
    /\ u.q[x].task = "none" /\ u.q[x].via = v.q[x].via
    /\ \A y \in Queries \ {x, r.x} : u.q[y] = r.w.q[y]
    /\ r.x # 0 => u.q[r.x].task = r.w.q[r.x].task /\ u.q[r.x].via = r.w.q[r.x].via

\* Noting on the new query how it was sent changes none of that.
LEMMA HandedOverMarked ==
    ASSUME NEW v, NEW b, NEW c, NEW u, NEW t, NEW x \in Queries, NEW r,
           HandedOver(v, b, t, x, r), r.x \in Queries, r.x # x,
           c.q = b.q, c.out = b.out, c.race = b.race, Kept(c, u), MarkedQ(c, u, r.x)
    PROVE  HandedOver(v, u, t, x, r)
<1> DEFINE y0 == r.x
<1>1. /\ u \in Worker /\ Connected(u) /\ u.race = b.race /\ u.out = b.out
      /\ \A y \in Queries \ {y0} : u.q[y] = b.q[y]
      /\ u.q[y0].task = b.q[y0].task /\ u.q[y0].via = b.q[y0].via
  BY Zenon DEF Kept, MarkedQ
<1>2. /\ b.race = v.race /\ b.out[t] = y0 /\ \A a \in Tasks \ {t} : b.out[a] = v.out[a]
      /\ b.q[x].task = "none" /\ b.q[x].via = v.q[x].via
      /\ \A y \in Queries \ {x, y0} : b.q[y] = r.w.q[y]
      /\ y0 # 0 => b.q[y0].task = r.w.q[y0].task /\ b.q[y0].via = r.w.q[y0].via
  BY Zenon DEF HandedOver
<1>3. x # y0 /\ u.q[x] = b.q[x]
  BY <1>1
<1>4. \A y \in Queries \ {x, y0} : u.q[y] = r.w.q[y]
  BY <1>1, <1>2, Zenon
<1>5. u.race = v.race /\ u.out[t] = r.x /\ \A a \in Tasks \ {t} : u.out[a] = v.out[a]
  BY <1>1, <1>2, Zenon
<1>6. u.q[x].task = "none" /\ u.q[x].via = v.q[x].via
  BY <1>2, <1>3, Zenon
<1>7. r.x # 0 => u.q[r.x].task = r.w.q[r.x].task /\ u.q[r.x].via = r.w.q[r.x].via
  BY <1>1, <1>2, Zenon
<1> QED BY <1>1, <1>4, <1>5, <1>6, <1>7, Zenon DEF HandedOver

\* Then the new query and the task point at each other.
LEMMA HandedOverGood ==
    ASSUME NEW v, Good(v), NEW x \in Queries, v.q[x].via = "dot", v.q[x].task # "none",
           NEW udp_only, NEW r, Started(v, v.q[x].task, udp_only, r), NEW u,
           HandedOver(v, u, v.q[x].task, x, r)
    PROVE  Good(u) /\ Others(v, u, x) /\ u.race[v.q[x].task] = 0
<1> DEFINE t == v.q[x].task
<1>1. /\ t \in Tasks /\ v.out[t] = x /\ v.race[t] = 0
      /\ \A y \in Queries : v.q[y].task = t => y = x
  BY DotAlone
<1>2. /\ v \in Worker /\ Connected(v) /\ Hooks(v) /\ u \in Worker /\ Connected(u)
      /\ \A y \in Queries : v.q[y].via = "none" => v.q[y].task = "none"
  <2>1. v \in Worker /\ Connected(v) /\ Hooks(v)
    BY DEF Good
  <2>2. \A y \in Queries : v.q[y].via = "none" => v.q[y].task = "none"
    BY <2>1, UnusedNobody
  <2> QED BY <2>1, <2>2, SMTT(60) DEF HandedOver
<1>3. r.x \in Queries \cup {0} /\ r.x # x
  BY OutboundAssumption DEF Started
<1>4. ASSUME NEW y \in Queries \ {x, r.x}
      PROVE  u.q[y] = v.q[y] \/ (v.q[y].via = "none" /\ v.q[y].task = "none" /\ u.q[y].task = "none")
  BY <1>2, SMTT(60) DEF Started, HandedOver
<1>5. r.x # 0 => /\ u.q[r.x].task = t /\ u.q[r.x].via # "none" /\ v.q[r.x].task = "none"
                 /\ v.q[r.x].via = "none"
  BY <1>2, <1>3, Zenon DEF Started, HandedOver
<1>6. Taken(v, u, t, r.x)
  <2>1. ASSUME NEW y \in Queries \ {r.x}
        PROVE  IF v.q[y].task = t THEN u.q[y].task = "none"
               ELSE u.q[y].task = v.q[y].task /\ (v.q[y].task # "none" => u.q[y].via = v.q[y].via)
    BY <1>1, <1>4, SMTT(60) DEF HandedOver
  <2> QED BY <1>1, <1>5, <2>1, Zenon DEF Taken, HandedOver
<1>7. Hooks(u)
  BY <1>1, <1>2, <1>3, <1>6, TakenHooked, SMTT(60)
<1>8. Others(v, u, x)
  <2> SUFFICES ASSUME NEW y \in Queries \ {x}, v.q[y].via # "none" PROVE u.q[y] = v.q[y]
    BY DEF Others
  <2>1. y # r.x
    BY <1>5, OutboundAssumption
  <2> QED BY <1>4, <2>1
<1>9. u.race[t] = 0
  BY <1>1, SMTT(60) DEF HandedOver
<1> QED BY <1>2, <1>7, <1>8, <1>9 DEF Good

\* The query given up is off its task, and something else the task's.
Over(d, t, x, o) == [d EXCEPT !.q[x].task = "none", !.out[t] = o]

\* What both ways of giving up a query over DoT leave: its task with nothing
\* out, or with the new query.
LEMMA NetOp ==
    ASSUME NEW v, Good(v), NEW x \in Queries, v.q[x].via = "dot", v.q[x].task # "none",
           NEW no_dot, NEW r \in OutStart(v, v.q[x].task, v.q[x].server, FALSE, FALSE, no_dot)
    PROVE  /\ Started(v, v.q[x].task, FALSE, r)
           /\ HandedOver(v, Over(r.w, v.q[x].task, x, r.x), v.q[x].task, x, r)
           /\ r.x = 0 => HandedOver(v, PointOut(r.w, v.q[x].task, 0, x), v.q[x].task, x, r)
<1> DEFINE t == v.q[x].task
           a == [r.w EXCEPT !.q[x].task = "none"]
           b == [a EXCEPT !.out[t] = r.x]
           c == PointOut(r.w, t, 0, x)
<1>1. v \in Worker /\ Connected(v) /\ v.q[x].server \in Servers /\ t \in Tasks
  BY DotAlone, Zenon DEF Good, Connected
<1>2. Started(v, t, FALSE, r)
  BY <1>1, OutStartOp, Zenon
<1>3. /\ r.w \in Worker /\ Connected(r.w) /\ r.w.out = v.out /\ r.w.race = v.race
      /\ r.x \in Queries \cup {0} /\ r.x # x
  BY <1>2, OutboundAssumption DEF Started, Kept
<1>4. r.w.q[x] = v.q[x]
  BY <1>2, <1>3 DEF Started
<1>5. Kept(r.w, a) /\ OffQ(r.w, a, x)
  BY <1>3, OffOp
<1>6. b = Over(r.w, t, x, r.x)
  BY DEF Over
<1> HIDE DEF a
<1>7. /\ b \in Worker /\ Connected(b) /\ b.q = a.q /\ b.race = v.race
      /\ b.out[t] = r.x /\ \A k \in Tasks \ {t} : b.out[k] = v.out[k]
  BY <1>1, <1>3, <1>5, EditOut, SMTT(60) DEF Kept
<1> HIDE DEF b
<1>8. HandedOver(v, b, t, x, r)
  BY <1>3, <1>4, <1>5, <1>7, SMTT(60) DEF HandedOver, OffQ
<1>9. ASSUME r.x = 0 PROVE HandedOver(v, c, t, x, r)
  <2>1. /\ c \in Worker /\ Connected(c) /\ OffQ(r.w, c, x) /\ c.race = v.race
        /\ c.out[t] = 0 /\ \A k \in Tasks \ {t} : c.out[k] = v.out[k]
    <3>1. /\ c \in Worker /\ Connected(c) /\ OffQ(r.w, c, x) /\ c.race = r.w.race
          /\ c.out[t] = 0 /\ \A k \in Tasks \ {t} : c.out[k] = r.w.out[k]
      <4>1. r.w \in Worker /\ Connected(r.w) /\ 0 \in Queries \cup {0}
        BY <1>3
      <4> HIDE DEF t
      <4> QED BY <1>1, <4>1, PointOp, SMTT(60)
    <3> HIDE DEF c
    <3> QED BY <1>3, <3>1
  <2> HIDE DEF c
  <2> QED BY <1>3, <1>4, <1>9, <2>1, SMTT(60) DEF HandedOver, OffQ
<1> QED BY <1>2, <1>6, <1>8, <1>9, Zenon

\* A query that was handed over is freed.
LEMMA FreeOver ==
    ASSUME NEW v, NEW u, Good(u), NEW x \in Queries, u.q[x].task = "none", Others(v, u, x)
    PROVE  Good(OutFree(u, x)) /\ Others(v, OutFree(u, x), x)
BY FreeNobody DEF Good, Others

\* dot_timeout(): the safety net, or a step.
LEMMA DotTimeoutOp ==
    ASSUME NEW v, Good(v), NEW x \in Queries, v.q[x].via = "dot", NEW e \in DotTimeout(v, x)
    PROVE  Good(e.w) /\ CallOK(e.w, x, e.call)
<1> DEFINE t == v.q[x].task
           s == v.q[x].server
           net(r) == OutFree(Over(r.w, t, x, r.x), x)
           off(r) == PointOut(r.w, t, 0, x)
<1>1. CASE t = "none"
  <2>1. e = [w |-> OutFree(v, x), call |-> <<>>]
    BY <1>1 DEF DotTimeout
  <2>2. e.w = OutFree(v, x) /\ e.call = <<>>
    BY <2>1
  <2> QED BY <1>1, <2>2, FreeNobody DEF Good, CallOK
<1>2. CASE t # "none"
  <2>1. t \in Tasks /\ v.out[t] = x
    BY <1>2, DotAlone
  <2>2. PICK r \in OutStart(v, t, s, FALSE, FALSE, TRUE) :
          e = IF r.x = 0 THEN [w |-> off(r), call |-> <<StepTask(t), FreeQuery(x)>>]
              ELSE [w |-> net(r), call |-> <<>>]
    BY <1>2, <2>1, Zenon DEF DotTimeout, Over, PointOut
  <2>3. /\ Started(v, t, FALSE, r) /\ HandedOver(v, Over(r.w, t, x, r.x), t, x, r)
        /\ r.x = 0 => HandedOver(v, off(r), t, x, r)
    BY <1>2, NetOp, Zenon
  <2>4. CASE r.x = 0
    <3> DEFINE u == off(r)
    <3>1. e.w = u /\ e.call = <<StepTask(t), FreeQuery(x)>>
      BY <2>2, <2>4
    <3>2. HandedOver(v, u, t, x, r)
      BY <2>3, <2>4
    <3> HIDE DEF u
    <3>3. Good(u) /\ u.race[t] = 0
      BY <1>2, <2>3, <3>2, HandedOverGood, Zenon
    <3>4. NothingOut(u, t) /\ u.q[x].via # "none" /\ u.q[x].task = "none"
      BY <2>4, <3>2, <3>3 DEF HandedOver, NothingOut
    <3> QED BY <2>1, <3>1, <3>3, <3>4 DEF CallOK
  <2>5. CASE r.x # 0
    <3> DEFINE u == Over(r.w, t, x, r.x)
    <3>1. e.w = OutFree(u, x) /\ e.call = <<>>
      BY <2>2, <2>5
    <3>2. HandedOver(v, u, t, x, r)
      BY <2>3
    <3> HIDE DEF u
    <3>3. Good(u) /\ Others(v, u, x)
      BY <1>2, <2>3, <3>2, HandedOverGood, Zenon
    <3>4. u.q[x].task = "none"
      BY <3>2 DEF HandedOver
    <3> QED BY <3>1, <3>3, <3>4, FreeOver DEF CallOK
  <2> QED BY <2>4, <2>5
<1> QED BY <1>1, <1>2

\* elpis_out_dot_failed(): the same, and the rest of the list is not touched.
LEMMA DotFailedOp ==
    ASSUME NEW v, Good(v), NEW x \in Queries, v.q[x].via = "dot", NEW lost,
           NEW e \in DotFailed(v, x, lost)
    PROVE  Good(e.w) /\ CallOK(e.w, x, e.call) /\ Others(v, e.w, x)
<1> DEFINE t == v.q[x].task
           s == v.q[x].server
           dot(r) == r.w.q[r.x].via = "dot"
           off(r) == PointOut(r.w, t, 0, x)
           moved(r) == OutFree([r.w EXCEPT !.q[x].task = "none", !.out[t] = r.x,
                                  !.again[t] = IF dot(r) THEN @ + 1 ELSE @,
                                  !.q[r.x].resent = dot(r)], x)
<1>1. CASE t = "none"
  <2> DEFINE u == [v EXCEPT !.q[x].task = "none"]
  <2>1. e = [w |-> OutFree(u, x), call |-> <<>>]
    BY <1>1 DEF DotFailed
  <2>2. e.w = OutFree(u, x) /\ e.call = <<>>
    BY <2>1
  <2>3. Kept(v, u) /\ OffQ(v, u, x)
    BY OffOp DEF Good
  <2> HIDE DEF u
  <2>4. Hooks(u)
    BY <1>1, <2>3, SameHooked DEF SameHooks, OffQ, Kept, Good
  <2>5. Good(u) /\ Others(v, u, x) /\ u.q[x].task = "none"
    BY <2>3, <2>4 DEF Good, Kept, OffQ, Others
  <2> QED BY <2>2, <2>5, FreeOver DEF CallOK
<1>2. CASE t # "none"
  <2>1. t \in Tasks /\ v.out[t] = x
    BY <1>2, DotAlone
  <2>2. PICK r \in OutStart(v, t, s, FALSE, FALSE, ~OverDotAgain(v.q[x], lost)) :
          e = IF r.x = 0 THEN [w |-> off(r), call |-> <<StepTask(t), FreeQuery(x)>>]
              ELSE [w |-> moved(r), call |-> <<>>]
    BY <1>2, <2>1, Zenon DEF DotFailed, PointOut
  <2>3. /\ Started(v, t, FALSE, r) /\ HandedOver(v, Over(r.w, t, x, r.x), t, x, r)
        /\ r.x = 0 => HandedOver(v, off(r), t, x, r)
    BY <1>2, NetOp, Zenon
  <2>4. CASE r.x = 0
    <3> DEFINE u == off(r)
    <3>1. e.w = u /\ e.call = <<StepTask(t), FreeQuery(x)>>
      BY <2>2, <2>4
    <3>2. HandedOver(v, u, t, x, r)
      BY <2>3, <2>4
    <3> HIDE DEF u
    <3>3. Good(u) /\ Others(v, u, x) /\ u.race[t] = 0
      BY <1>2, <2>3, <3>2, HandedOverGood, Zenon
    <3>4. NothingOut(u, t) /\ u.q[x].via # "none" /\ u.q[x].task = "none"
      BY <2>4, <3>2, <3>3, SMTT(60) DEF HandedOver, NothingOut
    <3> QED BY <2>1, <3>1, <3>3, <3>4, Zenon DEF CallOK
  <2>5. CASE r.x # 0
    <3> DEFINE b == Over(r.w, t, x, r.x)
               n == IF dot(r) THEN b.again[t] + 1 ELSE b.again[t]
               c == [b EXCEPT !.again[t] = n]
               u == [c EXCEPT !.q[r.x].resent = dot(r)]
    <3>1. e.w = OutFree(u, x) /\ e.call = <<>>
      <4>1. moved(r) = OutFree(u, x)
        BY DEF Over
      <4> QED BY <2>2, <2>5, <4>1, SMTT(60)
    <3>2. HandedOver(v, b, t, x, r)
      BY <2>3
    <3>3. r.x \in Queries /\ r.x # x /\ dot(r) \in BOOLEAN
      BY <2>3, <2>5, OutboundAssumption, Zenon DEF Started
    <3> HIDE DEF b, dot
    <3>4. n \in Nat
      BY <2>1, <3>2, WorkerParts, SMTT(60) DEF HandedOver
    <3> HIDE DEF n
    <3>5. c \in Worker /\ Connected(c) /\ c.q = b.q /\ c.out = b.out /\ c.race = b.race
      BY <2>1, <3>2, <3>4, EditAgain, SMTT(60) DEF HandedOver
    <3> HIDE DEF c
    <3>6. Kept(c, u) /\ MarkedQ(c, u, r.x)
      BY <3>3, <3>5, MarkOp, Zenon
    <3> HIDE DEF u
    <3>7. HandedOver(v, u, t, x, r)
      BY <3>2, <3>3, <3>5, <3>6, HandedOverMarked, Zenon
    <3>8. Good(u) /\ Others(v, u, x) /\ u.q[x].task = "none"
      <4>1. Good(u) /\ Others(v, u, x)
        BY <1>2, <2>3, <3>7, HandedOverGood, Zenon
      <4> QED BY <3>7, <4>1, SMTT(60) DEF HandedOver
    <3> QED BY <3>1, <3>8, FreeOver, SMTT(60) DEF CallOK
  <2> QED BY <2>4, <2>5
<1> QED BY <1>1, <1>2

\* out_timeout() for a plain query.
LEMMA PlainTimeoutOp ==
    ASSUME NEW v, Good(v), NEW x \in Queries
    PROVE  Good(PlainTimeout(v, x).w) /\ CallOK(PlainTimeout(v, x).w, x, PlainTimeout(v, x).call)
<1> DEFINE e == PlainTimeout(v, x)
           q == v.q[x]
           t == q.task
           udp == Listens(q)
           o == Other(v, t, x)
           off == IF t = "none" THEN v ELSE Unhook(v, t, x)
           lat == ListenOn(off, x)
<1>1. v \in Worker /\ Connected(v) /\ Hooks(v) /\ t \in Tasks \cup {"none"} /\ (q.late => t = "none")
      /\ "none" \notin Tasks /\ (t # "none" => q.via # "none")
  <2>1. v \in Worker /\ Connected(v) /\ Hooks(v)
    BY DEF Good
  <2>2. q \in Query
    BY <2>1, WorkerParts
  <2>3. t # "none" => q.via # "none"
    BY <2>1 DEF Hooks
  <2> HIDE DEF q
  <2> QED BY <2>1, <2>2, <2>3, OutboundAssumption DEF Query, QueryRec
<1>2. /\ Good(off) /\ off.q[x].task = "none" /\ off.q[x].via = q.via
      /\ t # "none" /\ o = 0 => NothingOut(off, t)
  <2>1. CASE t = "none"
    BY <1>1, <2>1 DEF Good
  <2>2. CASE t # "none"
    <3>1. off = Unhook(v, t, x)
      BY <2>2
    <3>2. /\ off \in Worker /\ Connected(off) /\ Hooks(off) /\ OffQ(v, off, x)
          /\ Taken(v, off, t, o)
      BY <1>1, <2>2, <3>1, UnhookOp, Zenon
    <3> HIDE DEF off, o
    <3> QED BY <3>2, SMTT(60) DEF Good, OffQ, Taken, NothingOut
  <2> QED BY <2>1, <2>2, Zenon
<1> HIDE DEF off
<1>3. Good(lat) /\ SameHooks(off, lat)
  <2>1. Kept(off, lat) /\ OffQ(off, lat, x)
    BY <1>2, OffOp, Zenon DEF Good
  <2> HIDE DEF lat
  <2>2. SameHooks(off, lat)
    BY <1>2, <2>1 DEF SameHooks, Kept, OffQ
  <2>3. Hooks(lat)
    BY <1>2, <2>1, <2>2, SameHooked DEF Good, Kept
  <2> QED BY <2>1, <2>2, <2>3 DEF Good, Kept
<1>4. Good(OutFree(off, x))
  BY <1>2, FreeNobody DEF Good
<1> HIDE DEF lat, udp, o
<1>5. CASE q.late
  <2>1. e = [w |-> OutFree(v, x), call |-> <<>>]
    BY <1>5 DEF PlainTimeout
  <2>2. e.w = OutFree(v, x) /\ e.call = <<>>
    BY <2>1
  <2> HIDE DEF e
  <2>3. Good(OutFree(v, x))
    BY <1>1, <1>5, FreeNobody DEF Good
  <2> QED BY <2>2, <2>3 DEF CallOK, e
<1>6. CASE ~q.late /\ (t = "none" \/ o # 0)
  <2>1. e = [w |-> IF udp THEN lat ELSE OutFree(off, x), call |-> <<>>]
    BY <1>6 DEF PlainTimeout, StillWaited, off, lat, udp, o
  <2>2. e.w = (IF udp THEN lat ELSE OutFree(off, x)) /\ e.call = <<>>
    BY <2>1
  <2> HIDE DEF e
  <2> QED BY <1>3, <1>4, <2>2 DEF CallOK, e
<1>7. CASE ~q.late /\ t # "none" /\ o = 0
  <2>1. e = [w |-> IF udp THEN lat ELSE off,
             call |-> <<StepTask(t)>> \o (IF udp THEN <<>> ELSE <<FreeQuery(x)>>)]
    BY <1>7 DEF PlainTimeout, StillWaited, off, lat, udp, o
  <2>2. /\ e.w = (IF udp THEN lat ELSE off)
        /\ e.call = IF udp THEN <<StepTask(t)>> ELSE <<StepTask(t), FreeQuery(x)>>
    BY <2>1, SMTT(60)
  <2> HIDE DEF e
  <2>3. t \in Tasks /\ NothingOut(off, t) /\ NothingOut(lat, t)
    BY <1>1, <1>2, <1>3, <1>7, SMTT(60) DEF SameHooks, NothingOut
  <2>4. CASE udp
    BY <1>3, <2>2, <2>3, <2>4 DEF CallOK, e
  <2>5. CASE ~udp
    BY <1>1, <1>2, <1>7, <2>2, <2>3, <2>5 DEF CallOK, e
  <2> QED BY <2>4, <2>5
<1> QED BY <1>5, <1>6, <1>7

-----------------------------------------------------------------------------
(* The events of a connection.                                              *)

\* A connection changes, but not its list.
LEMMA EditConn ==
    ASSUME NEW v, Good(v), NEW s \in Servers, NEW c \in Conn,
           c.pending = v.conn[s].pending
    PROVE  LET u == [v EXCEPT !.conn[s] = c] IN Good(u) /\ u.q = v.q
<1> DEFINE u == [v EXCEPT !.conn[s] = c]
<1>1. v \in Worker /\ Connected(v) /\ Hooks(v)
  BY DEF Good
<1>2. /\ u.conn = [v.conn EXCEPT ![s] = c] /\ u.q = v.q /\ u.out = v.out /\ u.race = v.race
  BY <1>1 DEF Worker
<1>3. u \in Worker
  BY <1>1 DEF Worker
<1> HIDE DEF u
<1>4. \A a \in Servers : u.conn[a].pending = v.conn[a].pending
  BY <1>1, <1>2, WorkerParts
<1>5. Connected(u)
  BY <1>1, <1>2, <1>4 DEF Connected
<1>6. Hooks(u)
  BY <1>1, <1>2, <1>3, SameHooked DEF SameHooks
<1> QED BY <1>2, <1>3, <1>5, <1>6 DEF Good, u

\* The queries on the list are off their connection, and otherwise as they were.
OffList(v, u, list) ==
    /\ u \in Worker /\ u.conn = v.conn /\ u.out = v.out /\ u.race = v.race
    /\ \A y \in Queries :
         /\ u.q[y].task = v.q[y].task /\ u.q[y].via = v.q[y].via
         /\ u.q[y].server = v.q[y].server
         /\ u.q[y].conn = IF y \in Range(list) THEN FALSE ELSE v.q[y].conn

\* The first loop of conn_fail().
LEMMA OffConnOp ==
    ASSUME NEW v, Good(v), NEW list
    PROVE  OffList(v, OffConn(v, list), list)
<1> DEFINE off(y) == [v.q[y] EXCEPT !.conn = FALSE]
           f == [y \in Queries |-> IF y \in Range(list) THEN off(y) ELSE v.q[y]]
           u == [v EXCEPT !.q = f]
<1>1. v \in Worker /\ \A y \in Queries : v.q[y] \in Query
  BY WorkerParts DEF Good
<1>2. ASSUME NEW y \in Queries
      PROVE  /\ off(y) \in Query /\ off(y).task = v.q[y].task /\ off(y).via = v.q[y].via
             /\ off(y).server = v.q[y].server /\ off(y).conn = FALSE
  <2> DEFINE q == v.q[y]
  <2>1. q \in QueryRec /\ (q.late => q.task = "none")
    BY <1>1 DEF Query
  <2> HIDE DEF q
  <2>2. LET r == [q EXCEPT !.conn = FALSE]
        IN  /\ r \in QueryRec /\ r.late = q.late /\ r.task = q.task /\ r.via = q.via
            /\ r.server = q.server /\ r.conn = FALSE
    BY <2>1, Zenon DEF QueryRec
  <2> QED BY <2>1, <2>2, Zenon DEF Query, q
<1> HIDE DEF off
<1>3. f \in [Queries -> Query]
  BY <1>1, <1>2, Zenon
<1>4. \A y \in Queries : f[y] = IF y \in Range(list) THEN off(y) ELSE v.q[y]
  OBVIOUS
<1>5. OffConn(v, list) = u
  BY DEF OffConn, off
<1> HIDE DEF f
<1>6. u \in Worker /\ u.q = f /\ u.conn = v.conn /\ u.out = v.out /\ u.race = v.race
  BY <1>1, <1>3 DEF Worker
<1> HIDE DEF u
<1>7. ASSUME NEW y \in Queries
      PROVE  /\ u.q[y].task = v.q[y].task /\ u.q[y].via = v.q[y].via
             /\ u.q[y].server = v.q[y].server
             /\ u.q[y].conn = IF y \in Range(list) THEN FALSE ELSE v.q[y].conn
  <2>1. CASE y \in Range(list)
    BY <1>2, <1>4, <1>6, <2>1, Zenon
  <2>2. CASE y \notin Range(list)
    BY <1>4, <1>6, <2>2
  <2> QED BY <2>1, <2>2, Zenon
<1> QED BY <1>5, <1>6, <1>7, Zenon DEF OffList

\* conn_fail() up to its last loop: the connection is gone, and the list to
\* walk is of queries off it.
LEMMA ConnFailOp ==
    ASSUME NEW v, Good(v), NEW s \in Servers
    PROVE  LET u == ConnFail(v, s).w
               list == v.conn[s].pending
           IN  /\ Good(u) /\ list \in Seq(Queries) /\ Walked(u, list)
               /\ ConnFail(v, s).call =
                    <<[fn |-> "back", list |-> list, lost |-> v.conn[s].answers]>>
               /\ v.conn[s].answers \in BOOLEAN
<1> DEFINE list == v.conn[s].pending
           o == OffConn(v, list)
           u == ConnClose(o, s)
<1>1. v \in Worker /\ Connected(v) /\ Hooks(v)
  BY DEF Good
<1>2. list \in Seq(Queries) /\ v.conn[s].answers \in BOOLEAN
  BY <1>1, WorkerParts DEF Conn
<1>3. /\ ConnFail(v, s).w = u
      /\ ConnFail(v, s).call = <<[fn |-> "back", list |-> list, lost |-> v.conn[s].answers]>>
  BY DEF ConnFail
<1> HIDE DEF list
<1>4. /\ o \in Worker /\ o.conn = v.conn /\ o.out = v.out /\ o.race = v.race
      /\ \A y \in Queries :
           /\ o.q[y].task = v.q[y].task /\ o.q[y].via = v.q[y].via
           /\ o.q[y].server = v.q[y].server
           /\ o.q[y].conn = IF y \in Range(list) THEN FALSE ELSE v.q[y].conn
  <2>1. OffList(v, o, list)
    BY OffConnOp
  <2> HIDE DEF o
  <2> QED BY <2>1, Zenon DEF OffList
<1> HIDE DEF o
<1>5. /\ u \in Worker /\ u.q = o.q /\ u.out = o.out /\ u.race = o.race
      /\ u.conn[s].pending = <<>> /\ \A a \in Servers \ {s} : u.conn[a] = o.conn[a]
  BY <1>4, CloseFields
<1> HIDE DEF u
<1>6. Range(list) \subseteq Queries
  BY <1>2, InSeq
<1>7. Walked(u, list)
  <2>1. IsInjective(list) /\ \A y \in Range(list) : v.q[y].via = "dot"
    BY <1>1 DEF Connected, list
  <2> QED BY <1>4, <1>5, <1>6, <2>1, Zenon DEF Walked
<1>8. Connected(u)
  <2>1. ASSUME NEW a \in Servers
        PROVE  /\ IsInjective(u.conn[a].pending)
               /\ \A y \in Range(u.conn[a].pending) :
                    u.q[y].via = "dot" /\ u.q[y].conn /\ u.q[y].server = a
    <3>1. CASE a = s
      BY <1>5, <3>1, EmptyList
    <3>2. CASE a # s
      <4>1. u.conn[a] = v.conn[a]
        BY <1>4, <1>5, <3>2
      <4>2. IsInjective(v.conn[a].pending)
        BY <1>1 DEF Connected
      <4>3. ASSUME NEW y \in Range(v.conn[a].pending)
            PROVE  u.q[y].via = "dot" /\ u.q[y].conn /\ u.q[y].server = a
        <5>1. v.q[y].via = "dot" /\ v.q[y].conn /\ v.q[y].server = a
          BY <1>1, <4>3 DEF Connected
        <5>2. y \notin Range(list)
          BY <1>1, <3>2, <5>1 DEF Connected, list
        <5>3. y \in Queries
          <6>1. v.conn[a].pending \in Seq(Queries)
            BY <1>1, WorkerParts DEF Conn
          <6> QED BY <4>3, <6>1, InSeq
        <5> QED BY <1>4, <1>5, <5>1, <5>2, <5>3, Zenon
      <4> QED BY <4>1, <4>2, <4>3
    <3> QED BY <3>1, <3>2
  <2>2. ASSUME NEW y \in Queries, u.q[y].conn \/ u.q[y].via # "none"
        PROVE  u.q[y].server \in Servers
    <3>1. v.q[y].conn \/ v.q[y].via # "none"
      BY <1>4, <1>5, <2>2, Zenon
    <3> QED BY <1>1, <1>4, <1>5, <3>1, ZenonT(30) DEF Connected
  <2> QED BY <2>1, <2>2 DEF Connected
<1>9. Hooks(u)
  BY <1>1, <1>4, <1>5, SameHooked, Zenon DEF SameHooks
<1> QED BY <1>2, <1>3, <1>5, <1>7, <1>8, <1>9 DEF Good, list

\* Queries that keep their task, their connection and their server.
SameShape(d, u) ==
    /\ u.conn = d.conn /\ u.out = d.out /\ u.race = d.race
    /\ \A y \in Queries :
         /\ u.q[y].task = d.q[y].task /\ u.q[y].via = d.q[y].via
         /\ u.q[y].server = d.q[y].server /\ u.q[y].conn = d.q[y].conn

\* Nothing else matters to pointers and lists.
LEMMA ShapeGood ==
    ASSUME NEW d, Good(d), NEW u \in Worker, SameShape(d, u)
    PROVE  Good(u)
<1>1. d \in Worker /\ Connected(d) /\ Hooks(d)
  BY DEF Good
<1>2. Connected(u)
  <2>1. \A a \in Servers : Range(d.conn[a].pending) \subseteq Queries
    <3> SUFFICES ASSUME NEW a \in Servers PROVE Range(d.conn[a].pending) \subseteq Queries
      OBVIOUS
    <3>1. d.conn[a].pending \in Seq(Queries)
      BY <1>1, WorkerParts DEF Conn
    <3> QED BY <3>1, InSeq
  <2>2. \A y \in Queries :
          u.q[y].conn \/ u.q[y].via # "none" => u.q[y].server \in Servers
    BY <1>1 DEF Connected, SameShape
  <2> QED BY <1>1, <2>1, <2>2, StaysConnected DEF SameShape
<1>3. Hooks(u)
  BY <1>1, SameHooked DEF SameHooks, SameShape
<1> QED BY <1>2, <1>3 DEF Good

\* The handshake with s is done, and the queries L have been sent.
OpenWith(v, s, b, L) ==
    [v EXCEPT !.conn[s] = [v.conn[s] EXCEPT !.open = TRUE, !.timer = b],
              !.n_hs = v.n_hs - 1,
              !.q = [x \in Queries |-> IF x \in L THEN [v.q[x] EXCEPT !.sent = TRUE]
                                        ELSE v.q[x]]]

\* on_open(): the list is sent.
LEMMA OpenedOp ==
    ASSUME NEW v, Good(v), NEW s \in Servers, NEW b \in BOOLEAN, NEW L
    PROVE  Good(OpenWith(v, s, b, L))
<1> DEFINE sent(y) == [v.q[y] EXCEPT !.sent = TRUE]
           f == [y \in Queries |-> IF y \in L THEN sent(y) ELSE v.q[y]]
           c == [v.conn[s] EXCEPT !.open = TRUE, !.timer = b]
           d == [v EXCEPT !.conn[s] = c]
           n == v.n_hs - 1
           u == OpenWith(v, s, b, L)
<1>1. v \in Worker /\ (\A y \in Queries : v.q[y] \in Query) /\ v.conn[s] \in Conn /\ n \in Int
  BY WorkerParts DEF Good
<1>2. c \in Conn /\ c.pending = v.conn[s].pending
  BY <1>1, Zenon DEF Conn
<1>3. \A y \in Queries :
        /\ sent(y) \in Query /\ sent(y).task = v.q[y].task /\ sent(y).via = v.q[y].via
        /\ sent(y).server = v.q[y].server /\ sent(y).conn = v.q[y].conn
  BY <1>1, QueryFields, Zenon
<1>4. u = [d EXCEPT !.n_hs = n, !.q = f]
  <2> HIDE DEF c, n, f
  <2>1. u = [v EXCEPT !.conn[s] = c, !.n_hs = n, !.q = f]
    BY DEF c, n, f, OpenWith
  <2> QED BY <1>1, <2>1 DEF Worker
<1> HIDE DEF c, n, sent, u
<1>5. f \in [Queries -> Query]
  BY <1>1, <1>3
<1>6. \A y \in Queries :
        /\ f[y].task = v.q[y].task /\ f[y].via = v.q[y].via
        /\ f[y].server = v.q[y].server /\ f[y].conn = v.q[y].conn
  BY <1>3
<1> HIDE DEF f
<1>7. Good(d) /\ d.q = v.q
  BY <1>2, EditConn
<1> HIDE DEF d
<1>8. u \in Worker /\ u.q = f /\ u.conn = d.conn /\ u.out = d.out /\ u.race = d.race
  BY <1>1, <1>4, <1>5, <1>7, Zenon DEF Good, Worker
<1>9. SameShape(d, u)
  BY <1>6, <1>7, <1>8 DEF SameShape
<1> QED BY <1>7, <1>8, <1>9, ShapeGood DEF u

\* The start of a turn of drain(): the connection has given an answer, and
\* the query's timer is deleted.
LEMMA DrainOp ==
    ASSUME NEW v, Good(v), NEW s \in Servers, NEW x \in Queries
    PROVE  LET u == [v EXCEPT !.conn[s].answers = TRUE, !.q[x].timer = FALSE]
           IN  Good(u) /\ u.q[x].via = v.q[x].via
<1> DEFINE c == [v.conn[s] EXCEPT !.answers = TRUE]
           d == [v EXCEPT !.conn[s] = c]
           u == [d EXCEPT !.q[x].timer = FALSE]
<1>1. v \in Worker /\ v.conn[s] \in Conn
  BY WorkerParts DEF Good
<1>2. c \in Conn /\ c.pending = v.conn[s].pending
  BY <1>1, Zenon DEF Conn
<1>3. [v EXCEPT !.conn[s].answers = TRUE, !.q[x].timer = FALSE] = u
  OBVIOUS
<1> HIDE DEF c
<1>4. Good(d) /\ d.q = v.q
  BY <1>2, EditConn
<1> HIDE DEF d
<1>5. Kept(d, u) /\ MarkedQ(d, u, x)
  BY <1>4, MarkOp, Zenon DEF Good
<1> HIDE DEF u
<1>6. Hooks(u)
  BY <1>4, <1>5, MarkedHooked DEF Good, Kept
<1>7. Good(u) /\ u.q[x].via = v.q[x].via
  BY <1>4, <1>5, <1>6 DEF Good, Kept, MarkedQ
<1> QED BY <1>3, <1>7

\* A query's timer is deleted, or runs out.
LEMMA TimerOp ==
    ASSUME NEW v, Good(v), NEW x \in Queries
    PROVE  LET u == [v EXCEPT !.q[x].timer = FALSE]
           IN  Good(u) /\ u.q[x].via = v.q[x].via
<1> DEFINE u == [v EXCEPT !.q[x].timer = FALSE]
<1>1. Kept(v, u) /\ MarkedQ(v, u, x)
  BY MarkOp, Zenon DEF Good
<1> HIDE DEF u
<1>2. Hooks(u)
  BY <1>1, MarkedHooked DEF Good, Kept
<1>3. Good(u) /\ u.q[x].via = v.q[x].via
  BY <1>1, <1>2 DEF Good, Kept, MarkedQ
<1> QED BY <1>3 DEF u

\* tcp_fail(): the task has nothing out, the query nobody.
LEMMA TcpFailOp ==
    ASSUME NEW v, Good(v), NEW x \in Queries, v.q[x].via = "tcp", v.q[x].task # "none"
    PROVE  LET t == v.q[x].task
               u == PointOut(v, t, 0, x)
           IN  /\ Good(u) /\ t \in Tasks /\ NothingOut(u, t)
               /\ u.q[x].via # "none" /\ u.q[x].task = "none"
<1> DEFINE t == v.q[x].task
           u == PointOut(v, t, 0, x)
<1>1. /\ t \in Tasks /\ v.out[t] = x /\ v.race[t] = 0
      /\ \A y \in Queries : v.q[y].task = t => y = x
  BY DotAlone
<1>2. v \in Worker /\ Connected(v) /\ Hooks(v)
  BY DEF Good
<1>3. /\ u \in Worker /\ Connected(u) /\ OffQ(v, u, x) /\ u.race = v.race
      /\ u.out[t] = 0 /\ \A a \in Tasks \ {t} : u.out[a] = v.out[a]
  BY <1>1, <1>2, PointOp, SMTT(60)
<1> HIDE DEF u
<1>4. Taken(v, u, t, 0)
  BY <1>1, <1>3 DEF Taken, OffQ
<1>5. Hooks(u)
  BY <1>1, <1>2, <1>3, <1>4, TakenHooked
<1>6. NothingOut(u, t) /\ u.q[x].via # "none" /\ u.q[x].task = "none"
  BY <1>1, <1>3 DEF NothingOut, OffQ
<1> QED BY <1>1, <1>3, <1>5, <1>6, Zenon DEF Good, u
=============================================================================
