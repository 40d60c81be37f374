--------------------------- MODULE OutboundEdits ----------------------------
(***************************************************************************)
(* What holds between the handlers of a worker's queries (IInv), and what  *)
(* it is kept by: the sequences it is about, the DoT connections, and each *)
(* assignment to a query or to a task's pointers. OutboundCalls builds the *)
(* code's calls of these, OutboundProofs its steps.                        *)
(*                                                                         *)
(* Tasks and queries agree (Hooks), and a connection's list holds queries  *)
(* that point at it (Connected); what out_start() leaves behind is a new   *)
(* query, whatever DoT connections it opens and closes on the way          *)
(* (Started).                                                              *)
(***************************************************************************)
EXTENDS Outbound, TLAPS

Vias == {"none", "udp", "tcp", "dot"}
\* One that is listened for after its timer ran out is nobody's.
QueryRec ==
         [via : Vias, task : Tasks \cup {"none"}, server : Servers \cup {"none"},
          conn : BOOLEAN, probe : BOOLEAN, late : BOOLEAN, test : BOOLEAN,
          resent : BOOLEAN, retry : BOOLEAN, sent : BOOLEAN, timer : BOOLEAN]
Query == {q \in QueryRec : q.late => q.task = "none"}
Conn == [up : BOOLEAN, open : BOOLEAN, pending : Seq(Queries), answers : BOOLEAN,
         timer : BOOLEAN]
Worker == [q : [Queries -> Query], out : [Tasks -> Queries \cup {0}],
           race : [Tasks -> Queries \cup {0}], conn : [Servers -> Conn],
           n_dot : Int, n_hs : Int, again : [Tasks -> Nat]]

\* A connection's list holds queries over DoT that point at it, once each.
Connected(v) ==
    /\ \A s \in Servers :
         /\ IsInjective(v.conn[s].pending)
         /\ \A x \in Range(v.conn[s].pending) :
              v.q[x].via = "dot" /\ v.q[x].conn /\ v.q[x].server = s
    /\ \A x \in Queries :
         v.q[x].conn \/ v.q[x].via # "none" => v.q[x].server \in Servers

\* A task points at its queries and they point back; a race is beside a query
\* over UDP, and is one itself.
Hooks(v) ==
    /\ \A t \in Tasks :
         /\ v.out[t] # 0 => v.q[v.out[t]].task = t
         /\ v.race[t] # 0 => /\ v.q[v.race[t]].task = t /\ v.q[v.race[t]].via = "udp"
                             /\ v.out[t] # 0 /\ v.out[t] # v.race[t]
                             /\ v.q[v.out[t]].via = "udp"
    /\ \A x \in Queries : v.q[x].task # "none" =>
         v.q[x].via # "none" /\ x \in {v.out[v.q[x].task], v.race[v.q[x].task]}

Steps == [fn : {"step"}, t : Tasks, left : SUBSET Servers, below : SUBSET Tasks]
Frees == [fn : {"free"}, x : Queries]
Events == [fn : {"event"}, s : Servers]
Backs == [fn : {"back"}, list : Seq(Queries), lost : BOOLEAN]
Frame == Steps \cup Frees \cup Events \cup Backs

NothingOut(v, t) == v.out[t] = 0 /\ v.race[t] = 0

\* The list conn_fail() walks: each query once, off its connection.
Walked(v, list) ==
    /\ IsInjective(list)
    /\ \A x \in Range(list) : v.q[x].via = "dot" /\ ~v.q[x].conn

BaseOK(v, b) ==
    b # <<>> => /\ Tail(b) = <<>> /\ Head(b) \in Events \cup Backs
                /\ Head(b).fn = "back" => Walked(v, Head(b).list)

\* A query that is freed when the step returns: nobody's, and not on the walk.
FreeOK(v, x, b) ==
    /\ v.q[x].via # "none" /\ v.q[x].task = "none"
    /\ b # <<>> /\ Head(b).fn = "back" => x \notin Range(Head(b).list)

RestOK(v, r) ==
    IF r # <<>> /\ Head(r).fn = "free"
    THEN FreeOK(v, Head(r).x, Tail(r)) /\ BaseOK(v, Tail(r))
    ELSE BaseOK(v, r)

StackOK(v, k) ==
    IF k # <<>> /\ Head(k).fn = "step"
    THEN NothingOut(v, Head(k).t) /\ RestOK(v, Tail(k))
    ELSE RestOK(v, k)

IInv ==
    /\ w \in Worker /\ Connected(w) /\ Hooks(w)
    /\ stack \in Seq(Frame) /\ StackOK(w, stack)

-----------------------------------------------------------------------------
(* Sequences.                                                               *)

\* What is in a sequence, by position.
LEMMA InSeq ==
    ASSUME NEW S, NEW p \in Seq(S)
    PROVE  /\ DOMAIN p = 1..Len(p) /\ Len(p) \in Nat
           /\ Range(p) \subseteq S
           /\ \A x : x \in Range(p) <=> \E i \in 1..Len(p) : p[i] = x
<1>1. DOMAIN p = 1..Len(p) /\ Len(p) \in Nat /\ \A i \in 1..Len(p) : p[i] \in S
  OBVIOUS
<1> QED BY <1>1 DEF Range

\* A list without repetitions goes on without one when x is not on it.
LEMMA AppendList ==
    ASSUME NEW S, NEW p \in Seq(S), IsInjective(p), NEW x \in S, x \notin Range(p)
    PROVE  /\ Append(p, x) \in Seq(S) /\ IsInjective(Append(p, x))
           /\ Range(Append(p, x)) = Range(p) \cup {x}
<1> DEFINE a == Append(p, x)
<1>1. /\ a \in Seq(S) /\ Len(a) = Len(p) + 1 /\ Len(p) \in Nat
      /\ \A i \in 1..Len(p) : a[i] = p[i]
      /\ a[Len(p) + 1] = x
  OBVIOUS
<1>2. \A y : y \in Range(a) <=> \E i \in 1..Len(a) : a[i] = y
  BY <1>1, InSeq, Zenon
<1>3. \A y : y \in Range(p) <=> \E i \in 1..Len(p) : p[i] = y
  BY InSeq
<1>4. DOMAIN a = 1..Len(a) /\ DOMAIN p = 1..Len(p)
  BY <1>1, InSeq
<1> HIDE DEF a
<1>5. IsInjective(a)
  <2> SUFFICES ASSUME NEW i \in 1..Len(a), NEW j \in 1..Len(a), a[i] = a[j] PROVE i = j
    BY <1>4 DEF IsInjective
  <2>1. CASE i \in 1..Len(p) /\ j \in 1..Len(p)
    BY <1>1, <1>4, <2>1 DEF IsInjective
  <2>2. CASE i = Len(p) + 1 /\ j \in 1..Len(p)
    BY <1>1, <1>3, <2>2
  <2>3. CASE j = Len(p) + 1 /\ i \in 1..Len(p)
    BY <1>1, <1>3, <2>3
  <2> QED BY <1>1, <2>1, <2>2, <2>3
<1>6. Range(a) = Range(p) \cup {x}
  <2>1. ASSUME NEW y \in Range(a) PROVE y \in Range(p) \cup {x}
    <3>1. PICK i \in 1..Len(a) : a[i] = y
      BY <1>2, <2>1
    <3> QED BY <1>1, <1>3, <3>1
  <2>2. ASSUME NEW y \in Range(p) PROVE y \in Range(a)
    <3>1. PICK i \in 1..Len(p) : p[i] = y
      BY <1>3, <2>2
    <3>2. i \in 1..Len(a) /\ a[i] = y
      BY <1>1, <3>1
    <3> QED BY <1>2, <3>2
  <2>3. x \in Range(a)
    <3>1. Len(p) + 1 \in 1..Len(a)
      BY <1>1
    <3> QED BY <1>1, <1>2, <3>1
  <2> QED BY <2>1, <2>2, <2>3
<1> QED BY <1>1, <1>5, <1>6 DEF a

\* The rest of a list without repetitions.
LEMMA TailList ==
    ASSUME NEW S, NEW p \in Seq(S), p # <<>>, IsInjective(p)
    PROVE  /\ Head(p) \in Range(p) /\ Tail(p) \in Seq(S) /\ IsInjective(Tail(p))
           /\ Range(Tail(p)) \subseteq Range(p) \ {Head(p)}
<1> DEFINE b == Tail(p)
<1>1. /\ b \in Seq(S) /\ Len(b) = Len(p) - 1 /\ Len(p) \in Nat \ {0} /\ Head(p) = p[1]
      /\ \A i \in 1..Len(b) : b[i] = p[i + 1]
  <2>1. Len(p) \in Nat \ {0}
    OBVIOUS
  <2>2. Head(p) = p[1]
    OBVIOUS
  <2> QED BY <2>1, <2>2
<1>2. /\ DOMAIN b = 1..Len(b) /\ DOMAIN p = 1..Len(p)
      /\ \A y : y \in Range(b) <=> \E i \in 1..Len(b) : b[i] = y
      /\ \A y : y \in Range(p) <=> \E i \in 1..Len(p) : p[i] = y
  <2>1. DOMAIN b = 1..Len(b) /\ \A y : y \in Range(b) <=> \E i \in 1..Len(b) : b[i] = y
    <3> HIDE DEF b
    <3> QED BY <1>1, InSeq
  <2>2. DOMAIN p = 1..Len(p) /\ \A y : y \in Range(p) <=> \E i \in 1..Len(p) : p[i] = y
    BY InSeq
  <2> QED BY <2>1, <2>2
<1> HIDE DEF b
<1>3. IsInjective(b)
  <2> SUFFICES ASSUME NEW i \in 1..Len(b), NEW j \in 1..Len(b), b[i] = b[j] PROVE i = j
    BY <1>2 DEF IsInjective
  <2>1. i + 1 \in 1..Len(p) /\ j + 1 \in 1..Len(p) /\ p[i + 1] = p[j + 1]
    BY <1>1
  <2>2. i + 1 = j + 1
    BY <1>2, <2>1 DEF IsInjective
  <2> QED BY <2>2
<1>4. ASSUME NEW y \in Range(b) PROVE y \in Range(p) /\ y # Head(p)
  <2>1. PICK i \in 1..Len(b) : b[i] = y
    BY <1>2, <1>4
  <2>2. i + 1 \in 1..Len(p) /\ p[i + 1] = y /\ i + 1 # 1 /\ 1 \in 1..Len(p)
    BY <1>1, <2>1
  <2> QED BY <1>1, <1>2, <2>2 DEF IsInjective
<1>5. Head(p) \in Range(p)
  BY <1>1, <1>2
<1> QED BY <1>1, <1>3, <1>4, <1>5 DEF b

\* The elpis_dot_detach() of a list without repetitions.
LEMMA RemoveList ==
    ASSUME NEW S, NEW p \in Seq(S), IsInjective(p), NEW x
    PROVE  /\ Unlinked(p, x) \in Seq(S) /\ IsInjective(Unlinked(p, x))
           /\ Range(Unlinked(p, x)) \subseteq Range(p) \ {x}
<1>1. /\ Len(p) \in Nat /\ DOMAIN p = 1..Len(p) /\ \A i \in 1..Len(p) : p[i] \in S
      /\ \A y : y \in Range(p) <=> \E i \in 1..Len(p) : p[i] = y
  BY InSeq
<1>2. CASE \A i \in 1..Len(p) : p[i] # x
  <2>1. x \notin Range(p)
    BY <1>1, <1>2
  <2>2. Unlinked(p, x) = p
    BY <2>1 DEF Unlinked
  <2> QED BY <2>1, <2>2
<1>3. CASE ~ \A i \in 1..Len(p) : p[i] # x
  <2>1. PICK k \in 1..Len(p) : p[k] = x
    BY <1>3
  <2>2. x \in Range(p) /\ \A i \in DOMAIN p : p[i] = x => i = k
    BY <1>1, <2>1 DEF IsInjective
  <2>3. (CHOOSE i \in DOMAIN p : p[i] = x) = k
    BY <1>1, <2>1, <2>2
  <2>4. Unlinked(p, x) = SubSeq(p, 1, k - 1) \o SubSeq(p, k + 1, Len(p))
    BY <2>2, <2>3, Zenon DEF Unlinked
  <2> DEFINE f == SubSeq(p, 1, k - 1)
             g == SubSeq(p, k + 1, Len(p))
             h == f \o g
  <2>5. f \in Seq(S) /\ Len(f) = k - 1 /\ \A i \in 1..(k - 1) : f[i] = p[i]
    <3>1. \A i \in 1..(k - 1) : p[i] \in S
      BY <1>1
    <3> QED BY <1>1, <3>1
  <2>6. g \in Seq(S) /\ Len(g) = Len(p) - k /\ \A i \in 1..(Len(p) - k) : g[i] = p[k + i]
    <3>1. \A i \in (k + 1)..Len(p) : p[i] \in S
      BY <1>1
    <3>2. k + 1 \in Int /\ Len(p) \in Int
      BY <1>1
    <3>3. /\ g \in Seq(S) /\ Len(g) = IF k + 1 <= Len(p) THEN Len(p) - (k + 1) + 1 ELSE 0
          /\ \A i \in 1..(Len(p) - (k + 1) + 1) : g[i] = p[(k + 1) + i - 1]
      BY <3>1, <3>2
    <3> HIDE DEF g
    <3>4. /\ Len(p) - (k + 1) + 1 = Len(p) - k
          /\ \A i \in 1..(Len(p) - k) : (k + 1) + i - 1 = k + i
      BY <1>1
    <3>5. ASSUME NEW i \in 1..(Len(p) - k) PROVE g[i] = p[k + i]
      <4>1. i \in 1..(Len(p) - (k + 1) + 1) /\ (k + 1) + i - 1 = k + i
        BY <3>4
      <4>2. g[i] = p[(k + 1) + i - 1]
        BY <3>3, <4>1
      <4> QED BY <4>1, <4>2
    <3>6. Len(g) = Len(p) - k
      <4>1. Len(p) \in Nat /\ k \in 1..Len(p)
        BY <1>1
      <4>2. Len(g) = IF k + 1 <= Len(p) THEN Len(p) - (k + 1) + 1 ELSE 0
        BY <3>3
      <4> QED BY <4>1, <4>2
    <3> QED BY <3>3, <3>5, <3>6
  <2> HIDE DEF f, g
  <2>7. /\ h \in Seq(S) /\ Len(h) = Len(p) - 1
        /\ \A i \in 1..(Len(p) - 1) : h[i] = IF i < k THEN p[i] ELSE p[i + 1]
    <3>1. /\ h \in Seq(S) /\ Len(h) = Len(f) + Len(g)
          /\ \A i \in 1..(Len(f) + Len(g)) :
               h[i] = IF i <= Len(f) THEN f[i] ELSE g[i - Len(f)]
      <4>1. f \in Seq(S) /\ g \in Seq(S)
        BY <2>5, <2>6
      <4> QED BY <4>1
    <3>2. ASSUME NEW i \in 1..(Len(p) - 1)
          PROVE  h[i] = IF i < k THEN p[i] ELSE p[i + 1]
      <4> HIDE DEF h
      <4>1. CASE i < k
        <5>1. i <= Len(f) /\ i \in 1..(Len(f) + Len(g)) /\ i \in 1..(k - 1)
          <6>1. Len(p) \in Nat /\ Len(f) = k - 1 /\ Len(g) = Len(p) - k
            BY <1>1, <2>5, <2>6
          <6> QED BY <4>1, <6>1
        <5>2. h[i] = f[i]
          BY <3>1, <5>1
        <5> QED BY <2>5, <4>1, <5>1, <5>2
      <4>2. CASE i >= k
        <5>1. i - Len(f) \in 1..(Len(p) - k) /\ k + (i - Len(f)) = i + 1 /\ ~(i <= Len(f))
          BY <1>1, <2>5, <4>2
        <5>2. i \in 1..(Len(f) + Len(g))
          BY <1>1, <2>5, <2>6
        <5>3. h[i] = g[i - Len(f)]
          BY <3>1, <5>1, <5>2
        <5>4. g[i - Len(f)] = p[i + 1]
          BY <2>6, <5>1
        <5> QED BY <1>1, <4>2, <5>3, <5>4
      <4>3. i < k \/ i >= k
        BY <1>1, <2>1
      <4> QED BY <4>1, <4>2, <4>3
    <3> QED BY <1>1, <2>5, <2>6, <3>1, <3>2
  <2>8. Unlinked(p, x) = h
    BY <2>4 DEF f, g
  <2> HIDE DEF h
  <2>9. /\ DOMAIN h = 1..Len(h)
        /\ \A y : y \in Range(h) <=> \E i \in 1..Len(h) : h[i] = y
    BY <2>7, InSeq
  <2> DEFINE from(i) == IF i < k THEN i ELSE i + 1
  <2>10. \A i \in 1..Len(h) : /\ from(i) \in 1..Len(p) /\ from(i) # k /\ h[i] = p[from(i)]
                              /\ \A j \in 1..Len(h) : from(i) = from(j) => i = j
    BY <1>1, <2>7
  <2> HIDE DEF from
  <2>11. IsInjective(h)
    <3> SUFFICES ASSUME NEW i \in 1..Len(h), NEW j \in 1..Len(h), h[i] = h[j] PROVE i = j
      BY <2>9 DEF IsInjective
    <3>1. p[from(i)] = p[from(j)] /\ from(i) \in 1..Len(p) /\ from(j) \in 1..Len(p)
      BY <2>10
    <3>2. from(i) = from(j)
      BY <1>1, <3>1 DEF IsInjective
    <3> QED BY <2>10, <3>2
  <2>12. ASSUME NEW y \in Range(h) PROVE y \in Range(p) /\ y # x
    <3>1. PICK i \in 1..Len(h) : h[i] = y
      BY <2>9, <2>12
    <3>2. from(i) \in 1..Len(p) /\ from(i) # k /\ p[from(i)] = y
      BY <2>10, <3>1
    <3> QED BY <1>1, <2>1, <3>2 DEF IsInjective
  <2> QED BY <2>7, <2>8, <2>11, <2>12
<1> QED BY <1>2, <1>3

\* The memory for a new query is that of one that is not in use.
LEMMA FreshIsFree ==
    ASSUME NEW v, NEW x \in Fresh(v)
    PROVE  x \in Queries /\ v.q[x].via = "none"
BY DEF Fresh, Live

-----------------------------------------------------------------------------
(* Queries and connections.                                                 *)

\* A worker's parts, each of its kind.
LEMMA WorkerParts ==
    ASSUME NEW v \in Worker
    PROVE  /\ v.q \in [Queries -> Query] /\ v.conn \in [Servers -> Conn]
           /\ v.out \in [Tasks -> Queries \cup {0}] /\ v.race \in [Tasks -> Queries \cup {0}]
           /\ v.n_dot \in Int /\ v.n_hs \in Int /\ v.again \in [Tasks -> Nat]
BY DEF Worker

\* One connection and one query of it changed.
LEMMA WorkerSet ==
    ASSUME NEW v \in Worker, NEW s \in Servers, NEW c \in Conn,
           NEW x \in Queries, NEW r \in Query
    PROVE  [v EXCEPT !.conn[s] = c, !.q[x] = r] \in Worker
<1> DEFINE a == [v.q EXCEPT ![x] = r]
           b == [v.conn EXCEPT ![s] = c]
<1>1. a \in [Queries -> Query] /\ b \in [Servers -> Conn]
  BY WorkerParts
<1>2. [v EXCEPT !.conn[s] = c, !.q[x] = r] = [v EXCEPT !.conn = b, !.q = a]
  BY DEF Worker
<1> HIDE DEF a, b
<1>3. [v EXCEPT !.conn = b, !.q = a] \in Worker
  BY <1>1, Zenon DEF Worker
<1> QED BY <1>2, <1>3

\* A query that is not marked as on a connection, or not in use, is on no list.
LEMMA NotListed ==
    ASSUME NEW v \in Worker, Connected(v), NEW x \in Queries,
           v.q[x].via # "dot" \/ ~v.q[x].conn, NEW s \in Servers
    PROVE  x \notin Range(v.conn[s].pending)
BY DEF Connected

\* A connection's list is the concern of its queries only.
LEMMA StaysConnected ==
    ASSUME NEW v, NEW u, Connected(v),
           \A s \in Servers : u.conn[s].pending = v.conn[s].pending,
           \A s \in Servers : \A x \in Range(v.conn[s].pending) :
              /\ u.q[x].via = v.q[x].via /\ u.q[x].conn = v.q[x].conn
              /\ u.q[x].server = v.q[x].server,
           \A x \in Queries :
             u.q[x].conn \/ u.q[x].via # "none" => u.q[x].server \in Servers
    PROVE  Connected(u)
BY DEF Connected

\* What the operations on connections leave alone: the tasks' pointers.
Kept(v, u) == u \in Worker /\ Connected(u) /\ u.out = v.out /\ u.race = v.race

\* Nothing is on an empty list.
LEMMA EmptyList == Range(<<>>) = {} /\ IsInjective(<<>>)
BY DEF Range, IsInjective

\* conn_close() clears one entry of the table.
LEMMA CloseFields ==
    ASSUME NEW v \in Worker, NEW s \in Servers
    PROVE  LET u == ConnClose(v, s)
           IN  /\ u \in Worker /\ u.q = v.q /\ u.out = v.out /\ u.race = v.race
               /\ u.conn[s].pending = <<>> /\ \A a \in Servers \ {s} : u.conn[a] = v.conn[a]
<1> DEFINE u == ConnClose(v, s)
<1>1. NoConn \in Conn /\ NoConn.pending = <<>>
  BY DEF NoConn, Conn
<1>2. /\ u.q = v.q /\ u.out = v.out /\ u.race = v.race
      /\ u.conn = [v.conn EXCEPT ![s] = NoConn]
  BY DEF ConnClose, Worker
<1>3. u \in Worker
  <2>1. v.n_dot - 1 \in Int /\ v.n_hs - 1 \in Int
    BY WorkerParts
  <2> HIDE DEF NoConn
  <2> QED BY <1>1, <2>1, Zenon DEF ConnClose, Worker
<1> HIDE DEF u, NoConn
<1>4. u.conn[s] = NoConn /\ \A a \in Servers \ {s} : u.conn[a] = v.conn[a]
  BY <1>2, WorkerParts
<1> QED BY <1>1, <1>2, <1>3, <1>4 DEF u

\* The connection goes, and its list.
LEMMA CloseOp ==
    ASSUME NEW v \in Worker, Connected(v), NEW s \in Servers
    PROVE  Kept(v, ConnClose(v, s)) /\ ConnClose(v, s).q = v.q
<1> DEFINE u == ConnClose(v, s)
<1>1. /\ u \in Worker /\ u.q = v.q /\ u.out = v.out /\ u.race = v.race
      /\ u.conn[s].pending = <<>> /\ \A a \in Servers \ {s} : u.conn[a] = v.conn[a]
  BY CloseFields
<1> HIDE DEF u
<1>2. Connected(u)
  <2> SUFFICES ASSUME NEW a \in Servers
               PROVE  /\ IsInjective(u.conn[a].pending)
                      /\ \A x \in Range(u.conn[a].pending) :
                           u.q[x].via = "dot" /\ u.q[x].conn /\ u.q[x].server = a
    BY <1>1 DEF Connected
  <2>1. CASE a = s
    BY <1>1, <2>1, EmptyList
  <2>2. CASE a # s
    BY <1>1, <2>2 DEF Connected
  <2> QED BY <2>1, <2>2
<1> QED BY <1>1, <1>2 DEF Kept, u

\* conn_open() puts one with an empty list into it.
LEMMA OpenOp ==
    ASSUME NEW v \in Worker, Connected(v), NEW s \in Servers
    PROVE  Kept(v, ConnOpen(v, s)) /\ ConnOpen(v, s).q = v.q
<1> DEFINE u == ConnOpen(v, s)
           c == [NoConn EXCEPT !.up = TRUE, !.timer = TRUE]
<1>1. c \in Conn /\ c.pending = <<>>
  <2>1. NoConn \in Conn /\ NoConn.pending = <<>>
    BY DEF NoConn, Conn
  <2> QED BY <2>1, Zenon DEF Conn
<1> HIDE DEF c
<1>0. u = [v EXCEPT !.conn[s] = c, !.n_dot = @ + 1, !.n_hs = @ + 1]
  BY DEF ConnOpen, c
<1> HIDE DEF u
<1>2. /\ u.q = v.q /\ u.out = v.out /\ u.race = v.race /\ u.again = v.again
      /\ u.conn = [v.conn EXCEPT ![s] = c]
  BY <1>0 DEF Worker
<1>3. u \in Worker
  <2>1. v.n_dot + 1 \in Int /\ v.n_hs + 1 \in Int
    BY WorkerParts
  <2> QED BY <1>0, <1>1, <2>1, Zenon DEF Worker
<1>4. Connected(u)
  <2> SUFFICES ASSUME NEW a \in Servers
               PROVE  /\ IsInjective(u.conn[a].pending)
                      /\ \A x \in Range(u.conn[a].pending) :
                           u.q[x].via = "dot" /\ u.q[x].conn /\ u.q[x].server = a
    BY <1>2 DEF Connected
  <2>1. CASE a = s
    <3>1. u.conn[a].pending = <<>>
      BY <1>1, <1>2, <2>1, WorkerParts
    <3> QED BY <3>1, EmptyList
  <2>2. CASE a # s
    <3>1. u.conn[a] = v.conn[a]
      BY <1>2, <2>2, WorkerParts
    <3> QED BY <1>2, <3>1 DEF Connected
  <2> QED BY <2>1, <2>2
<1> QED BY <1>2, <1>3, <1>4 DEF Kept, u

\* A query that is on no connection's list becomes another.
LEMMA SetOp ==
    ASSUME NEW v \in Worker, Connected(v), NEW x \in Queries, NEW r \in Query,
           v.q[x].via # "dot" \/ ~v.q[x].conn, r.conn \/ r.via # "none" => r.server \in Servers
    PROVE  LET u == [v EXCEPT !.q[x] = r]
           IN  /\ Kept(v, u) /\ u.q[x] = r /\ \A y \in Queries \ {x} : u.q[y] = v.q[y]
<1> DEFINE u == [v EXCEPT !.q[x] = r]
<1>1. /\ u.q = [v.q EXCEPT ![x] = r] /\ u.out = v.out /\ u.race = v.race
      /\ u.conn = v.conn
  BY DEF Worker
<1>2. u \in Worker
  BY DEF Worker
<1> HIDE DEF u
<1>3. u.q[x] = r /\ \A y \in Queries \ {x} : u.q[y] = v.q[y]
  BY <1>1, WorkerParts
<1>4. Connected(u)
  <2>1. \A s \in Servers : x \notin Range(v.conn[s].pending)
    BY NotListed
  <2>2. \A s \in Servers : Range(v.conn[s].pending) \subseteq Queries
    <3> SUFFICES ASSUME NEW s \in Servers PROVE Range(v.conn[s].pending) \subseteq Queries
      OBVIOUS
    <3>1. v.conn[s].pending \in Seq(Queries)
      BY WorkerParts DEF Conn
    <3> QED BY <3>1, InSeq
  <2>3. \A s \in Servers : \A y \in Range(v.conn[s].pending) : u.q[y] = v.q[y]
    BY <1>3, <2>1, <2>2
  <2>4. \A y \in Queries :
          u.q[y].conn \/ u.q[y].via # "none" => u.q[y].server \in Servers
    BY <1>3 DEF Connected
  <2> QED BY <1>1, <2>3, <2>4, StaysConnected, Zenon
<1> QED BY <1>1, <1>2, <1>3, <1>4 DEF Kept, u

\* elpis_dot_send() puts the query at the end of the list.
LEMMA EnlistOp ==
    ASSUME NEW v \in Worker, Connected(v), NEW s \in Servers, NEW x \in Queries,
           v.q[x].via = "dot", v.q[x].server = s, ~v.q[x].conn
    PROVE  LET u == Enlist(v, x, s)
           IN  /\ Kept(v, u) /\ \A y \in Queries \ {x} : u.q[y] = v.q[y]
               /\ u.q[x].via = v.q[x].via /\ u.q[x].task = v.q[x].task
<1> DEFINE u == Enlist(v, x, s)
           p == v.conn[s].pending
           a == Append(p, x)
           c == [v.conn[s] EXCEPT !.pending = a, !.timer = v.conn[s].timer /\ ~v.conn[s].open]
           r == [v.q[x] EXCEPT !.conn = TRUE, !.sent = v.conn[s].open]
<1>1. v.conn[s] \in Conn /\ v.q[x] \in Query /\ p \in Seq(Queries)
      /\ v.conn[s].open \in BOOLEAN /\ v.conn[s].timer \in BOOLEAN
  BY WorkerParts DEF Conn
<1>2. IsInjective(p) /\ x \notin Range(p)
  BY NotListed DEF Connected
<1>3. a \in Seq(Queries) /\ IsInjective(a) /\ Range(a) = Range(p) \cup {x}
  BY <1>1, <1>2, AppendList
<1>4. u = [v EXCEPT !.conn[s] = c, !.q[x] = r]
  BY DEF Enlist
<1> HIDE DEF u, a, p
<1>5. c \in Conn /\ c.pending = a
  BY <1>1, <1>3, Zenon DEF Conn
<1>6. /\ r \in Query /\ r.via = v.q[x].via /\ r.task = v.q[x].task
      /\ r.server = v.q[x].server /\ r.conn
  BY <1>1, Zenon DEF Query, QueryRec
<1> HIDE DEF c, r
<1>7. /\ u.q = [v.q EXCEPT ![x] = r] /\ u.out = v.out /\ u.race = v.race
      /\ u.conn = [v.conn EXCEPT ![s] = c]
  BY <1>4 DEF Worker
<1>8. u \in Worker
  BY <1>4, <1>5, <1>6, WorkerSet, Zenon
<1>9. /\ u.q[x] = r /\ \A y \in Queries \ {x} : u.q[y] = v.q[y]
      /\ u.conn[s] = c /\ \A b \in Servers \ {s} : u.conn[b] = v.conn[b]
  BY <1>7, WorkerParts
<1>10. Connected(u)
  <2> SUFFICES ASSUME NEW b \in Servers
               PROVE  /\ IsInjective(u.conn[b].pending)
                      /\ \A y \in Range(u.conn[b].pending) :
                           u.q[y].via = "dot" /\ u.q[y].conn /\ u.q[y].server = b
    BY <1>6, <1>9 DEF Connected
  <2>1. v.conn[b].pending \in Seq(Queries)
    BY WorkerParts DEF Conn
  <2>2. /\ Range(v.conn[b].pending) \subseteq Queries \ {x}
        /\ \A y \in Range(v.conn[b].pending) :
             v.q[y].via = "dot" /\ v.q[y].conn /\ v.q[y].server = b
        /\ IsInjective(v.conn[b].pending)
    BY <2>1, InSeq, NotListed DEF Connected
  <2>3. CASE b = s
    BY <1>3, <1>5, <1>6, <1>9, <2>2, <2>3 DEF p
  <2>4. CASE b # s
    BY <1>9, <2>2, <2>4
  <2> QED BY <2>3, <2>4
<1> QED BY <1>6, <1>7, <1>8, <1>9, <1>10 DEF Kept, u

\* elpis_dot_send(), whatever it opens and closes on the way, puts the query
\* on a list or leaves the queries alone.
LEMMA DotSendOp ==
    ASSUME NEW v \in Worker, Connected(v), NEW s \in Servers, NEW x \in Queries,
           v.q[x].via = "dot", v.q[x].server = s, ~v.q[x].conn,
           NEW d \in DotSend(v, x, s)
    PROVE  /\ Kept(v, d.w) /\ d.ok \in BOOLEAN
           /\ \A y \in Queries \ {x} : d.w.q[y] = v.q[y]
           /\ d.w.q[x].via = v.q[x].via /\ d.w.q[x].task = v.q[x].task
           /\ ~d.ok => d.w.q = v.q
<1> DEFINE made == IF v.n_dot < DOT_MAX_CONNS THEN {v}
                   ELSE {ConnClose(v, i) : i \in Idle(v)}
<1>1. \/ d = [ok |-> FALSE, w |-> v]
      \/ d = [ok |-> TRUE, w |-> Enlist(v, x, s)]
      \/ \E m \in made : d = [ok |-> TRUE, w |-> Enlist(ConnOpen(m, s), x, s)]
      \/ \E m \in made : d = [ok |-> FALSE, w |-> m]
  BY DEF DotSend
<1>2. Kept(v, v)
  BY DEF Kept
<1>3. ASSUME NEW m \in made PROVE Kept(v, m) /\ m.q = v.q
  <2>1. CASE m = v
    BY <1>2, <2>1
  <2>2. CASE \E i \in Servers : m = ConnClose(v, i)
    BY <2>2, CloseOp
  <2> QED BY <1>3, <2>1, <2>2 DEF Idle
<1>4. CASE d = [ok |-> FALSE, w |-> v]
  BY <1>2, <1>4
<1>5. CASE d = [ok |-> TRUE, w |-> Enlist(v, x, s)]
  BY <1>5, EnlistOp
<1>6. CASE \E m \in made : d = [ok |-> TRUE, w |-> Enlist(ConnOpen(m, s), x, s)]
  <2>1. PICK m \in made : d = [ok |-> TRUE, w |-> Enlist(ConnOpen(m, s), x, s)]
    BY <1>6, Zenon
  <2> DEFINE o == ConnOpen(m, s)
  <2>2. m \in Worker /\ Connected(m) /\ m.q = v.q /\ m.out = v.out /\ m.race = v.race
    BY <1>3 DEF Kept
  <2>3. o \in Worker /\ Connected(o) /\ o.q = v.q /\ o.out = v.out /\ o.race = v.race
    BY <2>2, OpenOp DEF Kept
  <2> HIDE DEF o
  <2>4. /\ Kept(o, Enlist(o, x, s)) /\ \A y \in Queries \ {x} : Enlist(o, x, s).q[y] = v.q[y]
        /\ Enlist(o, x, s).q[x].via = v.q[x].via /\ Enlist(o, x, s).q[x].task = v.q[x].task
    BY <2>3, EnlistOp
  <2>5. d.ok = TRUE /\ d.w = Enlist(o, x, s)
    BY <2>1 DEF o
  <2> QED BY <2>3, <2>4, <2>5, Zenon DEF Kept
<1>7. CASE \E m \in made : d = [ok |-> FALSE, w |-> m]
  <2>1. PICK m \in made : d = [ok |-> FALSE, w |-> m]
    BY <1>7, Zenon
  <2> HIDE DEF made
  <2> QED BY <1>3, <2>1
<1> QED BY <1>1, <1>4, <1>5, <1>6, <1>7

\* Every query in use stays as it is, and no task gets another.
Spared(v, u) ==
    \A y \in Queries : u.q[y] = v.q[y] \/ (v.q[y].via = "none" /\ u.q[y].task = "none")

\* A query as out_start() makes it.
LEMMA AskingOp ==
    ASSUME NEW t \in Tasks \cup {"none"}, NEW s \in Servers, NEW via \in Vias
    PROVE  /\ Asking(t, s, via) \in Query /\ NoQuery \in Query
           /\ Asking(t, s, via).via = via /\ Asking(t, s, via).task = t
           /\ Asking(t, s, via).server = s /\ ~Asking(t, s, via).conn
           /\ NoQuery.via = "none" /\ NoQuery.task = "none" /\ ~NoQuery.conn
<1>1. /\ NoQuery \in Query /\ NoQuery.via = "none" /\ NoQuery.task = "none"
      /\ ~NoQuery.conn /\ ~NoQuery.late
  BY DEF NoQuery, Query, QueryRec, Vias
<1> HIDE DEF NoQuery
<1>2. /\ Asking(t, s, via) \in Query
      /\ Asking(t, s, via).via = via /\ Asking(t, s, via).task = t
      /\ Asking(t, s, via).server = s /\ ~Asking(t, s, via).conn
  BY <1>1, Zenon DEF Asking, Query, QueryRec
<1> QED BY <1>1, <1>2

\* dot_test() adds at most one query, that no task waits for.
LEMMA DotTestOp ==
    ASSUME NEW v \in Worker, Connected(v), NEW s \in Servers, NEW u \in DotTest(v, s)
    PROVE  Kept(v, u) /\ Spared(v, u)
<1> DEFINE rq == [Asking("none", s, "dot") EXCEPT !.probe = TRUE, !.test = TRUE]
           test(x) == [v EXCEPT !.q[x] = rq]
<1>1. CASE u = v
  BY <1>1 DEF Kept, Spared
<1>2. CASE u # v
  <2>1. PICK x \in Fresh(v) : \E d \in DotSend(test(x), x, s) :
               u = IF d.ok THEN d.w ELSE [d.w EXCEPT !.q[x] = NoQuery]
    BY <1>2, Zenon DEF DotTest
  <2>2. PICK d \in DotSend(test(x), x, s) :
               u = IF d.ok THEN d.w ELSE [d.w EXCEPT !.q[x] = NoQuery]
    BY <2>1, Zenon
  <2>3. x \in Queries /\ v.q[x].via = "none"
    BY FreshIsFree
  <2>4. /\ rq \in Query /\ rq.via = "dot" /\ rq.task = "none" /\ rq.server = s /\ ~rq.conn
        /\ NoQuery \in Query /\ NoQuery.task = "none" /\ ~NoQuery.conn /\ NoQuery.via = "none"
    <3>1. "dot" \in Vias
      BY DEF Vias
    <3> DEFINE k == Asking("none", s, "dot")
    <3>2. /\ k \in Query /\ k.via = "dot" /\ k.task = "none" /\ k.server = s /\ ~k.conn
          /\ NoQuery \in Query /\ NoQuery.task = "none" /\ ~NoQuery.conn /\ NoQuery.via = "none"
      BY <3>1, AskingOp
    <3> HIDE DEF NoQuery, k
    <3>3. [k EXCEPT !.probe = TRUE, !.test = TRUE] \in Query
      BY <3>2, Zenon DEF Query, QueryRec
    <3>4. /\ [k EXCEPT !.probe = TRUE, !.test = TRUE].via = k.via
          /\ [k EXCEPT !.probe = TRUE, !.test = TRUE].task = k.task
          /\ [k EXCEPT !.probe = TRUE, !.test = TRUE].server = k.server
          /\ [k EXCEPT !.probe = TRUE, !.test = TRUE].conn = k.conn
      BY <3>2 DEF Query, QueryRec
    <3> QED BY <3>2, <3>3, <3>4 DEF k
  <2> DEFINE m == test(x)
  <2> HIDE DEF rq
  <2>5. Kept(v, m) /\ m.q[x] = rq /\ \A y \in Queries \ {x} : m.q[y] = v.q[y]
    BY <2>3, <2>4, SetOp
  <2>6. d \in DotSend(m, x, s)
    BY <2>2
  <2> HIDE DEF m
  <2>7. /\ Kept(m, d.w) /\ d.ok \in BOOLEAN
        /\ \A y \in Queries \ {x} : d.w.q[y] = m.q[y]
        /\ d.w.q[x].task = m.q[x].task
        /\ ~d.ok => d.w.q = m.q
    BY <2>3, <2>4, <2>5, <2>6, DotSendOp DEF Kept
  <2>8. CASE d.ok
    <3>1. u = d.w
      BY <2>2, <2>8
    <3> QED BY <2>3, <2>4, <2>5, <2>7, <3>1 DEF Kept, Spared
  <2>9. CASE ~d.ok
    <3> DEFINE e == [d.w EXCEPT !.q[x] = NoQuery]
    <3>1. u = e
      BY <2>2, <2>9
    <3>2. d.w \in Worker /\ Connected(d.w) /\ ~d.w.q[x].conn
      BY <2>4, <2>5, <2>7, <2>9 DEF Kept
    <3>3. Kept(d.w, e) /\ e.q[x] = NoQuery /\ \A y \in Queries \ {x} : e.q[y] = d.w.q[y]
      BY <2>3, <2>4, <3>2, SetOp, SMTT(60)
    <3> HIDE DEF e
    <3> QED BY <2>3, <2>4, <2>5, <2>7, <3>1, <3>3 DEF Kept, Spared
  <2> QED BY <2>7, <2>8, <2>9
<1> QED BY <1>1, <1>2

\* What out_start() leaves behind: at most one new query of the task, over UDP
\* where it has to be, beside what was in use before.
Started(v, t, udp_only, r) ==
    /\ Kept(v, r.w) /\ r.x \in Queries \cup {0}
    /\ \A y \in Queries \ {r.x} :
         r.w.q[y] = v.q[y] \/ (v.q[y].via = "none" /\ r.w.q[y].task = "none")
    /\ r.x # 0 => /\ v.q[r.x].via = "none" /\ r.w.q[r.x].task = t
                  /\ r.w.q[r.x].via # "none" /\ (udp_only => r.w.q[r.x].via = "udp")

\* out_start() over UDP or TCP.
LEMMA StartPlainOp ==
    ASSUME NEW v \in Worker, Connected(v), NEW t \in Tasks, NEW s \in Servers,
           NEW tcp, NEW udp_only, NEW test, NEW r \in StartPlain(v, t, s, tcp, udp_only, test)
    PROVE  Started(v, t, udp_only, r)
<1> DEFINE via == IF tcp \/ s \in TcpOnly THEN "tcp" ELSE "udp"
           sent(x) == [v EXCEPT !.q[x] = Asking(t, s, via)]
<1>1. CASE r = [x |-> 0, w |-> v]
  <2>1. r.x = 0 /\ r.w = v
    BY <1>1
  <2> QED BY <2>1 DEF Started, Kept
<1>2. CASE r # [x |-> 0, w |-> v]
  <2>1. ~(udp_only /\ via = "tcp")
    BY <1>2 DEF StartPlain
  <2>2. PICK x \in Fresh(v) : \E d \in (IF test THEN DotTest(sent(x), s) ELSE {sent(x)}) :
               r = [x |-> x, w |-> d]
    BY <1>2, Zenon DEF StartPlain
  <2>3. PICK d \in (IF test THEN DotTest(sent(x), s) ELSE {sent(x)}) : r = [x |-> x, w |-> d]
    BY <2>2
  <2>4. x \in Queries /\ v.q[x].via = "none"
    BY FreshIsFree
  <2> DEFINE m == sent(x)
             rq == Asking(t, s, via)
  <2>5. /\ rq \in Query /\ rq.via = via /\ rq.task = t /\ rq.server = s /\ ~rq.conn
        /\ via # "none" /\ (udp_only => via = "udp")
    <3>1. via \in Vias
      BY DEF Vias
    <3> QED BY <2>1, <3>1, AskingOp
  <2>6. d = m \/ d \in DotTest(m, s)
    BY <2>3
  <2>7. m = [v EXCEPT !.q[x] = rq]
    OBVIOUS
  <2> HIDE DEF rq, via, m
  <2>8. Kept(v, m) /\ m.q[x] = rq /\ \A y \in Queries \ {x} : m.q[y] = v.q[y]
    BY <2>4, <2>5, <2>7, SetOp
  <2>9. Kept(v, d) /\ Spared(m, d)
    <3>1. m \in Worker /\ Connected(m) /\ m.out = v.out /\ m.race = v.race
      BY <2>8 DEF Kept
    <3> QED BY <2>6, <3>1, DotTestOp DEF Kept, Spared
  <2>10. r.x = x /\ r.w = d
    BY <2>3
  <2>11. d.q[x] = rq
    BY <2>4, <2>5, <2>8, <2>9 DEF Spared
  <2>12. \A y \in Queries \ {x} :
           d.q[y] = v.q[y] \/ (v.q[y].via = "none" /\ d.q[y].task = "none")
    BY <2>8, <2>9 DEF Spared
  <2> QED BY <2>4, <2>5, <2>9, <2>10, <2>11, <2>12 DEF Started
<1> QED BY <1>1, <1>2

\* out_start()
LEMMA OutStartOp ==
    ASSUME NEW v \in Worker, Connected(v), NEW t \in Tasks, NEW s \in Servers,
           NEW tcp, NEW udp_only, NEW no_dot,
           NEW r \in OutStart(v, t, s, tcp, udp_only, no_dot)
    PROVE  Started(v, t, udp_only, r)
<1> DEFINE over(x) == [v EXCEPT !.q[x] = Asking(t, s, "dot")]
           unsent(d, x) == [d EXCEPT !.q[x] = NoQuery]
<1>1. \/ \E test : r \in StartPlain(v, t, s, tcp, udp_only, test)
      \/ ~udp_only /\ r = [x |-> 0, w |-> v]
      \/ ~udp_only /\ \E x \in Fresh(v) : \E d \in DotSend(over(x), x, s) :
           r \in IF d.ok THEN {[x |-> x, w |-> d.w]}
                 ELSE StartPlain(unsent(d.w, x), t, s, tcp, FALSE, FALSE)
  <2> DEFINE verdicts == IF udp_only \/ no_dot THEN {"plain"} ELSE {"plain", "test", "use"}
             B(d, x) == IF d.ok THEN {[x |-> x, w |-> d.w]}
                        ELSE StartPlain(unsent(d.w, x), t, s, tcp, FALSE, FALSE)
             A == {[x |-> 0, w |-> v]} \cup
                  UNION {UNION {B(d, x) : d \in DotSend(over(x), x, s)} : x \in Fresh(v)}
  <2>1. PICK dot \in verdicts : r \in IF dot = "use" /\ CanSend(v, s) THEN A
                                     ELSE StartPlain(v, t, s, tcp, udp_only, dot = "test")
    BY Zenon DEF OutStart
  <2>2. CASE dot = "use" /\ CanSend(v, s)
    <3>1. ~udp_only /\ r \in A
      BY <2>1, <2>2, Zenon
    <3> HIDE DEF over, B
    <3>2. r = [x |-> 0, w |-> v] \/ \E x \in Fresh(v) : \E d \in DotSend(over(x), x, s) : r \in B(d, x)
      BY <3>1
    <3> QED BY <3>1, <3>2, Zenon DEF B
  <2>3. CASE ~(dot = "use" /\ CanSend(v, s))
    BY <2>1, <2>3, Zenon
  <2> QED BY <2>2, <2>3, Zenon
<1>2. CASE \E test : r \in StartPlain(v, t, s, tcp, udp_only, test)
  BY <1>2, StartPlainOp
<1>3. CASE ~udp_only /\ r = [x |-> 0, w |-> v]
  <2>1. r.x = 0 /\ r.w = v
    BY <1>3
  <2> QED BY <2>1 DEF Started, Kept
<1>4. CASE ~udp_only /\ \E x \in Fresh(v) : \E d \in DotSend(over(x), x, s) :
             r \in IF d.ok THEN {[x |-> x, w |-> d.w]}
                   ELSE StartPlain(unsent(d.w, x), t, s, tcp, FALSE, FALSE)
  <2>1. PICK x \in Fresh(v) : \E d \in DotSend(over(x), x, s) :
             r \in IF d.ok THEN {[x |-> x, w |-> d.w]}
                   ELSE StartPlain(unsent(d.w, x), t, s, tcp, FALSE, FALSE)
    BY <1>4, Zenon
  <2>2. PICK d \in DotSend(over(x), x, s) :
             r \in IF d.ok THEN {[x |-> x, w |-> d.w]}
                   ELSE StartPlain(unsent(d.w, x), t, s, tcp, FALSE, FALSE)
    BY <2>1, Zenon
  <2>3. x \in Queries /\ v.q[x].via = "none"
    BY FreshIsFree
  <2> DEFINE m == over(x)
             rq == Asking(t, s, "dot")
  <2>4. /\ rq \in Query /\ rq.via = "dot" /\ rq.task = t /\ rq.server = s /\ ~rq.conn
        /\ NoQuery \in Query /\ NoQuery.task = "none" /\ ~NoQuery.conn /\ NoQuery.via = "none"
    <3>1. "dot" \in Vias
      BY DEF Vias
    <3> QED BY <3>1, AskingOp
  <2>5. d \in DotSend(m, x, s) /\ m = [v EXCEPT !.q[x] = rq]
    BY <2>2
  <2> HIDE DEF rq, m, NoQuery
  <2>6. Kept(v, m) /\ m.q[x] = rq /\ \A y \in Queries \ {x} : m.q[y] = v.q[y]
    BY <2>3, <2>4, <2>5, SetOp
  <2>7. /\ Kept(m, d.w) /\ d.ok \in BOOLEAN
        /\ \A y \in Queries \ {x} : d.w.q[y] = v.q[y]
        /\ d.w.q[x].via = "dot" /\ d.w.q[x].task = t
        /\ ~d.ok => d.w.q = m.q
    <3>1. m \in Worker /\ Connected(m)
      BY <2>6 DEF Kept
    <3>2. m.q[x].via = "dot" /\ m.q[x].task = t /\ m.q[x].server = s /\ ~m.q[x].conn
      BY <2>4, <2>6
    <3>3. /\ Kept(m, d.w) /\ d.ok \in BOOLEAN
          /\ \A y \in Queries \ {x} : d.w.q[y] = m.q[y]
          /\ d.w.q[x].via = m.q[x].via /\ d.w.q[x].task = m.q[x].task
          /\ ~d.ok => d.w.q = m.q
      <4>1. d \in DotSend(m, x, s)
        BY <2>5
      <4> QED BY <2>3, <3>1, <3>2, <4>1, DotSendOp
    <3> QED BY <2>6, <3>2, <3>3
  <2>8. Kept(v, d.w)
    BY <2>6, <2>7 DEF Kept
  <2>9. CASE d.ok
    <3>1. r = [x |-> x, w |-> d.w]
      BY <2>2, <2>9
    <3>2. r.x = x /\ r.w = d.w
      BY <3>1
    <3> QED BY <1>4, <2>3, <2>7, <2>8, <3>2 DEF Started
  <2>10. CASE ~d.ok
    <3> DEFINE e == unsent(d.w, x)
    <3>1. r \in StartPlain(e, t, s, tcp, FALSE, FALSE)
      BY <2>2, <2>10, Zenon
    <3>2. d.w \in Worker /\ Connected(d.w) /\ ~d.w.q[x].conn
      BY <2>4, <2>6, <2>7, <2>10 DEF Kept
    <3>3. Kept(d.w, e) /\ e.q[x] = NoQuery /\ \A y \in Queries \ {x} : e.q[y] = d.w.q[y]
      BY <2>3, <2>4, <3>2, SetOp
    <3> HIDE DEF e
    <3>4. Kept(v, e) /\ Spared(v, e)
      BY <2>3, <2>4, <2>7, <2>8, <3>3 DEF Kept, Spared
    <3>5. Started(e, t, FALSE, r)
      BY <3>1, <3>4, StartPlainOp, Zenon DEF Kept
    <3>6. Kept(v, r.w)
      BY <3>4, <3>5 DEF Kept, Started
    <3>7. \A y \in Queries \ {r.x} :
            r.w.q[y] = v.q[y] \/ (v.q[y].via = "none" /\ r.w.q[y].task = "none")
      BY <3>4, <3>5 DEF Started, Spared
    <3>8. r.x # 0 => v.q[r.x].via = "none"
      BY <3>4, <3>5 DEF Started, Spared
    <3> QED BY <1>4, <3>5, <3>6, <3>7, <3>8 DEF Started
  <2> QED BY <2>7, <2>9, <2>10
<1> QED BY <1>1, <1>2, <1>3, <1>4, Zenon

\* elpis_dot_detach() takes the query off the one list it is on.
LEMMA DetachOp ==
    ASSUME NEW v \in Worker, Connected(v), NEW x \in Queries
    PROVE  LET d == Detach(v, x)
           IN  /\ Kept(v, d) /\ \A y \in Queries \ {x} : d.q[y] = v.q[y]
               /\ ~d.q[x].conn
<1> DEFINE d == Detach(v, x)
           s == v.q[x].server
           p == v.conn[s].pending
           left == Unlinked(p, x)
           c == [v.conn[s] EXCEPT !.pending = left,
                                  !.timer = v.conn[s].timer \/ (left = <<>> /\ v.conn[s].open)]
           r == [v.q[x] EXCEPT !.conn = FALSE]
<1>1. CASE ~v.q[x].conn
  <2>1. d = v
    BY <1>1 DEF Detach
  <2> QED BY <1>1, <2>1 DEF Kept
<1>2. CASE v.q[x].conn
  <2>1. s \in Servers /\ d = [v EXCEPT !.conn[s] = c, !.q[x] = r]
    BY <1>2 DEF Detach, Connected
  <2>2. v.conn[s] \in Conn /\ v.q[x] \in Query /\ p \in Seq(Queries)
        /\ v.conn[s].timer \in BOOLEAN /\ v.conn[s].open \in BOOLEAN
    BY <2>1, WorkerParts, ZenonT(30) DEF Conn
  <2>3. left \in Seq(Queries) /\ IsInjective(left) /\ Range(left) \subseteq Range(p) \ {x}
    <3>1. IsInjective(p)
      BY <2>1, Zenon DEF Connected
    <3> HIDE DEF p
    <3> QED BY <2>2, <3>1, RemoveList
  <2> HIDE DEF d, left
  <2>4. c \in Conn /\ c.pending = left
    BY <2>2, <2>3, Zenon DEF Conn
  <2>5. /\ r \in Query /\ r.via = v.q[x].via /\ r.task = v.q[x].task
        /\ r.server = v.q[x].server /\ ~r.conn
    BY <2>2, Zenon DEF Query, QueryRec
  <2> HIDE DEF c, r, s, p
  <2>6. /\ d.q = [v.q EXCEPT ![x] = r] /\ d.out = v.out /\ d.race = v.race
        /\ d.conn = [v.conn EXCEPT ![s] = c]
    BY <2>1 DEF Worker
  <2>7. d \in Worker
    BY <2>1, <2>4, <2>5, WorkerSet, Zenon
  <2>8. /\ d.q[x] = r /\ \A y \in Queries \ {x} : d.q[y] = v.q[y]
        /\ d.conn[s] = c /\ \A b \in Servers \ {s} : d.conn[b] = v.conn[b]
    BY <2>1, <2>6, WorkerParts
  <2>9. Connected(d)
    <3> SUFFICES ASSUME NEW b \in Servers
                 PROVE  /\ IsInjective(d.conn[b].pending)
                        /\ \A y \in Range(d.conn[b].pending) :
                             d.q[y].via = "dot" /\ d.q[y].conn /\ d.q[y].server = b
      BY <2>5, <2>8 DEF Connected
    <3>1. v.conn[b].pending \in Seq(Queries)
      BY WorkerParts DEF Conn
    <3>2. /\ Range(v.conn[b].pending) \subseteq Queries
          /\ \A y \in Range(v.conn[b].pending) :
               v.q[y].via = "dot" /\ v.q[y].conn /\ v.q[y].server = b
          /\ IsInjective(v.conn[b].pending)
      BY <3>1, InSeq DEF Connected
    <3>3. CASE b = s
      BY <2>3, <2>4, <2>8, <3>2, <3>3 DEF p
    <3>4. CASE b # s
      <4>1. x \notin Range(v.conn[b].pending)
        BY <3>2, <3>4 DEF s
      <4> QED BY <2>8, <3>2, <3>4, <4>1
    <3> QED BY <3>3, <3>4
  <2> QED BY <2>5, <2>6, <2>7, <2>8, <2>9 DEF Kept, d
<1> QED BY <1>1, <1>2

\* elpis_out_free(): the query is gone, and its task's pointer to it.
LEMMA OutFreeOp ==
    ASSUME NEW v \in Worker, Connected(v), NEW x \in Queries
    PROVE  LET u == OutFree(v, x)
           IN  /\ u \in Worker /\ Connected(u)
               /\ u.q[x] = NoQuery /\ \A y \in Queries \ {x} : u.q[y] = v.q[y]
               /\ \A t \in Tasks :
                    /\ u.out[t] = IF v.out[t] = x /\ v.q[x].task = t THEN 0 ELSE v.out[t]
                    /\ u.race[t] = IF v.race[t] = x /\ v.q[x].task = t THEN 0 ELSE v.race[t]
<1> DEFINE u == OutFree(v, x)
           d == Detach(v, x)
           C(f) == [t \in Tasks |-> IF f[t] = x /\ v.q[x].task = t THEN 0 ELSE f[t]]
           e == [d EXCEPT !.q[x] = NoQuery]
           o == C(d.out)
           a == C(d.race)
<1>1. Kept(v, d) /\ (\A y \in Queries \ {x} : d.q[y] = v.q[y]) /\ ~d.q[x].conn
  BY DetachOp
<1>2. u = [d EXCEPT !.q[x] = NoQuery, !.out = o, !.race = a]
  BY DEF OutFree
<1>3. NoQuery \in Query /\ ~NoQuery.conn /\ NoQuery.via = "none"
  BY DEF NoQuery, Query, QueryRec, Vias
<1> HIDE DEF u, d, NoQuery
<1>4. d \in Worker /\ Connected(d) /\ d.out = v.out /\ d.race = v.race
  BY <1>1 DEF Kept
<1>5. Kept(d, e) /\ e.q[x] = NoQuery /\ \A y \in Queries \ {x} : e.q[y] = d.q[y]
  BY <1>1, <1>3, <1>4, SetOp
<1>6. o \in [Tasks -> Queries \cup {0}] /\ a \in [Tasks -> Queries \cup {0}]
  BY <1>4, WorkerParts
<1>7. \A t \in Tasks :
        /\ o[t] = IF v.out[t] = x /\ v.q[x].task = t THEN 0 ELSE v.out[t]
        /\ a[t] = IF v.race[t] = x /\ v.q[x].task = t THEN 0 ELSE v.race[t]
  BY <1>4
<1>8. u = [e EXCEPT !.out = o, !.race = a]
  BY <1>2
<1> HIDE DEF e, o, a
<1>9. e \in Worker /\ Connected(e)
  BY <1>5 DEF Kept
<1>10. u \in Worker /\ u.q = e.q /\ u.out = o /\ u.race = a /\ u.conn = e.conn
  BY <1>6, <1>8, <1>9, Zenon DEF Worker
<1>11. Connected(u)
  BY <1>9, <1>10 DEF Connected
<1> QED BY <1>1, <1>5, <1>7, <1>10, <1>11 DEF u

-----------------------------------------------------------------------------
(* Tasks and their queries.                                                 *)

\* Steps that leave the tasks' pointers, and the queries that have a task.
SameHooks(v, u) ==
    /\ \A t \in Tasks : u.out[t] = v.out[t] /\ u.race[t] = v.race[t]
    /\ \A y \in Queries : u.q[y].task = v.q[y].task
                          /\ (v.q[y].task # "none" => u.q[y].via = v.q[y].via)

\* Pointers are of their kind.
LEMMA Pointers ==
    ASSUME NEW v \in Worker
    PROVE  /\ \A t \in Tasks : v.out[t] \in Queries \cup {0} /\ v.race[t] \in Queries \cup {0}
           /\ \A x \in Queries : v.q[x].task \in Tasks \cup {"none"} /\ v.q[x].via \in Vias
           /\ "none" \notin Tasks /\ 0 \notin Queries
<1>1. \A x \in Queries : v.q[x] \in Query
  BY WorkerParts
<1> QED BY <1>1, WorkerParts, OutboundAssumption DEF Query, QueryRec

\* Nothing is hooked or unhooked.
LEMMA SameHooked ==
    ASSUME NEW v \in Worker, NEW u \in Worker, Hooks(v), SameHooks(v, u)
    PROVE  Hooks(u)
<1>1. /\ \A t \in Tasks : v.out[t] \in Queries \cup {0} /\ v.race[t] \in Queries \cup {0}
      /\ \A x \in Queries : v.q[x].task \in Tasks \cup {"none"}
      /\ "none" \notin Tasks
  BY Pointers
<1>2. ASSUME NEW t \in Tasks
      PROVE  /\ u.out[t] # 0 => u.q[u.out[t]].task = t
             /\ u.race[t] # 0 => /\ u.q[u.race[t]].task = t /\ u.q[u.race[t]].via = "udp"
                                 /\ u.out[t] # 0 /\ u.out[t] # u.race[t]
                                 /\ u.q[u.out[t]].via = "udp"
  BY <1>1, SMTT(60) DEF Hooks, SameHooks
<1>3. ASSUME NEW x \in Queries, u.q[x].task # "none"
      PROVE  u.q[x].via # "none" /\ x \in {u.out[u.q[x].task], u.race[u.q[x].task]}
  BY <1>1, <1>3, SMTT(60) DEF Hooks, SameHooks
<1> QED BY <1>2, <1>3, SMTT(60) DEF Hooks

\* The task's queries are let go, and x, if there is one, becomes its query.
Taken(v, u, t, x) ==
    /\ \A a \in Tasks \ {t} : u.out[a] = v.out[a] /\ u.race[a] = v.race[a]
    /\ u.out[t] = x /\ u.race[t] = 0
    /\ x # 0 => u.q[x].task = t /\ u.q[x].via # "none" /\ v.q[x].task \in {"none", t}
    /\ \A y \in Queries \ {x} :
         IF v.q[y].task = t THEN u.q[y].task = "none"
         ELSE u.q[y].task = v.q[y].task /\ (v.q[y].task # "none" => u.q[y].via = v.q[y].via)

\* Then the pointers still agree.
LEMMA TakenHooked ==
    ASSUME NEW v \in Worker, NEW u \in Worker, Hooks(v), NEW t \in Tasks,
           NEW x \in Queries \cup {0}, Taken(v, u, t, x)
    PROVE  Hooks(u)
<1>1. /\ \A a \in Tasks : v.out[a] \in Queries \cup {0} /\ v.race[a] \in Queries \cup {0}
      /\ \A y \in Queries : v.q[y].task \in Tasks \cup {"none"}
      /\ "none" \notin Tasks /\ 0 \notin Queries
  BY Pointers
<1>2. ASSUME NEW a \in Tasks
      PROVE  /\ u.out[a] # 0 => u.q[u.out[a]].task = a
             /\ u.race[a] # 0 => /\ u.q[u.race[a]].task = a /\ u.q[u.race[a]].via = "udp"
                                 /\ u.out[a] # 0 /\ u.out[a] # u.race[a]
                                 /\ u.q[u.out[a]].via = "udp"
  <2>1. CASE a = t
    BY <2>1 DEF Taken
  <2>2. CASE a # t
    <3>1. u.out[a] = v.out[a] /\ u.race[a] = v.race[a]
      BY <2>2 DEF Taken
    <3>2. ASSUME NEW y \in Queries, v.q[y].task = a
          PROVE  u.q[y].task = a /\ u.q[y].via = v.q[y].via
      <4>1. v.q[y].task # "none" /\ v.q[y].task # t /\ y # 0
        BY <1>1, <2>2, <3>2
      <4>2. y # x
        BY <4>1 DEF Taken
      <4> QED BY <3>2, <4>1, <4>2 DEF Taken
    <3> QED BY <1>1, <3>1, <3>2, SMTT(60) DEF Hooks
  <2> QED BY <2>1, <2>2, SMTT(60)
<1>3. ASSUME NEW y \in Queries, u.q[y].task # "none"
      PROVE  u.q[y].via # "none" /\ y \in {u.out[u.q[y].task], u.race[u.q[y].task]}
  <2>1. CASE y = x
    <3>1. x # 0
      BY <1>1, <2>1
    <3> QED BY <2>1, <3>1 DEF Taken
  <2>2. CASE y # x
    <3>1. v.q[y].task \in Tasks \ {t} /\ u.q[y].task = v.q[y].task /\ u.q[y].via = v.q[y].via
      BY <1>1, <1>3, <2>2 DEF Taken
    <3>2. v.q[y].via # "none" /\ y \in {v.out[v.q[y].task], v.race[v.q[y].task]}
      BY <1>1, <3>1 DEF Hooks
    <3> QED BY <3>1, <3>2 DEF Taken
  <2> QED BY <2>1, <2>2
<1> QED BY <1>2, <1>3, SMTT(60) DEF Hooks

\* A task's pointer to its query is set.
LEMMA EditOut ==
    ASSUME NEW v \in Worker, Connected(v), NEW t \in Tasks, NEW x \in Queries \cup {0}
    PROVE  LET u == [v EXCEPT !.out[t] = x]
           IN  /\ u \in Worker /\ Connected(u) /\ u.q = v.q /\ u.race = v.race /\ u.again = v.again
               /\ u.out[t] = x /\ \A a \in Tasks \ {t} : u.out[a] = v.out[a]
<1> DEFINE u == [v EXCEPT !.out[t] = x]
<1>1. u \in Worker
  BY DEF Worker
<1>2. /\ u.q = v.q /\ u.race = v.race /\ u.again = v.again /\ u.conn = v.conn
      /\ u.out = [v.out EXCEPT ![t] = x]
  BY DEF Worker
<1> HIDE DEF u
<1>3. Connected(u)
  BY <1>2 DEF Connected
<1> QED BY <1>1, <1>2, <1>3, WorkerParts DEF u

\* And to the one that races it.
LEMMA EditRace ==
    ASSUME NEW v \in Worker, Connected(v), NEW t \in Tasks, NEW x \in Queries \cup {0}
    PROVE  LET u == [v EXCEPT !.race[t] = x]
           IN  /\ u \in Worker /\ Connected(u) /\ u.q = v.q /\ u.out = v.out /\ u.again = v.again
               /\ u.race[t] = x /\ \A a \in Tasks \ {t} : u.race[a] = v.race[a]
<1> DEFINE u == [v EXCEPT !.race[t] = x]
<1>1. u \in Worker
  BY DEF Worker
<1>2. /\ u.q = v.q /\ u.out = v.out /\ u.again = v.again /\ u.conn = v.conn
      /\ u.race = [v.race EXCEPT ![t] = x]
  BY DEF Worker
<1> HIDE DEF u
<1>3. Connected(u)
  BY <1>2 DEF Connected
<1> QED BY <1>1, <1>2, <1>3, WorkerParts DEF u

\* How often its question was sent again.
LEMMA EditAgain ==
    ASSUME NEW v \in Worker, Connected(v), NEW t \in Tasks, NEW n \in Nat
    PROVE  LET u == [v EXCEPT !.again[t] = n]
           IN  /\ u \in Worker /\ Connected(u) /\ u.q = v.q /\ u.out = v.out
               /\ u.race = v.race
<1> DEFINE u == [v EXCEPT !.again[t] = n]
<1>1. u \in Worker
  BY DEF Worker
<1>2. u.q = v.q /\ u.out = v.out /\ u.race = v.race /\ u.conn = v.conn
  BY DEF Worker
<1> HIDE DEF u
<1>3. Connected(u)
  BY <1>2 DEF Connected
<1> QED BY <1>1, <1>2, <1>3 DEF u

\* What a query has of its own is changed, but not its connection.
LEMMA EditQuery ==
    ASSUME NEW v \in Worker, Connected(v), NEW x \in Queries, NEW r \in Query,
           r.via = v.q[x].via, r.conn = v.q[x].conn, r.server = v.q[x].server
    PROVE  LET u == [v EXCEPT !.q[x] = r]
           IN  /\ Kept(v, u) /\ u.again = v.again /\ u.conn = v.conn
               /\ u.q[x] = r /\ \A y \in Queries \ {x} : u.q[y] = v.q[y]
<1> DEFINE u == [v EXCEPT !.q[x] = r]
<1>1. /\ u.q = [v.q EXCEPT ![x] = r] /\ u.out = v.out /\ u.race = v.race
      /\ u.conn = v.conn /\ u.again = v.again
  BY DEF Worker
<1>2. u \in Worker
  BY DEF Worker
<1> HIDE DEF u
<1>3. u.q[x] = r /\ \A y \in Queries \ {x} : u.q[y] = v.q[y]
  BY <1>1, WorkerParts
<1>4. Connected(u)
  <2>1. \A s \in Servers : Range(v.conn[s].pending) \subseteq Queries
    <3> SUFFICES ASSUME NEW s \in Servers PROVE Range(v.conn[s].pending) \subseteq Queries
      OBVIOUS
    <3>1. v.conn[s].pending \in Seq(Queries)
      BY WorkerParts DEF Conn
    <3> QED BY <3>1, InSeq
  <2>2. \A y \in Queries : /\ u.q[y].via = v.q[y].via /\ u.q[y].conn = v.q[y].conn
                           /\ u.q[y].server = v.q[y].server
    BY <1>3
  <2>3. \A y \in Queries :
          u.q[y].conn \/ u.q[y].via # "none" => u.q[y].server \in Servers
    BY <2>2 DEF Connected
  <2> QED BY <1>1, <2>1, <2>2, <2>3, StaysConnected, Zenon
<1> QED BY <1>1, <1>2, <1>3, <1>4 DEF Kept, u

\* The fields of a query that handlers set.
LEMMA QueryFields ==
    ASSUME NEW q \in Query, NEW b \in BOOLEAN
    PROVE  /\ [q EXCEPT !.task = "none"] \in Query /\ [q EXCEPT !.task = "none"].task = "none"
           /\ [q EXCEPT !.task = "none"].via = q.via /\ [q EXCEPT !.task = "none"].conn = q.conn
           /\ [q EXCEPT !.task = "none"].server = q.server
           /\ \A r \in {[q EXCEPT !.probe = b], [q EXCEPT !.timer = b],
                        [q EXCEPT !.resent = b], [q EXCEPT !.retry = b], [q EXCEPT !.sent = b]} :
                /\ r \in Query /\ r.task = q.task /\ r.via = q.via /\ r.conn = q.conn
                /\ r.server = q.server
           /\ q.task = "none" => LET r == [q EXCEPT !.late = TRUE]
                                 IN  /\ r \in Query /\ r.task = q.task /\ r.via = q.via
                                     /\ r.conn = q.conn /\ r.server = q.server
<1>1. /\ [q EXCEPT !.task = "none"] \in Query /\ [q EXCEPT !.task = "none"].task = "none"
      /\ [q EXCEPT !.task = "none"].via = q.via /\ [q EXCEPT !.task = "none"].conn = q.conn
      /\ [q EXCEPT !.task = "none"].server = q.server
  BY DEF Query, QueryRec
<1> DEFINE P(r) == /\ r \in Query /\ r.task = q.task /\ r.via = q.via /\ r.conn = q.conn
                   /\ r.server = q.server
<1>2. P([q EXCEPT !.probe = b])
  BY DEF Query, QueryRec
<1>3. q.task = "none" => P([q EXCEPT !.late = TRUE])
  BY Zenon DEF Query, QueryRec
<1>4. P([q EXCEPT !.timer = b])
  BY DEF Query, QueryRec
<1>5. P([q EXCEPT !.resent = b])
  BY DEF Query, QueryRec
<1>6. P([q EXCEPT !.retry = b])
  BY DEF Query, QueryRec
<1>7. P([q EXCEPT !.sent = b])
  BY DEF Query, QueryRec
<1> HIDE DEF P
<1>8. \A r \in {[q EXCEPT !.probe = b], [q EXCEPT !.timer = b],
                [q EXCEPT !.resent = b], [q EXCEPT !.retry = b], [q EXCEPT !.sent = b]} : P(r)
  BY <1>2, <1>4, <1>5, <1>6, <1>7
<1> QED BY <1>1, <1>3, <1>8 DEF P

\* x has no task any more, and is otherwise where it was.
OffQ(v, u, x) ==
    /\ \A y \in Queries \ {x} : u.q[y] = v.q[y]
    /\ u.q[x].task = "none" /\ u.q[x].via = v.q[x].via /\ u.q[x].conn = v.q[x].conn

\* out_to_probe(), and what else takes a query from its task.
LEMMA OffOp ==
    ASSUME NEW v \in Worker, Connected(v), NEW x \in Queries
    PROVE  /\ LET u == [v EXCEPT !.q[x].task = "none"] IN Kept(v, u) /\ OffQ(v, u, x)
           /\ LET u == ToProbe(v, x) IN Kept(v, u) /\ OffQ(v, u, x)
           /\ LET u == ListenOn(v, x) IN Kept(v, u) /\ OffQ(v, u, x)
<1> DEFINE q == v.q[x]
           r1 == [q EXCEPT !.task = "none"]
           r2 == [r1 EXCEPT !.probe = TRUE]
           r3 == [r2 EXCEPT !.late = TRUE]
           r4 == [r3 EXCEPT !.timer = TRUE]
           G(r) == /\ r \in Query /\ r.task = "none" /\ r.via = q.via /\ r.conn = q.conn
                   /\ r.server = q.server
           E(r) == [v EXCEPT !.q[x] = r]
<1>1. q \in Query /\ TRUE \in BOOLEAN
  BY WorkerParts
<1>2. G(r1)
  BY <1>1, QueryFields, Zenon
<1>3. G(r2)
  <2> HIDE DEF r1
  <2> QED BY <1>1, <1>2, QueryFields, Zenon
<1>4. G(r3)
  <2> HIDE DEF r2
  <2> QED BY <1>1, <1>3, QueryFields, Zenon
<1>5. G(r4)
  <2> HIDE DEF r3
  <2> QED BY <1>1, <1>4, QueryFields, Zenon
<1>6. ASSUME NEW r, G(r) PROVE Kept(v, E(r)) /\ OffQ(v, E(r), x)
  <2> DEFINE u == E(r)
  <2>1. Kept(v, u) /\ u.q[x] = r /\ \A y \in Queries \ {x} : u.q[y] = v.q[y]
    BY <1>6, EditQuery
  <2> HIDE DEF u
  <2>2. Kept(v, u) /\ OffQ(v, u, x)
    BY <1>6, <2>1 DEF OffQ
  <2> QED BY <2>2 DEF u
<1>7. [v EXCEPT !.q[x].task = "none"] = E(r1)
  OBVIOUS
<1>8. ToProbe(v, x) = E(r2)
  BY Zenon DEF ToProbe, Worker
<1>9. ListenOn(v, x) = E(r4)
  BY ZenonT(30) DEF ListenOn, ToProbe, Worker
<1> HIDE DEF E, r1, r2, r4, G
<1> QED BY <1>2, <1>3, <1>5, <1>6, <1>7, <1>8, <1>9

\* x is marked, and has the task it had.
MarkedQ(v, u, x) ==
    /\ \A y \in Queries \ {x} : u.q[y] = v.q[y]
    /\ u.q[x].task = v.q[x].task /\ u.q[x].via = v.q[x].via /\ u.q[x].conn = v.q[x].conn
    /\ u.q[x].server = v.q[x].server

\* A timer deleted, a retry or a second sending noted.
LEMMA MarkOp ==
    ASSUME NEW v \in Worker, Connected(v), NEW x \in Queries, NEW b \in BOOLEAN
    PROVE  /\ LET u == [v EXCEPT !.q[x].timer = b] IN Kept(v, u) /\ MarkedQ(v, u, x)
           /\ LET u == [v EXCEPT !.q[x].retry = b] IN Kept(v, u) /\ MarkedQ(v, u, x)
           /\ LET u == [v EXCEPT !.q[x].resent = b] IN Kept(v, u) /\ MarkedQ(v, u, x)
<1> DEFINE q == v.q[x]
           G(r) == /\ r \in Query /\ r.task = q.task /\ r.via = q.via /\ r.conn = q.conn
                   /\ r.server = q.server
           E(r) == [v EXCEPT !.q[x] = r]
           r1 == [q EXCEPT !.timer = b]
           r2 == [q EXCEPT !.retry = b]
           r3 == [q EXCEPT !.resent = b]
<1>1. q \in Query
  BY WorkerParts
<1>2. G(r1) /\ G(r2) /\ G(r3)
  BY <1>1, QueryFields, Zenon
<1>3. ASSUME NEW r, G(r) PROVE Kept(v, E(r)) /\ MarkedQ(v, E(r), x)
  <2> DEFINE u == E(r)
  <2>1. Kept(v, u) /\ u.q[x] = r /\ \A y \in Queries \ {x} : u.q[y] = v.q[y]
    BY <1>3, EditQuery
  <2> HIDE DEF u
  <2>2. Kept(v, u) /\ MarkedQ(v, u, x)
    BY <1>3, <2>1 DEF MarkedQ
  <2> QED BY <2>2 DEF u
<1>4. /\ [v EXCEPT !.q[x].timer = b] = E(r1)
      /\ [v EXCEPT !.q[x].retry = b] = E(r2)
      /\ [v EXCEPT !.q[x].resent = b] = E(r3)
  OBVIOUS
<1> HIDE DEF E, r1, r2, r3, G
<1> QED BY <1>2, <1>3, <1>4, SMTT(60)

\* A query marked in passing is hooked as it was.
LEMMA MarkedHooked ==
    ASSUME NEW v \in Worker, NEW u \in Worker, Hooks(v), NEW x \in Queries, MarkedQ(v, u, x),
           u.out = v.out, u.race = v.race
    PROVE  Hooks(u)
BY SameHooked DEF SameHooks, MarkedQ

\* A task's pointers are set, and one query taken from it.
PointOut(v, t, o, x) == [v EXCEPT !.out[t] = o, !.q[x].task = "none"]
PointBoth(v, t, o, x) == [v EXCEPT !.out[t] = o, !.race[t] = 0, !.q[x].task = "none"]

\* What that leaves.
LEMMA PointOp ==
    ASSUME NEW v \in Worker, Connected(v), NEW t \in Tasks, NEW x \in Queries,
           NEW o \in Queries \cup {0}
    PROVE  /\ LET u == PointOut(v, t, o, x)
              IN  /\ u \in Worker /\ Connected(u) /\ OffQ(v, u, x) /\ u.race = v.race
                  /\ u.out[t] = o /\ \A a \in Tasks \ {t} : u.out[a] = v.out[a]
           /\ LET u == PointBoth(v, t, o, x)
              IN  /\ u \in Worker /\ Connected(u) /\ OffQ(v, u, x)
                  /\ u.out[t] = o /\ u.race[t] = 0
                  /\ \A a \in Tasks \ {t} : u.out[a] = v.out[a] /\ u.race[a] = v.race[a]
<1> DEFINE a == [v EXCEPT !.out[t] = o]
           b == [a EXCEPT !.race[t] = 0]
           c == [a EXCEPT !.q[x].task = "none"]
           d == [b EXCEPT !.q[x].task = "none"]
<1>1. c = PointOut(v, t, o, x)
  BY DEF PointOut
<1>2. d = PointBoth(v, t, o, x)
  BY DEF PointBoth
<1>3. /\ a \in Worker /\ Connected(a) /\ a.q = v.q /\ a.race = v.race
      /\ a.out[t] = o /\ \A k \in Tasks \ {t} : a.out[k] = v.out[k]
  BY EditOut
<1> HIDE DEF a
<1>4. /\ b \in Worker /\ Connected(b) /\ b.q = v.q /\ b.out = a.out
      /\ b.race[t] = 0 /\ \A k \in Tasks \ {t} : b.race[k] = v.race[k]
  BY <1>3, EditRace
<1> HIDE DEF b
<1>5. Kept(a, c) /\ OffQ(a, c, x)
  BY <1>3, OffOp
<1>6. Kept(b, d) /\ OffQ(b, d, x)
  BY <1>4, OffOp
<1> HIDE DEF c, d
<1>7. /\ c \in Worker /\ Connected(c) /\ OffQ(v, c, x) /\ c.race = v.race
      /\ c.out[t] = o /\ \A k \in Tasks \ {t} : c.out[k] = v.out[k]
  BY <1>3, <1>5 DEF Kept, OffQ
<1>8. /\ d \in Worker /\ Connected(d) /\ OffQ(v, d, x) /\ d.out[t] = o /\ d.race[t] = 0
      /\ \A k \in Tasks \ {t} : d.out[k] = v.out[k] /\ d.race[k] = v.race[k]
  BY <1>3, <1>4, <1>6 DEF Kept, OffQ
<1> QED BY <1>1, <1>2, <1>7, <1>8
=============================================================================
