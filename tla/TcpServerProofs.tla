-------------------------- MODULE TcpServerProofs ---------------------------
(***************************************************************************)
(* The clients' TCP connections, for any number of connections and         *)
(* resolutions, any marks and buffer sizes, and any queries.               *)
(*                                                                         *)
(* The argument: what is true of a connection depends on the connection,   *)
(* its client, and where the worker's callback stands if it stands on this *)
(* connection (Good).  A step changes one connection and its client, so it *)
(* is enough that what it makes of them is good again (Touch).  Beside     *)
(* that, the counts follow the pointers (Counts).                          *)
(*                                                                         *)
(* That Prefix() has a query to read rests on the bytes: those the client  *)
(* has sent and not got back as whole queries are in transit, in the       *)
(* kernel or in the read buffer (Bytes).                                   *)
(***************************************************************************)
EXTENDS TcpServer, FiniteSetTheorems, TLAPS

Busy == {"write", "read", "serve", "resume"}

Places == [pc : Busy, c : Conns, read : BOOLEAN]
          \cup {Idle, [Idle EXCEPT !.pc = "gone"]}

\* The fields of a connection.  The capacity of its write buffer is left open:
\* no property here depends on how far doubling takes it.
Shapes(txcap) ==
    [open : BOOLEAN, closing : BOOLEAN, pending : Nat, rxlen : Nat,
     rxwant : Nat, rxcap : Nat, txlen : Nat, txsent : Nat,
     txcap : {txcap}, stalled : BOOLEAN, mask : SUBSET {"READ", "WRITE"},
     idle : BOOLEAN, used : BOOLEAN]

Shaped(k) == k \in Shapes(k.txcap) /\ k.txsent <= k.txlen

\* Its life: open with its timer set, then closing for as long as a resolution
\* points at it, then freed.
Lives(k) ==
    /\ k.open => k.used /\ ~k.closing
    /\ k.closing => k.used /\ k.pending > 0
    /\ k.used => k.open \/ k.closing
    /\ k.open <=> k.idle
    /\ ~k.used => k.pending = 0

Bound(k) ==
    \A r \in Replies :
        (\A x \in Replies : x <= r) =>
            Unsent(k) + k.pending * r <= TCP_TX_HIGH + (Cardinality(Tasks) + 1) * r

\* What tcp_want() last asked for is what the connection still wants.
Waits(k) ==
    k.open =>
        /\ "WRITE" \in k.mask <=> Unsent(k) > 0
        /\ "READ" \in k.mask <=> ~k.stalled
        /\ k.stalled => Unsent(k) > 0

\* A connection that is not held back has no whole query left in its buffer.
Drained(k) == k.open /\ ~k.stalled => k.rxlen < k.rxwant + 1

Clients == [stream : Seq(Bodies), transit : Nat, kernel : Nat, sndbuf : 0..SNDBUF,
            left : Nat, end : {"none", "fin", "rst"}]

\* The ends of the queries sent, as offsets into what the client has sent: the
\* last is where the bytes on their way and in the buffer end.
Ends(s, n, f) ==
    /\ f \in [0..Len(s) -> Int] /\ f[0] = 0 /\ f[Len(s)] = n
    /\ \A i \in 1..Len(s) : f[i] = f[i - 1] + 1 + s[i]

Bytes(k, x) ==
    k.open =>
        /\ \E f : Ends(x.stream, k.rxlen + x.kernel + x.transit, f)
        /\ k.rxwant # 0 => x.stream # <<>> /\ k.rxwant = Head(x.stream)

\* The callback that stands on the connection.
Stands(k, pc) ==
    /\ k.open /\ (pc \in {"read", "serve"} => ~k.stalled)
    /\ pc = "resume" => k.stalled

Good(c, k, x, a) ==
    LET here == a.pc \in Busy /\ a.c = c
    IN  /\ Shaped(k) /\ Lives(k) /\ Bound(k) /\ x \in Clients /\ Bytes(k, x)
        /\ ~(here /\ a.pc = "resume") => Waits(k)
        /\ ~(here /\ a.pc = "serve") => Drained(k)
        /\ here => Stands(k, a.pc)

Counts ==
    /\ \A c \in Conns : conn[c].pending = Cardinality(Holders(c))
    /\ IsFiniteSet(Allocated)
    /\ n_conns = Cardinality(Allocated) /\ n_conns <= MAX_CONN

IInv ==
    /\ at \in Places /\ task \in [Tasks -> Conns \cup {"none"}]
    /\ DOMAIN conn = Conns /\ conn = [c \in Conns |-> conn[c]]
    /\ client \in [Conns -> Clients]
    /\ \A c \in Conns : Good(c, conn[c], client[c], at)
    /\ Counts

-----------------------------------------------------------------------------
(* Arithmetic.                                                              *)

\* Products of counts grow with their factors and distribute.
LEMMA Products ==
    ASSUME NEW a \in Nat, NEW b \in Nat, NEW m \in Nat
    PROVE  /\ a * m \in Nat /\ (a <= b => a * m <= b * m)
           /\ (a + b) * m = a * m + b * m
           /\ (b <= a => (a - b) * m = a * m - b * m)
OBVIOUS

\* TCP_TX_HIGH and one reply past it, with room for every resolution's reply.
LEMMA BoundReached ==
    ASSUME NEW k, k.pending \in Nat, k.pending <= Cardinality(Tasks),
           Unsent(k) \in Nat, NEW r \in Replies \cup {0}, Unsent(k) <= TCP_TX_HIGH + r
    PROVE  Bound(k)
<1> SUFFICES ASSUME NEW m \in Replies, \A x \in Replies : x <= m
             PROVE  Unsent(k) + k.pending * m <= TCP_TX_HIGH + (Cardinality(Tasks) + 1) * m
  BY DEF Bound
<1>1. /\ m \in Nat /\ r \in Nat /\ r <= m /\ TCP_TX_HIGH \in Nat
      /\ Cardinality(Tasks) \in Nat
  BY TcpServerAssumption, FS_CardinalityType
<1>2. k.pending * m <= Cardinality(Tasks) * m
      /\ (Cardinality(Tasks) + 1) * m = Cardinality(Tasks) * m + 1 * m
  BY <1>1, Products
<1>3. k.pending * m \in Nat /\ Cardinality(Tasks) * m \in Nat /\ 1 * m = m
  BY <1>1, Products
<1> QED BY <1>1, <1>2, <1>3

\* Less to send, and no more resolutions: still within the bound.
LEMMA BoundShrinks ==
    ASSUME NEW k, NEW j, Bound(k), k.pending \in Nat, j.pending = k.pending,
           Unsent(k) \in Nat, Unsent(j) \in Nat, Unsent(j) <= Unsent(k)
    PROVE  Bound(j)
<1> SUFFICES ASSUME NEW m \in Replies, \A x \in Replies : x <= m
             PROVE  Unsent(j) + j.pending * m <= TCP_TX_HIGH + (Cardinality(Tasks) + 1) * m
  BY DEF Bound
<1>1. Unsent(k) + k.pending * m <= TCP_TX_HIGH + (Cardinality(Tasks) + 1) * m
  BY DEF Bound
<1>2. m \in Nat /\ TCP_TX_HIGH \in Nat /\ Cardinality(Tasks) \in Nat
  BY TcpServerAssumption, FS_CardinalityType
<1>3. k.pending * m \in Nat /\ (Cardinality(Tasks) + 1) * m \in Nat
  BY <1>2, Products
<1> QED BY <1>1, <1>2, <1>3

\* A resolution's reply takes the room that was kept for it.
LEMMA BoundResolved ==
    ASSUME NEW k, NEW j, Bound(k), k.pending \in Nat \ {0}, j.pending = k.pending - 1,
           Unsent(k) \in Nat, Unsent(j) \in Nat, NEW r \in Replies,
           Unsent(j) <= Unsent(k) + r
    PROVE  Bound(j)
<1> SUFFICES ASSUME NEW m \in Replies, \A x \in Replies : x <= m
             PROVE  Unsent(j) + j.pending * m <= TCP_TX_HIGH + (Cardinality(Tasks) + 1) * m
  BY DEF Bound
<1>1. Unsent(k) + k.pending * m <= TCP_TX_HIGH + (Cardinality(Tasks) + 1) * m
  BY DEF Bound
<1>2. m \in Nat /\ r \in Nat /\ r <= m /\ TCP_TX_HIGH \in Nat /\ Cardinality(Tasks) \in Nat
  BY TcpServerAssumption, FS_CardinalityType
<1>3. /\ j.pending * m = k.pending * m - 1 * m /\ 1 * m = m
      /\ k.pending * m \in Nat /\ (Cardinality(Tasks) + 1) * m \in Nat
  BY <1>2, Products
<1> QED BY <1>1, <1>2, <1>3

-----------------------------------------------------------------------------
(* The operators on a connection.                                           *)

\* All of a connection but what tcp_want() sets.
SameButMask(j, k) ==
    /\ j.open = k.open /\ j.closing = k.closing /\ j.pending = k.pending
    /\ j.rxlen = k.rxlen /\ j.rxwant = k.rxwant /\ j.rxcap = k.rxcap
    /\ j.txlen = k.txlen /\ j.txsent = k.txsent
    /\ j.stalled = k.stalled /\ j.idle = k.idle /\ j.used = k.used

\* A freed connection has its fields, and nothing in them.
LEMMA FreeShaped == Shaped(Free) /\ Lives(Free) /\ ~Free.open /\ Free.pending = 0 /\ ~Free.used
BY DEF Free, Shaped, Shapes, Lives

\* What is unsent is a count.
LEMMA UnsentNat == ASSUME NEW k, Shaped(k) PROVE Unsent(k) \in Nat
BY DEF Shaped, Shapes, Unsent

\* tcp_want() asks for what the connection wants, and sets nothing else.
LEMMA WantsRight ==
    ASSUME NEW k, Shaped(k)
    PROVE  /\ Shaped(TcpWant(k)) /\ SameButMask(TcpWant(k), k)
           /\ (k.stalled => Unsent(k) > 0) => Waits(TcpWant(k))
<1> DEFINE want == (IF k.stalled THEN {} ELSE {"READ"})
                   \cup (IF Unsent(k) > 0 THEN {"WRITE"} ELSE {})
           m == IF want = {} THEN {"READ"} ELSE want
<1>1. TcpWant(k) = IF ~k.open THEN k ELSE [k EXCEPT !.mask = m]
  BY DEF TcpWant
<1>2. m \subseteq {"READ", "WRITE"}
  OBVIOUS
<1>3. (k.stalled => Unsent(k) > 0) =>
        ("WRITE" \in m <=> Unsent(k) > 0) /\ ("READ" \in m <=> ~k.stalled)
  OBVIOUS
<1> HIDE DEF m
<1>4. /\ Shaped([k EXCEPT !.mask = m]) /\ SameButMask([k EXCEPT !.mask = m], k)
      /\ [k EXCEPT !.mask = m].mask = m
  BY <1>2 DEF Shaped, Shapes, SameButMask
<1>5. Unsent([k EXCEPT !.mask = m]) = Unsent(k)
  BY <1>4 DEF SameButMask, Unsent
<1>6. CASE k.open
  BY Zenon, <1>1, <1>3, <1>4, <1>5, <1>6 DEF Waits, SameButMask
<1>7. CASE ~k.open
  BY <1>1, <1>7 DEF Waits, SameButMask
<1> QED BY <1>6, <1>7

\* What depends on none of the fields tcp_want() sets.
LEMMA SameKeeps ==
    ASSUME NEW j, NEW k, SameButMask(j, k)
    PROVE  /\ Lives(k) => Lives(j)
           /\ Bound(k) => Bound(j)
           /\ Drained(k) => Drained(j)
           /\ Unsent(j) = Unsent(k)
           /\ \A x : Bytes(k, x) => Bytes(j, x)
<1>1. Unsent(j) = Unsent(k)
  BY DEF SameButMask, Unsent
<1>2. (Lives(k) => Lives(j)) /\ (Drained(k) => Drained(j))
  BY DEF SameButMask, Lives, Drained
<1>3. Bound(k) => Bound(j)
  BY <1>1 DEF SameButMask, Bound
<1>4. \A x : Bytes(k, x) => Bytes(j, x)
  BY DEF SameButMask, Bytes
<1> QED BY <1>1, <1>2, <1>3, <1>4

\* tcp_queue() appends the reply, or drops it and leaves all as it was.
LEMMA QueueAppends ==
    ASSUME NEW k, NEW r \in Replies, Shaped(k)
    PROVE  /\ Shaped(TcpQueue(k, r))
           /\ \/ TcpQueue(k, r) = k
              \/ /\ ~k.closing
                 /\ SameButMask(TcpQueue(k, r), [k EXCEPT !.txlen = @ + r])
                 /\ Waits(TcpQueue(k, r))
<1> DEFINE need == k.txlen + r
           size == IF need > k.txcap THEN Grown(k.txcap, need) ELSE k.txcap
           j == [k EXCEPT !.txlen = need, !.txcap = size]
<1>1. TcpQueue(k, r) = IF k.closing \/ size = 0 THEN k ELSE TcpWant(j)
  BY DEF TcpQueue
<1> HIDE DEF size
<1>2. r \in Nat \ {0} /\ k.txlen \in Nat /\ k.txsent \in 0..k.txlen
  BY TcpServerAssumption DEF Shaped, Shapes
<1>3. Shaped(j) /\ SameButMask(j, [k EXCEPT !.txlen = @ + r])
  <2>1. /\ j.open = k.open /\ j.closing = k.closing /\ j.pending = k.pending
        /\ j.rxlen = k.rxlen /\ j.rxwant = k.rxwant /\ j.rxcap = k.rxcap
        /\ j.txlen = need /\ j.txsent = k.txsent /\ j.txcap = size /\ j.mask = k.mask
        /\ j.stalled = k.stalled /\ j.idle = k.idle /\ j.used = k.used
    BY DEF Shaped, Shapes
  <2>2. Shaped(j)
    <3>1. need \in Nat /\ k.txsent <= need
      BY <1>2
    <3>2. j \in Shapes(size)
      BY Zenon, <3>1 DEF Shaped, Shapes
    <3> HIDE DEF j
    <3> QED BY <2>1, <3>1, <3>2 DEF Shaped, Shapes
  <2>3. SameButMask(j, [k EXCEPT !.txlen = @ + r])
    BY <2>1 DEF Shaped, Shapes, SameButMask
  <2> QED BY <2>2, <2>3
<1>4. Unsent(j) > 0
  <2>1. j.txlen = k.txlen + r /\ j.txsent = k.txsent
    BY DEF Shaped, Shapes
  <2> HIDE DEF j
  <2> QED BY <1>2, <2>1 DEF Unsent
<1> HIDE DEF j
<1>5. Shaped(TcpWant(j)) /\ SameButMask(TcpWant(j), j) /\ Waits(TcpWant(j))
  BY <1>3, <1>4, WantsRight
<1> QED BY <1>1, <1>3, <1>5 DEF SameButMask

\* What is true of a connection after a reply is queued on it.
LEMMA QueueKeeps ==
    ASSUME NEW k, NEW r \in Replies, Shaped(k), Lives(k)
    PROVE  LET j == TcpQueue(k, r) IN
           /\ Shaped(j) /\ Lives(j)
           /\ j.open = k.open /\ j.closing = k.closing /\ j.pending = k.pending
           /\ j.used = k.used /\ j.stalled = k.stalled
           /\ Unsent(j) \in Nat /\ Unsent(j) <= Unsent(k) + r
           /\ Waits(k) => Waits(j)
           /\ Drained(k) => Drained(j)
           /\ \A x : Bytes(k, x) => Bytes(j, x)
<1> DEFINE j == TcpQueue(k, r)
           m == [k EXCEPT !.txlen = @ + r]
<1>1. r \in Nat /\ Unsent(k) \in Nat
  BY TcpServerAssumption, UnsentNat
<1>2. CASE j = k
  BY <1>1, <1>2
<1>3. CASE j # k
  <2>1. SameButMask(j, m) /\ Waits(j) /\ Shaped(j)
    BY <1>3, QueueAppends
  <2>2. /\ m.open = k.open /\ m.closing = k.closing /\ m.pending = k.pending
        /\ m.used = k.used /\ m.stalled = k.stalled /\ m.idle = k.idle
        /\ m.rxlen = k.rxlen /\ m.rxwant = k.rxwant
        /\ m.txlen = k.txlen + r /\ m.txsent = k.txsent
    BY DEF Shaped, Shapes
  <2> HIDE DEF j, m
  <2>3. Lives(m) /\ (Drained(k) => Drained(m)) /\ \A x : Bytes(k, x) => Bytes(m, x)
    BY <2>2 DEF Lives, Drained, Bytes
  <2>4. Unsent(m) <= Unsent(k) + r
    BY <1>1, <2>2 DEF Shaped, Shapes, Unsent
  <2>5. Unsent(j) = Unsent(m) /\ Unsent(j) \in Nat
    BY <2>1, UnsentNat, SameKeeps
  <2>6. Lives(j) /\ (Drained(k) => Drained(j)) /\ \A x : Bytes(k, x) => Bytes(j, x)
    BY <2>1, <2>3, SameKeeps
  <2>7. /\ j.open = k.open /\ j.closing = k.closing /\ j.pending = k.pending
        /\ j.used = k.used /\ j.stalled = k.stalled
    BY <2>1, <2>2 DEF SameButMask
  <2> QED BY <2>1, <2>4, <2>5, <2>6, <2>7 DEF j
<1> QED BY <1>2, <1>3, QueueAppends

-----------------------------------------------------------------------------
(* The queries a client has sent.                                           *)

\* What is counted up to a number is a number.
LEMMA IntervalNat ==
    ASSUME NEW m \in Nat, NEW i \in 1..m PROVE i \in Nat
OBVIOUS

\* A query sent last does not change which is first.
LEMMA AppendKeepsHead ==
    ASSUME NEW s \in Seq(Bodies), NEW b \in Bodies, s # <<>>
    PROVE  Append(s, b) # <<>> /\ Head(Append(s, b)) = Head(s)
OBVIOUS

\* Sending one more.
LEMMA EndsAppend ==
    ASSUME NEW s \in Seq(Bodies), NEW n \in Nat, NEW f, Ends(s, n, f), NEW b \in Bodies
    PROVE  \E g : Ends(Append(s, b), n + 1 + b, g)
<1> DEFINE g == [i \in 0..(Len(s) + 1) |-> IF i <= Len(s) THEN f[i] ELSE n + 1 + b]
<1>1. b \in Nat /\ Len(s) \in Nat
  BY TcpServerAssumption
<1>2. /\ Len(Append(s, b)) = Len(s) + 1 /\ Append(s, b)[Len(s) + 1] = b
      /\ \A i \in 1..Len(s) : Append(s, b)[i] = s[i]
  OBVIOUS
<1>3. g \in [0..Len(Append(s, b)) -> Int] /\ g[0] = 0 /\ g[Len(s) + 1] = n + 1 + b
  BY <1>1, <1>2 DEF Ends
<1>4. ASSUME NEW i \in 1..(Len(s) + 1) PROVE g[i] = g[i - 1] + 1 + Append(s, b)[i]
  <2>1. CASE i = Len(s) + 1
    BY <1>1, <1>2, <2>1 DEF Ends
  <2>2. CASE i # Len(s) + 1
    <3>1. i \in 1..Len(s) /\ i - 1 \in 0..Len(s)
      BY <1>1, <2>2
    <3>2. g[i] = f[i] /\ g[i - 1] = f[i - 1]
      BY <1>1, <3>1
    <3> QED BY <1>2, <3>1, <3>2 DEF Ends
  <2> QED BY <2>1, <2>2
<1> HIDE DEF g
<1> QED BY Zenon, <1>2, <1>3, <1>4 DEF Ends

\* Taking the first.
LEMMA EndsTail ==
    ASSUME NEW s \in Seq(Bodies), NEW n \in Nat, NEW f, Ends(s, n, f), s # <<>>
    PROVE  \E g : Ends(Tail(s), n - (1 + Head(s)), g)
<1> DEFINE g == [i \in 0..(Len(s) - 1) |-> f[i + 1] - f[1]]
<1>0. ASSUME NEW i \in 1..Len(s) PROVE s[i] \in Nat
  <2>1. s[i] \in Bodies
    OBVIOUS
  <2>2. Bodies \subseteq Nat
    BY TcpServerAssumption
  <2> QED BY <2>1, <2>2, Zenon
<1>1. Len(s) \in Nat \ {0} /\ Head(s) = s[1] /\ Head(s) \in Nat
  <2>1. Len(s) \in Nat \ {0} /\ Head(s) = s[1]
    OBVIOUS
  <2> QED BY <1>0, <2>1
<1>2. /\ Len(Tail(s)) = Len(s) - 1
      /\ \A i \in 1..(Len(s) - 1) : Tail(s)[i] = s[i + 1]
  OBVIOUS
<1>3. f \in [0..Len(s) -> Int] /\ f[0] = 0 /\ f[Len(s)] = n /\ f[1] = 1 + Head(s)
  BY <1>1 DEF Ends
<1>4. /\ g \in [0..Len(Tail(s)) -> Int] /\ g[0] = 0
      /\ g[Len(s) - 1] = n - (1 + Head(s))
  BY <1>1, <1>2, <1>3
<1>5. ASSUME NEW i \in 1..(Len(s) - 1) PROVE g[i] = g[i - 1] + 1 + Tail(s)[i]
  <2>1. i + 1 \in 1..Len(s) /\ i - 1 \in 0..(Len(s) - 1) /\ i \in 0..(Len(s) - 1)
    BY <1>1
  <2>2. f[i + 1] = f[i] + 1 + s[i + 1]
    BY <1>1, <2>1 DEF Ends
  <2>3. g[i] = f[i + 1] - f[1] /\ g[i - 1] = f[i] - f[1]
    BY <1>1, <2>1
  <2>4. f[i] \in Int /\ f[1] \in Int /\ s[i + 1] \in Nat
    BY <1>0, <1>1, <1>3, <2>1
  <2> QED BY <1>2, <2>2, <2>3, <2>4
<1> HIDE DEF g
<1> QED BY <1>2, <1>4, <1>5 DEF Ends

\* A client that has sent nothing.
LEMMA EndsNone == \E f : Ends(<<>>, 0, f)
<1>1. Ends(<<>>, 0, [i \in 0..0 |-> 0])
  BY DEF Ends
<1> QED BY <1>1

\* With nothing sent there is nothing to read.
LEMMA EndsEmpty ==
    ASSUME NEW n, NEW f, Ends(<<>>, n, f) PROVE n = 0
BY DEF Ends

-----------------------------------------------------------------------------
(* The counts.                                                              *)

\* Neither who points where nor which connections there are has changed.
LEMMA CountsKept ==
    ASSUME IInv, NEW c \in Conns, NEW k, conn' = [conn EXCEPT ![c] = k],
           k.pending = conn[c].pending, k.used = conn[c].used, UNCHANGED <<task, n_conns>>
    PROVE  Counts'
<1>1. \A d \in Conns : conn'[d].pending = conn[d].pending /\ conn'[d].used = conn[d].used
  BY DEF IInv
<1>2. Allocated' = Allocated /\ \A d \in Conns : Holders(d)' = Holders(d)
  BY <1>1 DEF Allocated, Holders
<1> QED BY <1>1, <1>2 DEF IInv, Counts

\* A connection nothing points at is freed.
LEMMA CountsFreed ==
    ASSUME IInv, NEW c \in Conns, conn' = [conn EXCEPT ![c] = Free], conn[c].used,
           n_conns' = IF n_conns > 0 THEN n_conns - 1 ELSE 0,
           Cardinality(Holders(c))' = 0, \A d \in Conns \ {c} : Holders(d)' = Holders(d)
    PROVE  Counts'
<1>1. Allocated' = Allocated \ {c} /\ c \in Allocated
  BY FreeShaped DEF Allocated, IInv
<1>2. IsFiniteSet(Allocated') /\ Cardinality(Allocated') = Cardinality(Allocated) - 1
  BY <1>1, FS_RemoveElement DEF IInv, Counts
<1>3. Cardinality(Allocated) \in Nat /\ Cardinality(Allocated) # 0
  BY <1>1, FS_CardinalityType, FS_EmptySet DEF IInv, Counts
<1>4. n_conns' = Cardinality(Allocated') /\ n_conns' <= MAX_CONN
  BY <1>2, <1>3, TcpServerAssumption DEF IInv, Counts
<1>5. \A d \in Conns : conn'[d].pending = Cardinality(Holders(d)')
  BY FreeShaped DEF IInv, Counts
<1> QED BY <1>2, <1>4, <1>5 DEF Counts

\* There are no more pointers to a connection than resolutions.
LEMMA HoldersFinite ==
    ASSUME NEW c
    PROVE  IsFiniteSet(Holders(c)) /\ Cardinality(Holders(c)) \in Nat
           /\ Cardinality(Holders(c)) <= Cardinality(Tasks)
BY TcpServerAssumption, FS_Subset, FS_CardinalityType DEF Holders

-----------------------------------------------------------------------------
(* One connection at a time.                                                *)

\* A step that changes one connection, its client, and a callback that stood on
\* it or on none, leaves every other connection as good as it was.
LEMMA Touch ==
    ASSUME IInv, NEW c \in Conns, NEW k, NEW x,
           conn' = [conn EXCEPT ![c] = k], client' = [client EXCEPT ![c] = x],
           task' \in [Tasks -> Conns \cup {"none"}],
           at' \in Places, at.pc \in Busy => at.c = c, at'.pc \in Busy => at'.c = c,
           Good(c, k, x, at'), Counts'
    PROVE  IInv'
<1>1. conn' = [d \in Conns |-> conn'[d]] /\ DOMAIN conn' = Conns
  BY DEF IInv
<1>2. client' \in [Conns -> Clients]
  BY DEF IInv, Good
<1>3. conn'[c] = k /\ client'[c] = x
  BY DEF IInv
<1>4. ASSUME NEW d \in Conns, d # c PROVE Good(d, conn'[d], client'[d], at')
  <2>1. conn'[d] = conn[d] /\ client'[d] = client[d] /\ Good(d, conn[d], client[d], at)
    BY <1>4 DEF IInv
  <2>2. ~(at.pc \in Busy /\ at.c = d) /\ ~(at'.pc \in Busy /\ at'.c = d)
    BY <1>4
  <2> QED BY <2>1, <2>2 DEF Good
<1>5. \A d \in Conns : Good(d, conn'[d], client'[d], at')
  BY <1>3, <1>4
<1> QED BY <1>1, <1>2, <1>5 DEF IInv

\* A step of a client changes nothing of the server's.
LEMMA TouchClient ==
    ASSUME IInv, NEW c \in Conns, NEW x \in Clients, client' = [client EXCEPT ![c] = x],
           Bytes(conn[c], x), UNCHANGED <<conn, n_conns, task, at>>
    PROVE  IInv'
<1>1. client' \in [Conns -> Clients] /\ client'[c] = x
      /\ \A d \in Conns \ {c} : client'[d] = client[d]
  BY DEF IInv
<1>2. \A d \in Conns : Good(d, conn[d], client'[d], at)
  BY <1>1 DEF IInv, Good
<1>3. Counts'
  BY DEF IInv, Counts, Holders, Allocated
<1> QED BY <1>1, <1>2, <1>3 DEF IInv

\* A connection that is changed in place, by a callback on it.
LEMMA TouchInPlace ==
    ASSUME IInv, NEW c \in Conns, NEW k, NEW x, Become(c, k),
           client' = [client EXCEPT ![c] = x], UNCHANGED task,
           at' \in Places, at.pc \in Busy => at.c = c, at'.pc \in Busy => at'.c = c,
           k.pending = conn[c].pending, k.used = conn[c].used, Good(c, k, x, at')
    PROVE  IInv'
<1>1. conn' = [conn EXCEPT ![c] = k] /\ UNCHANGED <<task, n_conns>>
  BY DEF Become
<1>2. Counts'
  BY Zenon, <1>1, CountsKept
<1> QED BY Zenon, <1>1, <1>2, Touch DEF IInv

\* The other end of a socket that is closed.
LEMMA NoClientTyped == NoClient \in Clients /\ \A k : ~k.open => Bytes(k, NoClient)
BY TcpServerAssumption DEF NoClient, Clients, Bytes

\* What a client has sent is counted.
LEMMA ClientTyped ==
    ASSUME NEW x \in Clients
    PROVE  /\ x.stream \in Seq(Bodies) /\ x.kernel \in Nat /\ x.transit \in Nat
           /\ x.left \in Nat /\ x.sndbuf \in 0..SNDBUF
BY DEF Clients

\* What is left of a connection is good if it is closed: freed, or closing.
LEMMA ClosedGood ==
    ASSUME NEW c, NEW k, Shaped(k), Bound(k), k.used, k.pending > 0, NEW a, a.pc \notin Busy
    PROVE  LET j == [k EXCEPT !.idle = FALSE, !.open = FALSE, !.closing = TRUE, !.mask = {}]
           IN  Good(c, j, NoClient, a) /\ j.pending = k.pending /\ j.used = k.used
<1> DEFINE j == [k EXCEPT !.idle = FALSE, !.open = FALSE, !.closing = TRUE, !.mask = {}]
<1>1. /\ j.pending = k.pending /\ j.used = k.used /\ ~j.open /\ j.closing /\ ~j.idle
      /\ j.txlen = k.txlen /\ j.txsent = k.txsent /\ j.txcap = k.txcap
  BY Zenon DEF Shaped, Shapes
<1>2. Shaped(j)
  <2>1. j \in Shapes(k.txcap)
    BY Zenon DEF Shaped, Shapes
  <2> HIDE DEF j
  <2> QED BY <1>1, <2>1 DEF Shaped, Shapes
<1> HIDE DEF j
<1>3. Lives(j)
  BY <1>1 DEF Lives
<1>4. Unsent(j) = Unsent(k) /\ Unsent(k) \in Nat
  BY <1>1, UnsentNat DEF Unsent
<1>5. Bound(j)
  BY <1>1, <1>4, BoundShrinks DEF Shaped, Shapes
<1>6. Good(c, j, NoClient, a)
  BY <1>1, <1>2, <1>3, <1>5, NoClientTyped DEF Good, Waits, Drained
<1> QED BY Zenon, <1>1, <1>6 DEF j

\* A freed connection is good.
LEMMA FreeGood ==
    ASSUME NEW c, NEW a, a.pc \notin Busy PROVE Good(c, Free, NoClient, a)
<1>1. Unsent(Free) = 0
  BY DEF Free, Unsent
<1>2. Bound(Free)
  BY <1>1, FreeShaped, BoundReached, TcpServerAssumption, FS_CardinalityType
<1> QED BY <1>2, FreeShaped, NoClientTyped DEF Good, Waits, Drained

\* tcp_close(), of a connection the worker's callback stands on, or with no
\* callback under way.
LEMMA CloseKeeps ==
    ASSUME IInv, NEW c \in Conns, NEW k, Shaped(k), Bound(k), k.used, conn[c].used,
           k.pending = conn[c].pending, TcpClose(c, k), UNCHANGED task,
           at' = Idle, at.pc \in Busy => at.c = c
    PROVE  IInv'
<1>1. Idle \in Places /\ Idle.pc \notin Busy
  BY DEF Idle, Places, Busy
<1>2. client' = [client EXCEPT ![c] = NoClient]
  BY DEF TcpClose
<1>3. CASE k.pending > 0
  <2> DEFINE j == [k EXCEPT !.idle = FALSE, !.open = FALSE, !.closing = TRUE, !.mask = {}]
  <2>1. conn' = [conn EXCEPT ![c] = j] /\ UNCHANGED n_conns
    BY <1>3 DEF TcpClose
  <2>2. Good(c, j, NoClient, Idle) /\ j.pending = k.pending /\ j.used = k.used
    BY Zenon, <1>1, <1>3, ClosedGood
  <2> HIDE DEF j
  <2>3. Counts'
    BY Zenon, <2>1, <2>2, CountsKept
  <2> QED BY Zenon, <1>1, <1>2, <2>1, <2>2, <2>3, Touch DEF IInv
<1>4. CASE ~(k.pending > 0)
  <2>1. /\ conn' = [conn EXCEPT ![c] = Free]
        /\ n_conns' = IF n_conns > 0 THEN n_conns - 1 ELSE 0
    BY <1>4 DEF TcpClose
  <2>2. Holders(c)' = Holders(c) /\ \A d \in Conns : Holders(d)' = Holders(d)
    BY DEF Holders
  <2>3. Cardinality(Holders(c)) = 0
    BY <1>4 DEF IInv, Counts, Shaped, Shapes
  <2>4. Counts'
    BY Zenon, <2>1, <2>2, <2>3, CountsFreed
  <2> QED BY Zenon, <1>1, <1>2, <2>1, <2>4, FreeGood, Touch DEF IInv
<1> QED BY <1>3, <1>4

-----------------------------------------------------------------------------
(* The steps.                                                               *)

\* What is known of the connection a step is about, and of the callback.
LEMMA Known ==
    ASSUME IInv, NEW c \in Conns
    PROVE  /\ Shaped(conn[c]) /\ Lives(conn[c]) /\ Bound(conn[c])
           /\ Bytes(conn[c], client[c]) /\ client[c] \in Clients
           /\ Unsent(conn[c]) \in Nat
           /\ at = Idle => at.pc \notin Busy /\ Waits(conn[c]) /\ Drained(conn[c])
           /\ at.pc \in Busy /\ at.c = c =>
                /\ Stands(conn[c], at.pc) /\ conn[c].used
                /\ at \in [pc : Busy, c : Conns, read : BOOLEAN]
                /\ at.pc # "resume" => Waits(conn[c])
                /\ at.pc # "serve" => Drained(conn[c])
<1>1. Good(c, conn[c], client[c], at) /\ Unsent(conn[c]) \in Nat
  BY UnsentNat DEF IInv, Good
<1>2. at = Idle => at.pc \notin Busy
  BY DEF Idle, Busy
<1>3. at.pc \in Busy => at \in [pc : Busy, c : Conns, read : BOOLEAN]
  BY DEF IInv, Places, Idle, Busy
<1> QED BY <1>1, <1>2, <1>3 DEF Good, Stands, Lives

\* elpis_server_tcp_event(): a connection starts with nothing read or written.
LEMMA AcceptKeeps ==
    ASSUME IInv, NEW c \in Conns, Accept(c) PROVE IInv'
<1> DEFINE k == [Free EXCEPT !.used = TRUE, !.open = TRUE, !.mask = {"READ"}, !.idle = TRUE]
           x == [NoClient EXCEPT !.left = MaxQueries]
<1>1. /\ at = Idle /\ ~conn[c].used /\ n_conns < MAX_CONN
      /\ conn' = [conn EXCEPT ![c] = k] /\ n_conns' = n_conns + 1
      /\ client' = [client EXCEPT ![c] = x] /\ UNCHANGED <<task, at>>
  BY DEF Accept
<1>2. /\ Shaped(k) /\ Lives(k) /\ k.open /\ ~k.stalled /\ k.mask = {"READ"}
      /\ k.txlen = 0 /\ k.txsent = 0 /\ k.rxlen = 0 /\ k.rxwant = 0
      /\ k.pending = 0 /\ k.used
  <2>1. /\ k.open /\ ~k.stalled /\ k.mask = {"READ"} /\ ~k.closing /\ k.idle
        /\ k.txlen = 0 /\ k.txsent = 0 /\ k.rxlen = 0 /\ k.rxwant = 0
        /\ k.pending = 0 /\ k.used /\ k.txcap = 0
    BY DEF Free
  <2>2. k \in Shapes(0)
    BY Zenon DEF Free, Shapes
  <2> HIDE DEF k
  <2> QED BY <2>1, <2>2 DEF Shaped, Lives
<1>3. /\ x \in Clients /\ x.stream = <<>> /\ x.kernel = 0 /\ x.transit = 0
  <2>1. x.stream = <<>> /\ x.kernel = 0 /\ x.transit = 0
    BY DEF NoClient
  <2>2. NoClient \in Clients /\ MaxQueries \in Nat
    BY NoClientTyped, TcpServerAssumption
  <2>3. x \in Clients
    BY <2>2 DEF Clients
  <2> QED BY <2>1, <2>3
<1> HIDE DEF k, x
<1>4. Unsent(k) = 0
  BY <1>2 DEF Unsent
<1>5. Bound(k)
  <2>1. Cardinality(Tasks) \in Nat /\ TCP_TX_HIGH \in Nat /\ 0 \in Replies \cup {0}
    BY TcpServerAssumption, FS_CardinalityType
  <2>2. k.pending \in Nat /\ k.pending <= Cardinality(Tasks)
        /\ Unsent(k) \in Nat /\ Unsent(k) <= TCP_TX_HIGH + 0
    BY <1>2, <1>4, <2>1
  <2> QED BY <2>1, <2>2, BoundReached
<1>6. Bytes(k, x)
  <2>1. k.rxlen + x.kernel + x.transit = 0
    BY <1>2, <1>3
  <2> QED BY <1>2, <1>3, <2>1, EndsNone DEF Bytes
<1>7. Waits(k) /\ Drained(k)
  BY <1>2, <1>4 DEF Waits, Drained
<1>8. at'.pc \notin Busy
  BY <1>1 DEF Idle, Busy
<1>9. Good(c, k, x, at')
  BY <1>2, <1>3, <1>5, <1>6, <1>7, <1>8 DEF Good
<1>10. Counts'
  <2>1. Allocated' = Allocated \cup {c} /\ c \notin Allocated
    BY <1>1, <1>2 DEF Allocated, IInv
  <2>2. IsFiniteSet(Allocated') /\ Cardinality(Allocated') = Cardinality(Allocated) + 1
    BY <2>1, FS_AddElement DEF IInv, Counts
  <2>3. Cardinality(Allocated) \in Nat
    BY FS_CardinalityType DEF IInv, Counts
  <2>4. conn[c].pending = 0
    BY <1>1, Known DEF Lives
  <2>5. \A d \in Conns : conn'[d].pending = conn[d].pending /\ Holders(d)' = Holders(d)
    BY <1>1, <1>2, <2>4 DEF IInv, Holders
  <2> QED BY <1>1, <2>2, <2>3, <2>5, TcpServerAssumption DEF IInv, Counts
<1> QED BY Zenon, <1>1, <1>8, <1>9, <1>10, Touch DEF IInv

\* tcp_conn_event() begins.
LEMMA EventKeeps ==
    ASSUME IInv, NEW c \in Conns, Event(c) PROVE IInv'
<1>1. at = Idle /\ conn[c].open /\ UNCHANGED task /\ conn[c].used
  BY Known DEF Event, Lives
<1>2. CASE TcpClose(c, conn[c]) /\ UNCHANGED at
  BY <1>1, <1>2, Known, CloseKeeps
<1>3. CASE /\ \/ \E r \in BOOLEAN : at' = [pc |-> "write", c |-> c, read |-> r]
              \/ at' = Reading(c, conn[c], TRUE)
           /\ UNCHANGED <<conn, n_conns, client>>
  <2>1. /\ at' \in Places /\ (at'.pc \in Busy => at'.c = c)
        /\ at'.pc \notin {"resume", "serve"} /\ (at'.pc = "read" => ~conn[c].stalled)
    <3>1. CASE \E r \in BOOLEAN : at' = [pc |-> "write", c |-> c, read |-> r]
      BY <3>1 DEF Places, Busy
    <3>2. CASE at' = Reading(c, conn[c], TRUE)
      BY <3>2 DEF Reading, Places, Busy, Idle
    <3> QED BY Zenon, <1>3, <3>1, <3>2
  <2>2. Good(c, conn[c], client[c], at')
    BY Zenon, <1>1, <2>1, Known DEF Good, Stands
  <2>3. Become(c, conn[c]) /\ client' = [client EXCEPT ![c] = client[c]]
    BY <1>3 DEF IInv, Become
  <2> QED BY Zenon, <1>1, <2>1, <2>2, <2>3, Known, TouchInPlace
<1>4. PICK events : IF "HUP" \in events
                    THEN TcpClose(c, conn[c]) /\ UNCHANGED at
                    ELSE /\ at' = IF "WRITE" \in events
                                  THEN [pc |-> "write", c |-> c, read |-> "READ" \in events]
                                  ELSE Reading(c, conn[c], TRUE)
                         /\ UNCHANGED <<conn, n_conns, client>>
  BY Zenon DEF Event
<1>5. ("READ" \in events) \in BOOLEAN
  OBVIOUS
<1> QED BY Zenon, <1>2, <1>3, <1>4, <1>5

\* ... its write loop.
LEMMA WriteKeeps ==
    ASSUME IInv, NEW c \in Conns, Write(c) PROVE IInv'
<1> DEFINE k == conn[c]
           n == Least(Unsent(k), SNDBUF - client[c].sndbuf)
           sent == [k EXCEPT !.txsent = @ + n]
           empty == [k EXCEPT !.txsent = 0, !.txlen = 0]
           x == [client[c] EXCEPT !.sndbuf = @ + n]
<1>1. at.pc = "write" /\ at.c = c /\ UNCHANGED task /\ at.pc \in Busy /\ at.read \in BOOLEAN
  BY Known DEF Write, Busy
<1>2. /\ Shaped(k) /\ Lives(k) /\ Bound(k) /\ Bytes(k, client[c]) /\ client[c] \in Clients
      /\ Unsent(k) \in Nat /\ Waits(k) /\ Drained(k) /\ k.open /\ k.used
  BY <1>1, Known DEF Stands
<1>3. CASE TcpClose(c, k) /\ at' = Idle
  BY <1>1, <1>2, <1>3, CloseKeeps
<1>4. CASE ~(client[c].end = "rst" /\ Unsent(k) > 0)
  <2>1. client[c].sndbuf \in 0..SNDBUF /\ SNDBUF \in Nat
    BY <1>2, TcpServerAssumption DEF Clients
  <2>2. n \in Nat /\ n <= Unsent(k) /\ client[c].sndbuf + n \in 0..SNDBUF
    BY <1>2, <2>1 DEF Least
  <2>3. client' = [client EXCEPT ![c].sndbuf = @ + n]
    BY <1>4 DEF Write
  <2> HIDE DEF n
  <2>4. client' = [client EXCEPT ![c] = x]
    BY <2>3 DEF IInv
  <2>5. x \in Clients /\ \A j : Bytes(j, client[c]) => Bytes(j, x)
    BY Zenon, <1>2, <2>2 DEF Clients, Bytes
  <2>6. ASSUME NEW j, Become(c, j), Shaped(j), SameButMask(j, sent) \/ SameButMask(j, empty),
               at' \in Places, at'.pc \in Busy => at'.c = c, at'.pc \in {"idle", "read", "resume"},
               at'.pc = "read" => ~k.stalled, at'.pc = "resume" => k.stalled,
               at'.pc # "resume" => Waits(j), Unsent(j) <= Unsent(k)
        PROVE  IInv'
    <3>1. /\ j.open = k.open /\ j.closing = k.closing /\ j.pending = k.pending
          /\ j.rxlen = k.rxlen /\ j.rxwant = k.rxwant
          /\ j.stalled = k.stalled /\ j.idle = k.idle /\ j.used = k.used
      BY Zenon, <1>2, <2>6 DEF SameButMask, Shaped, Shapes
    <3>2. Lives(j) /\ Drained(j) /\ Bytes(j, client[c])
      BY <1>2, <3>1 DEF Lives, Drained, Bytes
    <3>3. Bound(j)
      BY <1>2, <2>6, <3>1, UnsentNat, BoundShrinks DEF Shaped, Shapes
    <3>4. x \in Clients /\ Bytes(j, x)
      BY <2>5, <3>2
    <3> HIDE DEF x
    <3>5. Stands(j, at'.pc)
      BY <1>2, <2>6, <3>1 DEF Stands
    <3>6. Good(c, j, x, at')
      BY <2>6, <3>2, <3>3, <3>4, <3>5 DEF Good, Busy
    <3> QED BY Zenon, <1>1, <2>4, <2>6, <3>1, <3>6, TouchInPlace DEF x
  <2>7. /\ Shaped(sent) /\ sent.txlen = k.txlen /\ sent.txsent = k.txsent + n
        /\ sent.open = k.open /\ sent.stalled = k.stalled /\ sent.mask = k.mask
    <3>1. k.txsent + n \in Nat /\ k.txsent + n <= k.txlen
      BY <1>2, <2>2 DEF Shaped, Shapes, Unsent
    <3> QED BY Zenon, <1>2, <3>1 DEF Shaped, Shapes
  <2>8. /\ Shaped(empty) /\ empty.txlen = 0 /\ empty.txsent = 0
        /\ empty.open = k.open /\ empty.stalled = k.stalled
    <3>1. /\ empty.txlen = 0 /\ empty.txsent = 0 /\ empty.txcap = k.txcap
          /\ empty.open = k.open /\ empty.stalled = k.stalled
      BY Zenon, <1>2 DEF Shaped, Shapes
    <3>2. empty \in Shapes(k.txcap)
      BY Zenon, <1>2 DEF Shaped, Shapes
    <3> HIDE DEF empty
    <3> QED BY <3>1, <3>2 DEF Shaped
  <2> HIDE DEF sent, empty, x
  <2>9. Unsent(sent) = Unsent(k) - n /\ Unsent(empty) = 0
    BY <1>2, <2>2, <2>7, <2>8 DEF Unsent, Shaped, Shapes
  <2>10. SameButMask(sent, sent) /\ SameButMask(empty, empty)
    BY DEF SameButMask
  <2>11. ASSUME NEW j, at' = Reading(c, j, at.read), j.stalled = k.stalled
         PROVE  /\ at' \in Places /\ (at'.pc \in Busy => at'.c = c)
                /\ at'.pc \in {"idle", "read"} /\ (at'.pc = "read" => ~k.stalled)
    BY <2>11 DEF Reading, Places, Busy, Idle
  <2>12. CASE n < Unsent(k) /\ Become(c, sent) /\ at' = Reading(c, k, at.read)
    <3>1. Waits(sent)
      BY <1>2, <2>2, <2>7, <2>9, <2>12 DEF Waits
    <3> QED BY <1>2, <2>2, <2>6, <2>7, <2>9, <2>10, <2>11, <2>12, <3>1
  <2>13. CASE k.stalled /\ Become(c, empty) /\ at' = [at EXCEPT !.pc = "resume"]
    <3>1. at' \in Places /\ at'.pc = "resume" /\ at'.c = c
      BY <1>1, <2>13, Known DEF Places, Busy
    <3> QED BY <1>2, <2>6, <2>8, <2>9, <2>10, <2>13, <3>1
  <2>14. CASE ~k.stalled /\ Become(c, TcpWant(empty)) /\ at' = Reading(c, empty, at.read)
    <3>1. /\ Shaped(TcpWant(empty)) /\ SameButMask(TcpWant(empty), empty)
          /\ Waits(TcpWant(empty)) /\ Unsent(TcpWant(empty)) = 0
      BY <2>8, <2>9, <2>14, WantsRight, SameKeeps
    <3> QED BY <1>2, <2>6, <2>8, <2>11, <2>14, <3>1
  <2> QED BY <1>4, <2>12, <2>13, <2>14 DEF Write, sent, empty, n
<1> QED BY <1>3, <1>4 DEF Write

\* A connection that has no whole query left has room to read into.
LEMMA RoomToRead ==
    ASSUME NEW k, Shaped(k), k.rxlen < k.rxwant + 1
    PROVE  RoomFor(k) \in Nat /\ RoomFor(k) > k.rxlen
BY TcpServerAssumption DEF Shaped, Shapes, RoomFor, Most

\* ... one turn of its read loop.
LEMMA ReadKeeps ==
    ASSUME IInv, NEW c \in Conns, Read(c) PROVE IInv'
<1> DEFINE k == conn[c]
           cap == RoomFor(k)
           n == Least(cap - k.rxlen, client[c].kernel)
<1>1. at.pc = "read" /\ at.c = c /\ UNCHANGED task /\ at.pc \in Busy
      /\ at \in [pc : Busy, c : Conns, read : BOOLEAN]
  BY Known DEF Read, Busy
<1>2. /\ Shaped(k) /\ Lives(k) /\ Bound(k) /\ Bytes(k, client[c]) /\ client[c] \in Clients
      /\ Unsent(k) \in Nat /\ Waits(k) /\ Drained(k) /\ k.open /\ k.used /\ ~k.stalled
  BY <1>1, Known DEF Stands
<1>3. cap \in Nat /\ cap > k.rxlen /\ k.rxlen \in Nat /\ k.idle
  BY <1>2, RoomToRead DEF Drained, Lives, Shaped, Shapes
<1>4. CASE TcpClose(c, k) /\ at' = Idle
  BY <1>1, <1>2, <1>4, CloseKeeps
<1>5. CASE /\ Become(c, [k EXCEPT !.rxcap = cap, !.idle = TRUE])
           /\ at' = Idle /\ UNCHANGED client
  <2> DEFINE j == [k EXCEPT !.rxcap = cap, !.idle = TRUE]
  <2>1. /\ j.open = k.open /\ j.closing = k.closing /\ j.pending = k.pending
        /\ j.rxlen = k.rxlen /\ j.rxwant = k.rxwant /\ j.mask = k.mask
        /\ j.stalled = k.stalled /\ j.idle = k.idle /\ j.used = k.used
        /\ j.txlen = k.txlen /\ j.txsent = k.txsent /\ j.txcap = k.txcap
    BY Zenon, <1>2, <1>3 DEF Shaped, Shapes
  <2>2. j \in Shapes(k.txcap)
    BY Zenon, <1>2, <1>3 DEF Shaped, Shapes
  <2> HIDE DEF j
  <2>3. Shaped(j) /\ Lives(j) /\ Drained(j) /\ Bytes(j, client[c]) /\ Unsent(j) = Unsent(k)
    BY Zenon, <1>2, <2>1, <2>2 DEF Shaped, Lives, Drained, Bytes, Unsent
  <2>4. Bound(j) /\ Waits(j)
    BY <1>2, <2>1, <2>3 DEF Bound, Waits
  <2>5. at' \in Places /\ at'.pc \notin Busy
    BY <1>5 DEF Places, Busy, Idle
  <2>6. Good(c, j, client[c], at')
    BY <1>2, <2>3, <2>4, <2>5 DEF Good
  <2>7. client' = [client EXCEPT ![c] = client[c]]
    BY <1>5 DEF IInv
  <2>8. Become(c, j)
    BY <1>5 DEF j
  <2> QED BY Zenon, <1>1, <2>1, <2>5, <2>6, <2>7, <2>8, TouchInPlace
<1>6. CASE /\ n > 0 /\ Become(c, [k EXCEPT !.rxcap = cap, !.rxlen = @ + n])
           /\ client' = [client EXCEPT ![c].kernel = @ - n]
           /\ at' = [at EXCEPT !.pc = "serve"]
  <2> DEFINE j == [k EXCEPT !.rxcap = cap, !.rxlen = @ + n]
             x == [client[c] EXCEPT !.kernel = @ - n]
  <2>1. n \in Nat /\ n <= client[c].kernel /\ client[c].kernel \in Nat
    <3>1. client[c].kernel \in Nat
      BY <1>2, ClientTyped
    <3> HIDE DEF cap, k
    <3> QED BY <1>3, <3>1 DEF Least
  <2> HIDE DEF n
  <2>2. client' = [client EXCEPT ![c] = x]
    BY <1>6 DEF IInv
  <2>3. /\ x \in Clients /\ x.kernel = client[c].kernel - n
        /\ x.stream = client[c].stream /\ x.transit = client[c].transit
    <3>1. client[c].kernel - n \in Nat
      BY <2>1
    <3> QED BY <1>2, <3>1 DEF Clients
  <2>4. /\ j.open = k.open /\ j.closing = k.closing /\ j.pending = k.pending
        /\ j.rxlen = k.rxlen + n /\ j.rxwant = k.rxwant /\ j.mask = k.mask
        /\ j.stalled = k.stalled /\ j.idle = k.idle /\ j.used = k.used
        /\ j.txlen = k.txlen /\ j.txsent = k.txsent /\ j.txcap = k.txcap
    BY Zenon, <1>2, <1>3 DEF Shaped, Shapes
  <2>5. j \in Shapes(k.txcap)
    <3>1. k.rxlen + n \in Nat
      BY <1>3, <2>1
    <3> QED BY Zenon, <1>2, <1>3, <3>1 DEF Shaped, Shapes
  <2>6. Become(c, j)
    BY <1>6
  <2> HIDE DEF j, x
  <2>7. Shaped(j) /\ Lives(j) /\ Unsent(j) = Unsent(k)
    BY <1>2, <2>4, <2>5 DEF Shaped, Lives, Unsent
  <2>8. Bound(j) /\ Waits(j)
    BY <1>2, <2>4, <2>7 DEF Bound, Waits
  <2>9. Bytes(j, x)
    <3>1. j.rxlen + x.kernel + x.transit = k.rxlen + client[c].kernel + client[c].transit
      BY <1>2, <1>3, <2>1, <2>3, <2>4, ClientTyped
    <3> QED BY Zenon, <1>2, <2>3, <2>4, <3>1 DEF Bytes
  <2>10. at' \in Places /\ at'.pc = "serve" /\ at'.c = c
    BY <1>1, <1>6 DEF Places, Busy
  <2>11. Good(c, j, x, at')
    BY <1>2, <2>3, <2>4, <2>7, <2>8, <2>9, <2>10 DEF Good, Stands, Busy
  <2> QED BY Zenon, <1>1, <2>2, <2>4, <2>6, <2>10, <2>11, TouchInPlace
<1> QED BY <1>4, <1>5, <1>6 DEF Read

\* tcp_serve() returns with a connection that wants what it should.
LEMMA ServedKeeps ==
    ASSUME IInv, NEW c \in Conns, Serving(c), NEW j, Shaped(j), Lives(j), Bound(j),
           Bytes(j, client[c]), j.open, j.stalled => Unsent(j) > 0, Waits(j), Drained(j),
           j.pending = conn[c].pending, j.used = conn[c].used,
           Served(c, j), UNCHANGED <<task, client>>
    PROVE  IInv'
<1>1. at.pc \in {"serve", "resume"} /\ at.c = c /\ at.pc \in Busy
      /\ at \in [pc : Busy, c : Conns, read : BOOLEAN] /\ client[c] \in Clients
  BY Known DEF Serving, Busy
<1>2. client' = [client EXCEPT ![c] = client[c]] /\ UNCHANGED task
  BY DEF IInv
<1>3. ASSUME NEW k, Become(c, k), SameButMask(k, j), Shaped(k), Waits(k),
             at' \in Places, at'.pc \in {"idle", "read"}, at'.pc = "read" => at'.c = c /\ ~j.stalled
      PROVE  IInv'
  <2>1. Lives(k) /\ Bound(k) /\ Drained(k) /\ Bytes(k, client[c])
    BY Zenon, <1>3, SameKeeps
  <2>2. k.open = j.open /\ k.stalled = j.stalled /\ k.pending = j.pending /\ k.used = j.used
    BY <1>3 DEF SameButMask
  <2>3. Good(c, k, client[c], at')
    BY Zenon, <1>1, <1>3, <2>1, <2>2 DEF Good, Stands, Busy
  <2>4. at'.pc \in Busy => at'.c = c
    BY <1>3 DEF Busy
  <2> QED BY Zenon, <1>1, <1>2, <1>3, <2>2, <2>3, <2>4, TouchInPlace
<1>4. CASE Become(c, TcpWant(j)) /\ at' = Reading(c, j, at.read)
  <2>1. at' \in Places /\ at'.pc \in {"idle", "read"} /\ (at'.pc = "read" => at'.c = c /\ ~j.stalled)
    BY <1>4 DEF Reading, Places, Busy, Idle
  <2> QED BY <1>3, <1>4, <2>1, WantsRight
<1>5. CASE Become(c, [j EXCEPT !.idle = TRUE]) /\ at' = Idle
  <2>1. j.idle = TRUE
    BY DEF Lives, Shaped, Shapes
  <2>2. [j EXCEPT !.idle = TRUE] = j
    BY <2>1 DEF Shaped, Shapes
  <2>3. at' \in Places /\ at'.pc = "idle"
    BY <1>5 DEF Places, Idle
  <2> QED BY Zenon, <1>3, <1>5, <2>2, <2>3 DEF SameButMask
<1>6. CASE ~j.stalled /\ Become(c, j) /\ at' = [at EXCEPT !.pc = "read"]
  <2>1. at' \in Places /\ at'.pc = "read" /\ at'.c = c
    BY <1>1, <1>6 DEF Places, Busy
  <2> QED BY Zenon, <1>3, <1>6, <2>1 DEF SameButMask
<1> QED BY <1>4, <1>5, <1>6 DEF Served

\* What is known while tcp_serve() runs.
LEMMA KnownServing ==
    ASSUME IInv, NEW c \in Conns, Serving(c)
    PROVE  /\ at.pc \in {"serve", "resume"} /\ at.c = c /\ at.pc \in Busy /\ at \in Places
           /\ conn[c].open /\ conn[c].used
           /\ at.pc = "serve" => ~conn[c].stalled /\ Waits(conn[c])
           /\ at.pc = "resume" => conn[c].stalled
BY Known DEF Serving, Busy, Stands, IInv

\* Holding a connection back, or no longer, changes its mark and its mask.
LEMMA SetStalled ==
    ASSUME NEW k, Shaped(k), Lives(k), Bound(k), NEW b \in BOOLEAN,
           b => Unsent(k) > 0, b \/ k.rxlen < k.rxwant + 1
    PROVE  LET j == TcpWant([k EXCEPT !.stalled = b])
           IN  /\ Shaped(j) /\ Lives(j) /\ Bound(j) /\ Waits(j) /\ Drained(j)
               /\ j.open = k.open /\ j.pending = k.pending /\ j.used = k.used
               /\ j.stalled = b /\ Unsent(j) = Unsent(k)
               /\ \A x : Bytes(k, x) => Bytes(j, x)
<1> DEFINE m == [k EXCEPT !.stalled = b]
<1>1. /\ m.open = k.open /\ m.closing = k.closing /\ m.pending = k.pending
      /\ m.rxlen = k.rxlen /\ m.rxwant = k.rxwant /\ m.mask = k.mask
      /\ m.stalled = b /\ m.idle = k.idle /\ m.used = k.used
      /\ m.txlen = k.txlen /\ m.txsent = k.txsent /\ m.txcap = k.txcap
  BY DEF Shaped, Shapes
<1>2. m \in Shapes(k.txcap)
  BY DEF Shaped, Shapes
<1> HIDE DEF m
<1>3. /\ Shaped(m) /\ Lives(m) /\ Drained(m) /\ Unsent(m) = Unsent(k)
      /\ \A x : Bytes(k, x) => Bytes(m, x)
  BY <1>1, <1>2 DEF Shaped, Lives, Drained, Unsent, Bytes
<1>4. Bound(m)
  BY <1>1, <1>3 DEF Bound
<1>5. Shaped(TcpWant(m)) /\ SameButMask(TcpWant(m), m) /\ Waits(TcpWant(m))
  BY <1>1, <1>3, WantsRight
<1>6. /\ Lives(TcpWant(m)) /\ Bound(TcpWant(m)) /\ Drained(TcpWant(m))
      /\ Unsent(TcpWant(m)) = Unsent(k) /\ \A x : Bytes(k, x) => Bytes(TcpWant(m), x)
  BY <1>3, <1>4, <1>5, SameKeeps
<1> QED BY <1>1, <1>5, <1>6 DEF SameButMask, m

\* tcp_serve() holds the connection back.
LEMMA StallKeeps ==
    ASSUME IInv, NEW c \in Conns, Stall(c) PROVE IInv'
<1> DEFINE j == TcpWant([conn[c] EXCEPT !.stalled = TRUE])
<1>1. Serving(c) /\ Unsent(conn[c]) > 0 /\ Served(c, j) /\ UNCHANGED <<task, client>>
  BY Known, TcpServerAssumption DEF Stall, TooFarBehind
<1>2. /\ Shaped(j) /\ Lives(j) /\ Bound(j) /\ Waits(j) /\ Drained(j)
      /\ j.open = conn[c].open /\ j.pending = conn[c].pending /\ j.used = conn[c].used
      /\ Unsent(j) = Unsent(conn[c]) /\ Bytes(j, client[c])
  BY Zenon, <1>1, Known, SetStalled
<1> HIDE DEF j
<1> QED BY <1>1, <1>2, KnownServing, ServedKeeps

\* tcp_serve() has served all there was.
LEMMA NoMoreKeeps ==
    ASSUME IInv, NEW c \in Conns, NoMore(c) PROVE IInv'
<1> DEFINE k == conn[c]
           j == IF k.stalled THEN TcpWant([k EXCEPT !.stalled = FALSE]) ELSE k
<1>1. /\ Serving(c) /\ Served(c, j) /\ UNCHANGED <<task, client>> /\ k.rxlen < k.rxwant + 1
  BY DEF NoMore
<1>2. /\ Shaped(j) /\ Lives(j) /\ Bound(j) /\ Waits(j) /\ Drained(j) /\ ~j.stalled
      /\ j.open = k.open /\ j.pending = k.pending /\ j.used = k.used /\ Bytes(j, client[c])
  <2>1. CASE k.stalled
    BY Zenon, <1>1, <2>1, Known, SetStalled
  <2>2. CASE ~k.stalled
    BY <1>1, <2>2, Known, KnownServing DEF Drained
  <2> QED BY <2>1, <2>2
<1> HIDE DEF j
<1> QED BY Zenon, <1>1, <1>2, KnownServing, ServedKeeps

\* While bytes are in the buffer and no length has been read, there is a query
\* at the front of what the client has sent.
LEMMA QueryInFront ==
    ASSUME IInv, NEW c \in Conns, conn[c].open, conn[c].rxlen >= 1
    PROVE  client[c].stream # <<>>
<1>1. /\ client[c].kernel \in Nat /\ client[c].transit \in Nat /\ conn[c].rxlen \in Nat
  BY Known, ClientTyped DEF Shaped, Shapes
<1>2. PICK f : Ends(client[c].stream, conn[c].rxlen + client[c].kernel + client[c].transit, f)
  BY Known DEF Bytes
<1> QED BY <1>1, <1>2, EndsEmpty

\* The next query's length is read.
LEMMA PrefixKeeps ==
    ASSUME IInv, NEW c \in Conns, Prefix(c) PROVE IInv'
<1> DEFINE k == conn[c]
           body == Head(client[c].stream)
           j == [k EXCEPT !.rxwant = body]
<1>1. Serving(c) /\ k.rxwant = 0 /\ k.rxlen >= 1 /\ UNCHANGED task
  BY DEF Prefix
<1>2. client[c].stream # <<>> /\ client[c].stream \in Seq(Bodies)
  BY <1>1, Known, KnownServing, QueryInFront, ClientTyped
<1>3. body \in Nat
  <2>1. body \in Bodies
    BY <1>2
  <2>2. Bodies \subseteq Nat
    BY TcpServerAssumption
  <2> QED BY <2>1, <2>2, Zenon
<1>4. CASE TcpClose(c, k) /\ at' = Idle
  BY <1>1, <1>4, Known, KnownServing, CloseKeeps
<1>5. CASE Become(c, j) /\ UNCHANGED <<at, client>>
  <2>1. /\ j.open = k.open /\ j.closing = k.closing /\ j.pending = k.pending
        /\ j.rxlen = k.rxlen /\ j.rxwant = body /\ j.mask = k.mask
        /\ j.stalled = k.stalled /\ j.idle = k.idle /\ j.used = k.used
        /\ j.txlen = k.txlen /\ j.txsent = k.txsent /\ j.txcap = k.txcap
    BY Known DEF Shaped, Shapes
  <2>2. j \in Shapes(k.txcap) /\ k.txsent <= k.txlen
    BY <1>3, Known DEF Shaped, Shapes
  <2> HIDE DEF j
  <2>3. Shaped(j) /\ Lives(j) /\ Unsent(j) = Unsent(k) /\ Bytes(j, client[c])
    BY <1>2, <2>1, <2>2, Known DEF Shaped, Lives, Unsent, Bytes
  <2>4. Bound(j) /\ (Waits(k) => Waits(j))
    BY <2>1, <2>3, Known DEF Bound, Waits
  <2>5. Good(c, j, client[c], at')
    BY Zenon, <1>1, <1>5, <2>1, <2>3, <2>4, Known, KnownServing DEF Good, Stands, Drained, Busy
  <2>6. client' = [client EXCEPT ![c] = client[c]]
    BY <1>5 DEF IInv
  <2> QED BY Zenon, <1>1, <1>5, <2>1, <2>5, <2>6, KnownServing, TouchInPlace
<1> QED BY <1>4, <1>5 DEF Prefix

\* A query that was taken leaves the buffer and the stream.
LEMMA TakeQuery ==
    ASSUME IInv, NEW c \in Conns, Serving(c), conn[c].rxwant # 0,
           conn[c].rxlen >= conn[c].rxwant + 1
    PROVE  LET k == [conn[c] EXCEPT !.rxlen = @ - (conn[c].rxwant + 1), !.rxwant = 0]
               x == [client[c] EXCEPT !.stream = Tail(@)]
           IN  /\ Shaped(k) /\ Lives(k) /\ x \in Clients /\ Bytes(k, x)
               /\ k.open = conn[c].open /\ k.closing = conn[c].closing
               /\ k.pending = conn[c].pending /\ k.used = conn[c].used
               /\ k.stalled = conn[c].stalled /\ k.txcap = conn[c].txcap
               /\ Unsent(k) = Unsent(conn[c]) /\ (Waits(conn[c]) => Waits(k))
<1> DEFINE i == conn[c]
           y == client[c]
           k == [i EXCEPT !.rxlen = @ - (i.rxwant + 1), !.rxwant = 0]
           x == [y EXCEPT !.stream = Tail(@)]
<1>1. /\ Shaped(i) /\ Lives(i) /\ y \in Clients /\ Bytes(i, y) /\ i.open
      /\ i.rxlen \in Nat /\ i.rxwant \in Nat \ {0}
  BY Known, KnownServing DEF Shaped, Shapes
<1>2. /\ k.open = i.open /\ k.closing = i.closing /\ k.pending = i.pending
      /\ k.rxlen = i.rxlen - (i.rxwant + 1) /\ k.rxwant = 0 /\ k.mask = i.mask
      /\ k.stalled = i.stalled /\ k.idle = i.idle /\ k.used = i.used
      /\ k.txlen = i.txlen /\ k.txsent = i.txsent /\ k.txcap = i.txcap
  BY Zenon, <1>1 DEF Shaped, Shapes
<1>3. k \in Shapes(i.txcap)
  <2>1. i.rxlen - (i.rxwant + 1) \in Nat
    BY <1>1
  <2> QED BY Zenon, <1>1, <2>1 DEF Shaped, Shapes
<1>4. y.stream # <<>> /\ i.rxwant = Head(y.stream) /\ y.stream \in Seq(Bodies)
      /\ y.kernel \in Nat /\ y.transit \in Nat
  BY <1>1, ClientTyped DEF Bytes
<1>5. Tail(y.stream) \in Seq(Bodies)
  BY <1>4
<1>6. /\ x \in Clients /\ x.stream = Tail(y.stream)
      /\ x.kernel = y.kernel /\ x.transit = y.transit
  BY Zenon, <1>1, <1>5 DEF Clients
<1> HIDE DEF k, x
<1>7. Shaped(k) /\ Lives(k) /\ Unsent(k) = Unsent(i)
  BY <1>1, <1>2, <1>3 DEF Shaped, Lives, Unsent
<1>8. Bytes(k, x)
  <2> DEFINE n == i.rxlen + y.kernel + y.transit
  <2>1. PICK f : Ends(y.stream, n, f)
    BY <1>1 DEF Bytes
  <2>2. n \in Nat /\ k.rxlen + x.kernel + x.transit = n - (1 + Head(y.stream))
    <3>1. /\ k.rxlen = i.rxlen - (i.rxwant + 1) /\ x.kernel = y.kernel
          /\ x.transit = y.transit /\ i.rxwant = Head(y.stream)
          /\ i.rxlen \in Nat /\ i.rxwant \in Nat /\ y.kernel \in Nat /\ y.transit \in Nat
      BY Zenon, <1>1, <1>2, <1>4, <1>6
    <3> HIDE DEF i, y
    <3>2. n \in Nat /\ k.rxlen + x.kernel + x.transit = n - (1 + i.rxwant)
      BY <3>1
    <3> QED BY <3>1, <3>2
  <2> HIDE DEF n
  <2>3. \E g : Ends(x.stream, k.rxlen + x.kernel + x.transit, g)
    BY <1>4, <1>6, <2>1, <2>2, EndsTail
  <2> QED BY <1>2, <2>3 DEF Bytes
<1>9. Waits(i) => Waits(k)
  BY <1>2, <1>7 DEF Waits
<1> QED BY <1>2, <1>6, <1>7, <1>8, <1>9 DEF k, x

\* handle_query(): dropped, answered at once, or a resolution starts.
LEMMA QueryKeeps ==
    ASSUME "none" \notin Conns, IInv, NEW c \in Conns, Query(c) PROVE IInv'
<1> DEFINE k == [conn[c] EXCEPT !.rxlen = @ - (conn[c].rxwant + 1), !.rxwant = 0]
           x == [client[c] EXCEPT !.stream = Tail(@)]
<1>1. /\ Serving(c) /\ ~TooFarBehind(conn[c]) /\ conn[c].rxwant # 0
      /\ conn[c].rxlen >= conn[c].rxwant + 1 /\ HandleQuery(c, k)
      /\ client' = [client EXCEPT ![c].stream = Tail(@)] /\ UNCHANGED at
  BY DEF Query
<1>2. client' = [client EXCEPT ![c] = x]
  BY <1>1 DEF IInv
<1>3. /\ Shaped(k) /\ Lives(k) /\ x \in Clients /\ Bytes(k, x)
      /\ k.open = conn[c].open /\ k.closing = conn[c].closing
      /\ k.pending = conn[c].pending /\ k.used = conn[c].used
      /\ k.stalled = conn[c].stalled /\ k.txcap = conn[c].txcap
      /\ Unsent(k) = Unsent(conn[c]) /\ (Waits(conn[c]) => Waits(k))
  BY Zenon, <1>1, TakeQuery
<1>4. /\ at.pc \in {"serve", "resume"} /\ at.c = c /\ at.pc \in Busy /\ at' \in Places
      /\ at' = at /\ k.open /\ k.used /\ (at.pc = "serve" => ~k.stalled /\ Waits(k))
      /\ (at.pc = "resume" => k.stalled)
  BY <1>1, <1>3, KnownServing
<1> HIDE DEF k, x
<1>5. /\ Unsent(k) \in Nat /\ Unsent(k) <= TCP_TX_HIGH /\ TCP_TX_HIGH \in Nat
      /\ Cardinality(Tasks) \in Nat /\ k.pending \in Nat /\ k.pending <= Cardinality(Tasks)
  <2>1. Cardinality(Tasks) \in Nat /\ TCP_TX_HIGH \in Nat
    BY TcpServerAssumption, FS_CardinalityType
  <2>2. k.pending = Cardinality(Holders(c))
    BY <1>3 DEF IInv, Counts
  <2> QED BY <1>1, <1>3, <2>1, <2>2, HoldersFinite, UnsentNat DEF TooFarBehind
<1>6. ASSUME NEW j, Shaped(j), Lives(j), Bound(j), Bytes(j, x), j.open = k.open,
             j.stalled = k.stalled, Waits(k) => Waits(j)
      PROVE  Good(c, j, x, at')
  BY <1>3, <1>4, <1>6 DEF Good, Stands, Drained
<1>7. CASE DropQuery(c, k)
  <2>1. 0 \in Replies \cup {0} /\ Unsent(k) <= TCP_TX_HIGH + 0
    BY <1>5
  <2>2. Bound(k)
    BY <1>5, <2>1, BoundReached
  <2> QED BY Zenon, <1>2, <1>3, <1>4, <1>6, <1>7, <2>2, TouchInPlace DEF DropQuery
<1>8. CASE AnswerNow(c, k)
  <2>1. PICK r \in Replies : Become(c, TcpQueue(k, r)) /\ UNCHANGED task
    BY <1>8 DEF AnswerNow
  <2> DEFINE j == TcpQueue(k, r)
  <2>2. /\ Shaped(j) /\ Lives(j) /\ Bytes(j, x) /\ j.open = k.open
        /\ j.stalled = k.stalled /\ j.pending = k.pending /\ j.used = k.used
        /\ Unsent(j) \in Nat /\ Unsent(j) <= Unsent(k) + r /\ (Waits(k) => Waits(j))
    BY <1>3, QueueKeeps
  <2> HIDE DEF j
  <2>3. r \in Nat
    BY TcpServerAssumption
  <2>4. Bound(j)
    BY <1>5, <2>2, <2>3, BoundReached
  <2>5. Good(c, j, x, at')
    BY <1>6, <2>2, <2>4
  <2>6. Become(c, j)
    BY <2>1 DEF j
  <2> QED BY Zenon, <1>2, <1>3, <1>4, <2>1, <2>2, <2>5, <2>6, TouchInPlace
<1>9. CASE StartTask(c, k)
  <2> DEFINE j == [k EXCEPT !.pending = @ + 1]
  <2>1. PICK t \in Tasks : /\ task[t] = "none" /\ task' = [task EXCEPT ![t] = c]
                           /\ Become(c, j)
    BY Zenon, <1>9 DEF StartTask
  <2>2. /\ j.open = k.open /\ j.closing = k.closing /\ j.pending = k.pending + 1
        /\ j.rxlen = k.rxlen /\ j.rxwant = k.rxwant /\ j.mask = k.mask
        /\ j.stalled = k.stalled /\ j.idle = k.idle /\ j.used = k.used
        /\ j.txlen = k.txlen /\ j.txsent = k.txsent /\ j.txcap = k.txcap
        /\ j \in Shapes(k.txcap)
    BY <1>3 DEF Shaped, Shapes
  <2>3. conn' = [conn EXCEPT ![c] = j] /\ UNCHANGED n_conns
    BY <2>1 DEF Become
  <2> HIDE DEF j
  <2>4. /\ Shaped(j) /\ Lives(j) /\ Bytes(j, x) /\ Unsent(j) = Unsent(k)
        /\ (Waits(k) => Waits(j))
    BY Zenon, <1>3, <1>4, <1>5, <2>2 DEF Shaped, Lives, Bytes, Unsent, Waits
  <2>5. /\ Holders(c)' = Holders(c) \cup {t} /\ t \notin Holders(c)
        /\ \A d \in Conns \ {c} : Holders(d)' = Holders(d)
    BY <2>1 DEF IInv, Holders
  <2>6. /\ Cardinality(Holders(c)') = Cardinality(Holders(c)) + 1
        /\ Cardinality(Holders(c)') <= Cardinality(Tasks)
    <3>1. Cardinality(Holders(c)') = Cardinality(Holders(c)) + 1
      BY Zenon, <2>5, HoldersFinite, FS_AddElement
    <3>2. Holders(c)' \in SUBSET Tasks
      BY DEF Holders
    <3> QED BY <3>1, <3>2, TcpServerAssumption, FS_Subset
  <2>7. j.pending = Cardinality(Holders(c)')
    BY <1>3, <2>2, <2>6 DEF IInv, Counts
  <2>8. Bound(j)
    <3>1. /\ j.pending \in Nat /\ j.pending <= Cardinality(Tasks)
          /\ 0 \in Replies \cup {0} /\ Unsent(j) <= TCP_TX_HIGH + 0 /\ Unsent(j) \in Nat
      BY <1>5, <2>2, <2>4, <2>6, <2>7
    <3> QED BY <3>1, BoundReached
  <2>9. Counts'
    <3>1. \A d \in Conns : conn'[d].pending = Cardinality(Holders(d)')
      BY Zenon, <2>3, <2>5, <2>7 DEF IInv, Counts
    <3>2. Allocated' = Allocated
      BY <1>3, <2>2, <2>3 DEF IInv, Allocated
    <3> QED BY <2>3, <3>1, <3>2 DEF IInv, Counts
  <2>10. task' \in [Tasks -> Conns \cup {"none"}]
    BY <2>1 DEF IInv
  <2>11. Good(c, j, x, at')
    BY <1>6, <2>2, <2>4, <2>8
  <2> QED BY Zenon, <1>2, <1>4, <2>3, <2>9, <2>10, <2>11, Touch
<1> QED BY <1>1, <1>7, <1>8, <1>9 DEF HandleQuery

\* elpis_task_respond(): the reply is queued, the pointer is gone, and with the
\* last pointer to it a closing connection.
LEMMA RespondKeeps ==
    ASSUME "none" \notin Conns, IInv, NEW t \in Tasks, Respond(t) PROVE IInv'
<1>0. PICK c \in Conns : c = task[t]
  BY DEF Respond, IInv
<1> DEFINE k == conn[c]
<1>1. /\ at = Idle /\ c \in Conns /\ c # "none" /\ task' = [task EXCEPT ![t] = "none"]
      /\ UNCHANGED at
  BY DEF Respond
<1>2. /\ Shaped(k) /\ Lives(k) /\ Bound(k) /\ Bytes(k, client[c]) /\ client[c] \in Clients
      /\ Unsent(k) \in Nat /\ Waits(k) /\ Drained(k) /\ at.pc \notin Busy
  BY <1>1, Known
<1>3. PICK r \in Replies : TcpResolved(c, TcpQueue(k, r))
  BY <1>0 DEF Respond
<1> DEFINE q == TcpQueue(k, r)
           j == [q EXCEPT !.pending = IF @ > 0 THEN @ - 1 ELSE 0]
<1>4. /\ Holders(c)' = Holders(c) \ {t} /\ t \in Holders(c)
      /\ \A d \in Conns \ {c} : Holders(d)' = Holders(d)
  BY <1>0, <1>1 DEF IInv, Holders
<1>5. /\ Cardinality(Holders(c)') = Cardinality(Holders(c)) - 1
      /\ k.pending = Cardinality(Holders(c)) /\ k.pending \in Nat \ {0}
  <2>1. IsFiniteSet(Holders(c)) /\ Cardinality(Holders(c)) \in Nat
    BY HoldersFinite
  <2>2. Cardinality(Holders(c)) # 0
    BY <1>4, <2>1, FS_EmptySet
  <2>3. Cardinality(Holders(c) \ {t}) = Cardinality(Holders(c)) - 1
    BY Zenon, <1>4, <2>1, FS_RemoveElement
  <2>4. k.pending = Cardinality(Holders(c))
    BY <1>1 DEF IInv, Counts
  <2> QED BY <1>4, <2>1, <2>2, <2>3, <2>4
<1>6. /\ Shaped(q) /\ Lives(q) /\ Bytes(q, client[c]) /\ Waits(q) /\ Drained(q)
      /\ q.open = k.open /\ q.closing = k.closing /\ q.pending = k.pending
      /\ q.used = k.used /\ q.stalled = k.stalled
      /\ Unsent(q) \in Nat /\ Unsent(q) <= Unsent(k) + r
  BY <1>2, QueueKeeps
<1>7. TcpResolved(c, q)
  BY <1>3
<1> HIDE DEF q
<1>8. /\ j.open = q.open /\ j.closing = q.closing /\ j.pending = k.pending - 1
      /\ j.rxlen = q.rxlen /\ j.rxwant = q.rxwant /\ j.mask = q.mask
      /\ j.stalled = q.stalled /\ j.idle = q.idle /\ j.used = q.used
      /\ j.txlen = q.txlen /\ j.txsent = q.txsent /\ j.txcap = q.txcap
      /\ j \in Shapes(q.txcap)
  BY <1>5, <1>6 DEF Shaped, Shapes
<1>9. IF j.closing /\ j.pending = 0 THEN TcpClose(c, j)
      ELSE Become(c, j) /\ UNCHANGED client
  BY <1>7 DEF TcpResolved
<1> HIDE DEF j
<1>10. /\ task' \in [Tasks -> Conns \cup {"none"}] /\ at' \in Places /\ at'.pc \notin Busy
       /\ j.pending = Cardinality(Holders(c)') /\ k.used
  BY Zenon, <1>1, <1>2, <1>5, <1>8 DEF IInv, Lives
<1>11. CASE j.closing /\ j.pending = 0
  <2>1. /\ conn' = [conn EXCEPT ![c] = Free] /\ client' = [client EXCEPT ![c] = NoClient]
        /\ n_conns' = IF n_conns > 0 THEN n_conns - 1 ELSE 0
    BY <1>9, <1>11 DEF TcpClose
  <2>2. Cardinality(Holders(c))' = 0
    BY <1>10, <1>11
  <2>3. Counts'
    BY Zenon, <1>1, <1>4, <1>10, <2>1, <2>2, CountsFreed
  <2>4. Good(c, Free, NoClient, at')
    BY <1>10, FreeGood
  <2> QED BY Zenon, <1>1, <1>2, <1>10, <2>1, <2>3, <2>4, Touch
<1>12. CASE ~(j.closing /\ j.pending = 0)
  <2>1. conn' = [conn EXCEPT ![c] = j] /\ UNCHANGED <<n_conns, client>>
    BY <1>9, <1>12 DEF Become
  <2>2. /\ Shaped(j) /\ Lives(j) /\ Bytes(j, client[c]) /\ Waits(j) /\ Drained(j)
        /\ Unsent(j) = Unsent(q)
    <3>1. Shaped(j) /\ Unsent(j) = Unsent(q)
      BY <1>6, <1>8 DEF Shaped, Unsent
    <3>2. Bytes(j, client[c]) /\ Drained(j)
      BY Zenon, <1>6, <1>8 DEF Bytes, Drained
    <3>3. Waits(j)
      BY Zenon, <1>6, <1>8, <3>1 DEF Waits
    <3>4. j.pending # 0 => j.pending > 0
      BY <1>5, <1>8
    <3>5. j.used
      BY Zenon, <1>6, <1>8, <1>10
    <3>6. Lives(j)
      BY Zenon, <1>6, <1>8, <1>12, <3>4, <3>5 DEF Lives
    <3> QED BY <3>1, <3>2, <3>3, <3>6
  <2>3. Bound(j)
    BY Zenon, <1>2, <1>5, <1>6, <1>8, <2>2, BoundResolved
  <2>4. Good(c, j, client[c], at')
    BY <1>2, <1>10, <2>2, <2>3 DEF Good
  <2>5. Counts'
    <3>1. \A d \in Conns : conn'[d].pending = Cardinality(Holders(d)')
      BY Zenon, <1>1, <1>4, <1>10, <2>1 DEF IInv, Counts
    <3>2. Allocated' = Allocated
      BY <1>1, <1>6, <1>8, <2>1 DEF IInv, Allocated
    <3> QED BY <2>1, <3>1, <3>2 DEF IInv, Counts
  <2>6. client' = [client EXCEPT ![c] = client[c]]
    BY <2>1 DEF IInv
  <2> QED BY Zenon, <1>1, <1>2, <1>10, <2>1, <2>4, <2>5, <2>6, Touch
<1> QED BY <1>11, <1>12

\* tcp_idle_timeout() closes a connection that owes nothing, or leaves it.
LEMMA IdleTimeoutKeeps ==
    ASSUME IInv, NEW c \in Conns, IdleTimeout(c) PROVE IInv'
<1>1. at = Idle /\ conn[c].idle /\ UNCHANGED <<task, at>>
  BY DEF IdleTimeout
<1>2. CASE UNCHANGED <<conn, n_conns, client>>
  <2>1. UNCHANGED vars
    BY <1>1, <1>2 DEF vars
  <2> QED BY <2>1 DEF vars, IInv, Counts, Holders, Allocated
<1>3. CASE TcpClose(c, conn[c])
  BY Zenon, <1>1, <1>3, Known, CloseKeeps DEF Lives
<1> QED BY <1>2, <1>3 DEF IdleTimeout

\* The worker is gone, and everything with it.
LEMMA FiniKeeps ==
    ASSUME "none" \notin Conns, IInv, Fini PROVE IInv'
<1>1. /\ task' = [t \in Tasks |-> "none"] /\ conn' = [c \in Conns |-> Free] /\ n_conns' = 0
      /\ client' = [c \in Conns |-> NoClient] /\ at' = [Idle EXCEPT !.pc = "gone"]
  BY DEF Fini
<1>2. at' \in Places /\ at'.pc \notin Busy
  BY <1>1 DEF Places, Idle, Busy
<1>3. \A c \in Conns : Good(c, conn'[c], client'[c], at')
  BY Zenon, <1>1, <1>2, FreeGood
<1>4. Allocated' = {} /\ \A c \in Conns : Holders(c)' = {} /\ conn'[c].pending = 0
  BY <1>1, FreeShaped DEF Allocated, Holders
<1>5. Counts'
  BY <1>1, <1>4, FS_EmptySet, TcpServerAssumption DEF Counts
<1> QED BY <1>1, <1>2, <1>3, <1>5, NoClientTyped DEF IInv

\* A client sends, its bytes arrive, it takes a reply, or it leaves.
LEMMA ClientKeeps ==
    ASSUME IInv, NEW c \in Conns, Ask(c) \/ Arrive(c) \/ TakeReply(c) \/ Leave(c)
    PROVE  IInv'
<1> DEFINE y == client[c]
           n == conn[c].rxlen + y.kernel + y.transit
<1>1. /\ y \in Clients /\ Bytes(conn[c], y) /\ conn[c].open /\ conn[c].rxlen \in Nat
      /\ y.stream \in Seq(Bodies) /\ y.kernel \in Nat /\ y.transit \in Nat
      /\ y.left \in Nat /\ y.sndbuf \in 0..SNDBUF /\ SNDBUF \in Nat
      /\ UNCHANGED <<conn, n_conns, task, at>>
  BY Zenon, Known, ClientTyped, TcpServerAssumption
     DEF Ask, Arrive, TakeReply, Leave, Shaped, Shapes
<1>2. PICK f : Ends(y.stream, n, f)
  BY Zenon, <1>1 DEF Bytes
<1>3. CASE Ask(c)
  <2>1. PICK b \in Bodies :
          client' = [client EXCEPT ![c].stream = Append(@, b),
                       ![c].transit = @ + 1 + b, ![c].left = @ - 1]
    BY Zenon, <1>3 DEF Ask
  <2> DEFINE x == [y EXCEPT !.stream = Append(@, b), !.transit = @ + 1 + b, !.left = @ - 1]
  <2>2. client' = [client EXCEPT ![c] = x]
    BY Zenon, <2>1 DEF IInv
  <2>3. b \in Nat
    BY TcpServerAssumption
  <2>4. Append(y.stream, b) \in Seq(Bodies) /\ y.transit + 1 + b \in Nat /\ y.left - 1 \in Nat
    <3>1. Append(y.stream, b) \in Seq(Bodies)
      BY <1>1
    <3>2. y.left > 0
      BY Zenon, <1>3 DEF Ask
    <3> HIDE DEF y
    <3>3. y.transit + 1 + b \in Nat /\ y.left - 1 \in Nat
      BY <1>1, <2>3, <3>2
    <3> QED BY <3>1, <3>3
  <2>5. /\ x \in Clients /\ x.stream = Append(y.stream, b) /\ x.kernel = y.kernel
        /\ x.transit = y.transit + 1 + b
    BY Zenon, <1>1, <2>4 DEF Clients
  <2> HIDE DEF x
  <2>6. n \in Nat /\ conn[c].rxlen + x.kernel + x.transit = n + 1 + b
    <3>1. /\ conn[c].rxlen \in Nat /\ y.kernel \in Nat /\ y.transit \in Nat
          /\ x.kernel = y.kernel /\ x.transit = y.transit + 1 + b
      BY Zenon, <1>1, <2>5
    <3> HIDE DEF y
    <3> QED BY <2>3, <3>1
  <2> HIDE DEF n
  <2>7. \E g : Ends(x.stream, conn[c].rxlen + x.kernel + x.transit, g)
    <3>1. \E g : Ends(Append(y.stream, b), n + 1 + b, g)
      BY Zenon, <1>1, <1>2, <2>6, EndsAppend
    <3> QED BY Zenon, <2>5, <2>6, <3>1
  <2>8. y.stream # <<>> => x.stream # <<>> /\ Head(x.stream) = Head(y.stream)
    BY Zenon, <1>1, <2>5, AppendKeepsHead
  <2>9. Bytes(conn[c], x)
    BY Zenon, <1>1, <2>7, <2>8 DEF Bytes
  <2> QED BY Zenon, <1>1, <2>2, <2>5, <2>9, TouchClient
<1>4. CASE Arrive(c)
  <2>1. PICK i \in 1..y.transit :
          client' = [client EXCEPT ![c].transit = @ - i, ![c].kernel = @ + i]
    BY Zenon, <1>4 DEF Arrive
  <2> DEFINE x == [y EXCEPT !.transit = @ - i, !.kernel = @ + i]
  <2>2. client' = [client EXCEPT ![c] = x]
    BY Zenon, <2>1 DEF IInv
  <2>3. y.transit - i \in Nat /\ y.kernel + i \in Nat
    <3>1. i \in 1..y.transit /\ y.transit \in Nat /\ y.kernel \in Nat
      BY <1>1
    <3> HIDE DEF y
    <3> QED BY <3>1
  <2>4. /\ x \in Clients /\ x.stream = y.stream /\ x.kernel = y.kernel + i
        /\ x.transit = y.transit - i
    BY Zenon, <1>1, <2>3 DEF Clients
  <2> HIDE DEF x
  <2>5. conn[c].rxlen + x.kernel + x.transit = n
    <3>1. /\ conn[c].rxlen \in Nat /\ y.transit \in Nat /\ y.kernel \in Nat /\ i \in Nat
          /\ x.kernel = y.kernel + i /\ x.transit = y.transit - i
      BY Zenon, <1>1, <2>4, IntervalNat
    <3> HIDE DEF y
    <3> QED BY <3>1
  <2>6. Bytes(conn[c], x)
    BY Zenon, <1>1, <2>4, <2>5 DEF Bytes
  <2> QED BY Zenon, <1>1, <2>2, <2>4, <2>6, TouchClient
<1>5. CASE TakeReply(c)
  <2> DEFINE x == [y EXCEPT !.sndbuf = @ - 1]
  <2>1. y.sndbuf > 0 /\ client' = [client EXCEPT ![c].sndbuf = @ - 1]
    BY <1>5 DEF TakeReply
  <2>2. client' = [client EXCEPT ![c] = x]
    BY <2>1 DEF IInv
  <2>3. y.sndbuf - 1 \in 0..SNDBUF
    BY <1>1, <2>1
  <2>4. x \in Clients /\ Bytes(conn[c], x)
    BY Zenon, <1>1, <2>3 DEF Clients, Bytes
  <2> HIDE DEF x
  <2> QED BY Zenon, <1>1, <2>2, <2>4, TouchClient
<1>6. CASE Leave(c)
  <2>1. PICK how \in {"fin", "rst"} : client' = [client EXCEPT ![c].end = how]
    BY Zenon, <1>6 DEF Leave
  <2> DEFINE x == [y EXCEPT !.end = how]
  <2>2. client' = [client EXCEPT ![c] = x]
    BY <2>1 DEF IInv
  <2>3. x \in Clients /\ Bytes(conn[c], x)
    BY Zenon, <1>1 DEF Clients, Bytes
  <2> HIDE DEF x
  <2> QED BY Zenon, <1>1, <2>2, <2>3, TouchClient
<1> QED BY <1>3, <1>4, <1>5, <1>6

\* Every step keeps the invariant.
LEMMA TcpStep ==
    ASSUME "none" \notin Conns, IInv, [Next]_vars PROVE IInv'
<1>1. ASSUME NEW c \in Conns, Callback(c) PROVE IInv'
  BY <1>1, WriteKeeps, ReadKeeps, StallKeeps, PrefixKeeps, QueryKeeps, NoMoreKeeps
     DEF Callback
<1>2. CASE UNCHANGED vars
  BY <1>2 DEF vars, IInv, Counts, Holders, Allocated
<1> QED BY <1>1, <1>2, AcceptKeeps, EventKeeps, IdleTimeoutKeeps, ClientKeeps,
           RespondKeeps, FiniKeeps DEF Next

\* ... which holds from the start.
LEMMA TcpAlways ==
    ASSUME "none" \notin Conns PROVE Spec => []IInv
<1>1. Init => IInv
  <2> SUFFICES ASSUME Init PROVE IInv
    OBVIOUS
  <2>1. at \in Places /\ at.pc \notin Busy
    BY DEF Init, Places, Idle, Busy
  <2>2. \A c \in Conns : Good(c, conn[c], client[c], at)
    BY <2>1, FreeGood DEF Init
  <2>3. Allocated = {} /\ \A c \in Conns : Holders(c) = {} /\ conn[c].pending = 0
    BY FreeShaped DEF Init, Allocated, Holders
  <2>4. Counts
    BY <2>3, FS_EmptySet, TcpServerAssumption DEF Init, Counts
  <2> QED BY <2>1, <2>2, <2>4, NoClientTyped DEF Init, IInv
<1>2. IInv /\ [Next]_vars => IInv'
  BY TcpStep
<1> QED BY <1>1, <1>2, PTL DEF Spec

-----------------------------------------------------------------------------
(* The theorems.                                                            *)

\* tcp_close(), "free the connection once nothing refers to it": for any number
\* of connections and resolutions, the counts are those of the pointers and of
\* the connections there are, and nothing that is pointed at is freed.
THEOREM HeldIsCounted ==
    ASSUME "none" \notin Conns PROVE Spec => []HeldWhilePointedAt
<1>1. IInv => HeldWhilePointedAt
  <2> SUFFICES ASSUME IInv PROVE HeldWhilePointedAt
    OBVIOUS
  <2>1. ASSUME NEW c \in Conns
        PROVE  /\ conn[c].pending = Cardinality(Holders(c))
               /\ Holders(c) # {} => conn[c].used
               /\ conn[c].used => conn[c].open \/ Holders(c) # {}
    <3>1. conn[c].pending = Cardinality(Holders(c)) /\ Lives(conn[c]) /\ Shaped(conn[c])
      BY Known DEF IInv, Counts
    <3>2. conn[c].pending = 0 <=> Holders(c) = {}
      BY Zenon, <3>1, HoldersFinite, FS_EmptySet
    <3>3. conn[c].used \in BOOLEAN /\ conn[c].open \in BOOLEAN
          /\ (conn[c].closing => conn[c].pending # 0)
      BY <3>1 DEF Shaped, Shapes, Lives
    <3> QED BY Zenon, <3>1, <3>2, <3>3 DEF Lives
  <2> QED BY <2>1 DEF HeldWhilePointedAt, IInv, Counts
<1> QED BY <1>1, TcpAlways, PTL

\* tcp_want(), tcp_conn_event() and TCP_TX_HIGH, for any marks, sizes and
\* lengths: no connection spins the worker or is forgotten, no read is for 0
\* bytes, and what a client can make the worker hold is bounded.
THEOREM ConnectionsArePaced ==
    ASSUME "none" \notin Conns PROVE Spec => []Paced
<1>1. IInv => WaitsForTheRight
  <2> SUFFICES ASSUME IInv, at.pc = "idle", NEW c \in Conns, conn[c].open
               PROVE  /\ "WRITE" \in conn[c].mask <=> Unsent(conn[c]) > 0
                      /\ "READ" \in conn[c].mask <=> ~conn[c].stalled
                      /\ conn[c].stalled => Unsent(conn[c]) > 0
                      /\ conn[c].idle
    BY DEF WaitsForTheRight
  <2>1. Good(c, conn[c], client[c], at) /\ at.pc \notin Busy
    BY DEF IInv, Busy
  <2> QED BY Zenon, <2>1 DEF Good, Waits, Lives
<1>2. IInv => ReadsSomething
  <2> SUFFICES ASSUME IInv, at.pc = "read"
               PROVE  RoomFor(conn[at.c]) > conn[at.c].rxlen
    BY DEF ReadsSomething
  <2>1. at.c \in Conns /\ at.pc \in Busy
    BY DEF IInv, Places, Busy, Idle
  <2>2. /\ Shaped(conn[at.c]) /\ Drained(conn[at.c])
        /\ conn[at.c].open /\ ~conn[at.c].stalled
    BY <2>1, Known DEF Stands
  <2> QED BY <2>2, RoomToRead DEF Drained
<1>3. IInv => QueueBounded
  BY Known DEF QueueBounded, Bound
<1> QED BY <1>1, <1>2, <1>3, TcpAlways, PTL DEF Paced

-----------------------------------------------------------------------------
(* Who is closed.                                                           *)

Owed(c) == conn[c].pending > 0 \/ Unsent(conn[c]) > 0

\* The client has ended the connection or broken its stream.
Over(c) ==
    \/ client[c].end # "none"
    \/ client[c].stream # <<>> /\ Head(client[c].stream) = 0

\* A step that leaves every connection but c alone, and c open unless nothing
\* is owed on it or it is over.
Spares(c) ==
    /\ \A d \in Conns \ {c} : conn'[d] = conn[d]
    /\ conn[c].open /\ ~conn'[c].open /\ Owed(c) => Over(c)

\* A connection that is changed and stays as open as it was is spared.
LEMMA StaysOpen ==
    ASSUME IInv, NEW c \in Conns, NEW j, conn' = [conn EXCEPT ![c] = j],
           j.open = conn[c].open
    PROVE  Spares(c)
BY DEF IInv, Spares

\* Closing one that is over, or on which nothing is owed, spares the others.
LEMMA CloseSpares ==
    ASSUME IInv, NEW c \in Conns, NEW k, TcpClose(c, k),
           Over(c) \/ ~Owed(c)
    PROVE  Spares(c)
<1>1. PICK j : conn' = [conn EXCEPT ![c] = j]
  BY DEF TcpClose
<1> QED BY <1>1 DEF IInv, Spares

\* tcp_conn_event() closes at once on an error only.
LEMMA EventSpares ==
    ASSUME IInv, NEW c \in Conns, Event(c) PROVE Spares(c)
<1>1. PICK events \in SUBSET Ready(c) \ {{}} :
         IF "HUP" \in events
         THEN TcpClose(c, conn[c]) /\ UNCHANGED at
         ELSE UNCHANGED <<conn, n_conns, client>>
  BY Zenon DEF Event
<1>2. CASE "HUP" \in events
  <2>1. conn[c].mask \subseteq {"READ", "WRITE"}
    BY Known DEF Shaped, Shapes
  <2>2. "HUP" \in Ready(c)
    BY <1>2
  <2>3. client[c].end = "rst"
    BY <2>1, <2>2 DEF Ready
  <2> QED BY <1>1, <1>2, <2>3, CloseSpares DEF Over
<1>3. CASE "HUP" \notin events
  BY <1>1, <1>3 DEF Spares
<1> QED BY <1>2, <1>3

\* Its write loop, on a connection the client has reset only.
LEMMA WriteSpares ==
    ASSUME IInv, NEW c \in Conns, Write(c) PROVE Spares(c)
<1> DEFINE k == conn[c]
           n == Least(Unsent(k), SNDBUF - client[c].sndbuf)
           sent == [k EXCEPT !.txsent = @ + n]
           empty == [k EXCEPT !.txsent = 0, !.txlen = 0]
<1>1. \/ client[c].end = "rst" /\ TcpClose(c, k)
      \/ Become(c, sent) \/ Become(c, empty) \/ Become(c, TcpWant(empty))
  BY DEF Write
<1>2. Shaped(k)
  BY Known
<1>3. sent.open = k.open /\ empty.open = k.open /\ TcpWant(empty).open = k.open
  BY <1>2 DEF Shaped, Shapes, TcpWant
<1> QED BY Zenon, <1>1, <1>3, StaysOpen, CloseSpares DEF Become, Over

\* Its read loop, at the client's end of stream only: there is always room to
\* read into.
LEMMA ReadSpares ==
    ASSUME IInv, NEW c \in Conns, Read(c) PROVE Spares(c)
<1> DEFINE k == conn[c]
           cap == RoomFor(k)
           n == Least(cap - k.rxlen, client[c].kernel)
<1>1. at.pc = "read" /\ at.c = c /\ at.pc \in Busy
  BY DEF Read, Busy
<1>2. Shaped(k) /\ Drained(k) /\ k.open /\ ~k.stalled
  BY <1>1, Known DEF Stands
<1>3. cap # k.rxlen
  BY <1>2, RoomToRead DEF Drained, Shaped, Shapes
<1>4. \/ client[c].end \in {"rst", "fin"} /\ TcpClose(c, k)
      \/ Become(c, [k EXCEPT !.rxcap = cap, !.idle = TRUE])
      \/ Become(c, [k EXCEPT !.rxcap = cap, !.rxlen = @ + n])
  BY <1>3 DEF Read
<1>5. /\ [k EXCEPT !.rxcap = cap, !.idle = TRUE].open = k.open
      /\ [k EXCEPT !.rxcap = cap, !.rxlen = @ + n].open = k.open
  BY Zenon, <1>2 DEF Shaped, Shapes
<1> QED BY Zenon, <1>4, <1>5, StaysOpen, CloseSpares DEF Become, Over

\* tcp_serve() returning closes nothing.
LEMMA ServedSpares ==
    ASSUME IInv, NEW c \in Conns, NEW j, Shaped(j), j.open = conn[c].open, Served(c, j)
    PROVE  Spares(c)
<1>1. Become(c, TcpWant(j)) \/ Become(c, [j EXCEPT !.idle = TRUE]) \/ Become(c, j)
  BY DEF Served
<1>2. TcpWant(j).open = j.open /\ [j EXCEPT !.idle = TRUE].open = j.open
  BY DEF Shaped, Shapes, TcpWant
<1> QED BY Zenon, <1>1, <1>2, StaysOpen DEF Become

\* Neither does holding a connection back, or letting it go on.
LEMMA StallSpares ==
    ASSUME IInv, NEW c \in Conns, Stall(c) \/ NoMore(c) PROVE Spares(c)
<1> DEFINE k == conn[c]
           held == TcpWant([k EXCEPT !.stalled = TRUE])
           on == TcpWant([k EXCEPT !.stalled = FALSE])
<1>1. Served(c, held) \/ Served(c, on) \/ Served(c, k)
  BY DEF Stall, NoMore
<1>2. Shaped(k)
  BY Known
<1>3. /\ Shaped([k EXCEPT !.stalled = TRUE]) /\ [k EXCEPT !.stalled = TRUE].open = k.open
      /\ Shaped([k EXCEPT !.stalled = FALSE]) /\ [k EXCEPT !.stalled = FALSE].open = k.open
  BY Zenon, <1>2 DEF Shaped, Shapes
<1>4. Shaped(held) /\ held.open = k.open /\ Shaped(on) /\ on.open = k.open
  BY Zenon, <1>3, WantsRight DEF SameButMask
<1> QED BY <1>1, <1>2, <1>4, ServedSpares

\* A length that is too short closes: the query in front has it.
LEMMA PrefixSpares ==
    ASSUME IInv, NEW c \in Conns, Prefix(c) PROVE Spares(c)
<1> DEFINE k == conn[c]
           body == Head(client[c].stream)
<1>1. /\ Serving(c) /\ k.rxlen >= 1
      /\ \/ body = 0 /\ TcpClose(c, k)
         \/ Become(c, [k EXCEPT !.rxwant = body])
  BY DEF Prefix
<1>2. client[c].stream # <<>>
  BY <1>1, KnownServing, QueryInFront
<1>3. [k EXCEPT !.rxwant = body].open = k.open
  BY Known DEF Shaped, Shapes
<1> QED BY Zenon, <1>1, <1>2, <1>3, StaysOpen, CloseSpares DEF Become, Over

\* tcp_queue() leaves a connection open or closing, as it was.
LEMMA QueueOpen ==
    ASSUME NEW k, Shaped(k), NEW r
    PROVE  TcpQueue(k, r).open = k.open /\ TcpQueue(k, r).closing = k.closing
<1> DEFINE need == k.txlen + r
<1>1. ASSUME NEW cap
      PROVE  LET j == TcpWant([k EXCEPT !.txlen = need, !.txcap = cap])
             IN  j.open = k.open /\ j.closing = k.closing
  <2> DEFINE m == [k EXCEPT !.txlen = need, !.txcap = cap]
  <2>1. /\ m.open = k.open /\ m.closing = k.closing
        /\ \A z : [m EXCEPT !.mask = z].open = k.open /\ [m EXCEPT !.mask = z].closing = k.closing
    BY DEF Shaped, Shapes
  <2> HIDE DEF m
  <2> QED BY <2>1 DEF TcpWant
<1> HIDE DEF need
<1> QED BY Zenon, <1>1 DEF TcpQueue, need

\* handle_query() closes nothing.
LEMMA QuerySpares ==
    ASSUME IInv, NEW c \in Conns, Query(c) PROVE Spares(c)
<1> DEFINE k == [conn[c] EXCEPT !.rxlen = @ - (conn[c].rxwant + 1), !.rxwant = 0]
<1>1. HandleQuery(c, k) /\ Serving(c) /\ conn[c].rxwant # 0
      /\ conn[c].rxlen >= conn[c].rxwant + 1
  BY DEF Query
<1>2. Shaped(k) /\ k.open = conn[c].open
  BY Zenon, <1>1, TakeQuery
<1> HIDE DEF k
<1>3. \/ Become(c, k) \/ (\E r \in Replies : Become(c, TcpQueue(k, r)))
      \/ Become(c, [k EXCEPT !.pending = @ + 1])
  BY <1>1 DEF HandleQuery, DropQuery, AnswerNow, StartTask
<1>4. [k EXCEPT !.pending = @ + 1].open = k.open
      /\ \A r \in Replies : TcpQueue(k, r).open = k.open
  BY <1>2, QueueOpen DEF Shaped, Shapes
<1> QED BY Zenon, <1>2, <1>3, <1>4, StaysOpen DEF Become

\* tcp_resolved() closes a connection that is closing already, and so not open.
LEMMA RespondSpares ==
    ASSUME "none" \notin Conns, IInv, NEW t \in Tasks, Respond(t)
    PROVE  \E c \in Conns : Spares(c)
<1>0. PICK c \in Conns : c = task[t]
  BY DEF Respond, IInv
<1> DEFINE k == conn[c]
<1>1. PICK r \in Replies : TcpResolved(c, TcpQueue(k, r))
  BY <1>0 DEF Respond
<1> DEFINE q == TcpQueue(k, r)
           done == [q EXCEPT !.pending = IF @ > 0 THEN @ - 1 ELSE 0]
<1>2. Shaped(k) /\ Lives(k)
  BY Known
<1>3. q.open = k.open /\ q.closing = k.closing
  BY Zenon, <1>2, QueueOpen
<1>4. (done.closing /\ done.pending = 0 /\ TcpClose(c, done)) \/ Become(c, done)
  BY <1>1 DEF TcpResolved
<1>5. ASSUME NEW z PROVE LET j == [q EXCEPT !.pending = z]
                         IN  j.open = q.open /\ j.closing = q.closing
  <2>1. CASE q = k
    BY <1>2, <2>1 DEF Shaped, Shapes
  <2>2. CASE q # k
    <3>1. PICK cap, mask : \/ q = [k EXCEPT !.txlen = k.txlen + r, !.txcap = cap]
                           \/ q = [k EXCEPT !.txlen = k.txlen + r, !.txcap = cap, !.mask = mask]
      BY Zenon, <1>2, <2>2 DEF TcpQueue, TcpWant, Shaped, Shapes
    <3> QED BY <1>2, <3>1 DEF Shaped, Shapes
  <2> QED BY <2>1, <2>2
<1> HIDE DEF q
<1>6. done.open = k.open /\ done.closing = k.closing
  BY <1>3, <1>5
<1> HIDE DEF done
<1>7. CASE Become(c, done)
  BY Zenon, <1>6, <1>7, StaysOpen DEF Become
<1>8. CASE k.closing /\ TcpClose(c, done)
  <2>1. ~k.open
    BY <1>2, <1>8 DEF Lives
  <2>2. PICK j : conn' = [conn EXCEPT ![c] = j]
    BY <1>8 DEF TcpClose
  <2> QED BY <2>1, <2>2 DEF Spares, IInv
<1> QED BY <1>4, <1>6, <1>7, <1>8

\* tcp_idle_timeout() closes a connection that owes nothing.
LEMMA IdleTimeoutSpares ==
    ASSUME IInv, NEW c \in Conns, IdleTimeout(c) PROVE Spares(c)
<1>1. \/ ~Owed(c) /\ TcpClose(c, conn[c])
      \/ UNCHANGED conn
  BY DEF IdleTimeout, Owed
<1> QED BY <1>1, CloseSpares DEF Spares

\* elpis_server_tcp_event() opens one, and closes none.
LEMMA AcceptSpares ==
    ASSUME IInv, NEW c \in Conns, Accept(c) PROVE Spares(c)
BY Known DEF Accept, Free, IInv, Spares, Lives

\* tcp_idle_timeout(), "a connection with queries still being resolved, or
\* answers not yet written, is not idle", and every other place that closes: for
\* any number of connections and clients, one that owes its client something is
\* closed only after the client has ended it or has broken the stream.
THEOREM NobodyIsCutShort ==
    ASSUME "none" \notin Conns PROVE Spec => [][NotCutShort]_vars
<1>1. ASSUME NEW c \in Conns, Spares(c) PROVE NotCutShort
  BY <1>1 DEF NotCutShort, Spares, Owed, Over
<1>2. ASSUME UNCHANGED conn PROVE NotCutShort
  BY <1>2 DEF NotCutShort
<1>3. ASSUME Fini PROVE NotCutShort
  BY <1>3 DEF Fini, Idle, NotCutShort
<1>4. IInv /\ [Next]_vars => [NotCutShort]_vars
  <2> SUFFICES ASSUME IInv, Next PROVE NotCutShort
    OBVIOUS
  <2>1. ASSUME NEW c \in Conns, Callback(c) PROVE NotCutShort
    BY <1>1, <2>1, WriteSpares, ReadSpares, StallSpares, PrefixSpares, QuerySpares
       DEF Callback
  <2>2. ASSUME NEW c \in Conns, Ask(c) \/ Arrive(c) \/ TakeReply(c) \/ Leave(c)
        PROVE  NotCutShort
    BY Zenon, <1>2, <2>2 DEF Ask, Arrive, TakeReply, Leave
  <2>3. ASSUME NEW c \in Conns, Accept(c) \/ Event(c) \/ IdleTimeout(c)
        PROVE  NotCutShort
    BY <1>1, <2>3, AcceptSpares, EventSpares, IdleTimeoutSpares
  <2>4. ASSUME NEW t \in Tasks, Respond(t) PROVE NotCutShort
    BY <1>1, <2>4, RespondSpares
  <2> QED BY <1>3, <2>1, <2>2, <2>3, <2>4 DEF Next
<1> QED BY <1>4, TcpAlways, PTL DEF Spec
=============================================================================
