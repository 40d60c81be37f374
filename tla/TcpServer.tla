----------------------------- MODULE TcpServer ------------------------------
(***************************************************************************)
(* The clients' TCP connections of one worker (src/server/server.c): the   *)
(* query stream of each, the replies queued on it, the resolutions that    *)
(* hold a pointer to it, its idle timer, and its slot under                *)
(* tcp-max-connections.                                                        *)
(*                                                                         *)
(* A worker runs one callback at a time.  A callback is a run of steps     *)
(* here, one for each turn of its loops (`at' says where it stands); only  *)
(* the clients move in between.  Lengths are in units of the two-byte      *)
(* prefix: a query of body b is 1 + b units on the wire, a body of 0 is    *)
(* shorter than a DNS header, and a reply of r units has its prefix in r.  *)
(*                                                                         *)
(* Abstractions: what is asked and answered; the memory allocator, which   *)
(* always succeeds.                                                        *)
(***************************************************************************)
EXTENDS Integers, Sequences, FiniteSets

CONSTANTS
    Conns,          \* the connections there can be
    MAX_CONN,       \* tcp-max-connections
    Tasks,          \* the resolutions a worker takes on: max-pending of them
    TCP_TX_HIGH,    \* unsent replies past which no query is read
    RX_FIRST, TX_FIRST, TX_LIMIT,  \* the buffers' sizes: 2048, 4096, 4 MB
    SNDBUF,         \* the kernel's send buffer
    Bodies, Replies,   \* the lengths queries and replies have
    MaxQueries      \* bound: the queries a client sends on a connection

ASSUME TcpServerAssumption ==
    /\ MAX_CONN \in Nat /\ TCP_TX_HIGH \in Nat /\ IsFiniteSet(Tasks)
    /\ RX_FIRST \in Nat \ {0} /\ TX_FIRST \in Nat \ {0} /\ TX_LIMIT \in Nat
    /\ SNDBUF \in Nat \ {0}
    /\ Bodies \subseteq Nat /\ Replies \subseteq Nat \ {0}
    /\ MaxQueries \in Nat

Free == [open |-> FALSE, closing |-> FALSE, pending |-> 0, rxlen |-> 0,
         rxwant |-> 0, rxcap |-> 0, txlen |-> 0, txsent |-> 0, txcap |-> 0,
         stalled |-> FALSE, mask |-> {}, idle |-> FALSE, used |-> FALSE]
Idle == [pc |-> "idle", c |-> "none", read |-> FALSE]
NoClient == [stream |-> <<>>, transit |-> 0, kernel |-> 0, sndbuf |-> 0,
             left |-> 0, end |-> "none"]

VARIABLES
    conn,     \* elpis_tcpconn_t; used = FALSE: not allocated
    n_conns,  \* w->n_conns
    task,     \* t->conn of the resolutions in flight, "none" for no such task
    at,       \* the callback the worker is in
    client    \* the other end: queries sent and not yet taken, the last of
              \* them still in transit or in the kernel; replies in the
              \* kernel; queries yet to send; whether it has closed or reset

vars == <<conn, n_conns, task, at, client>>

TypeOK ==
    /\ \A c \in Conns :
         /\ conn[c].pending \in Nat /\ conn[c].rxlen \in Nat
         /\ conn[c].rxwant \in Nat /\ conn[c].rxcap \in Nat
         /\ conn[c].txsent \in 0..conn[c].txlen
         /\ conn[c].txlen \in 0..conn[c].txcap
         /\ conn[c].mask \subseteq {"READ", "WRITE"}
         /\ client[c].stream \in Seq(Bodies)
         /\ client[c].transit \in Nat /\ client[c].kernel \in Nat
         /\ client[c].sndbuf \in 0..SNDBUF
         /\ client[c].left \in 0..MaxQueries
         /\ client[c].end \in {"none", "fin", "rst"}
    /\ n_conns \in 0..MAX_CONN
    /\ task \in [Tasks -> Conns \cup {"none"}]

Init ==
    /\ conn = [c \in Conns |-> Free] /\ n_conns = 0
    /\ task = [t \in Tasks |-> "none"]
    /\ at = Idle
    /\ client = [c \in Conns |-> NoClient]

-----------------------------------------------------------------------------
Least(a, b) == IF a < b THEN a ELSE b
Most(a, b) == IF a > b THEN a ELSE b
Unsent(k) == k.txlen - k.txsent

TcpWant_NoWrite(k) ==
    IF k.open /\ ~k.stalled THEN [k EXCEPT !.mask = {"READ"}] ELSE k

\* tcp_want(): replies to write, and queries unless held back.
TcpWant(k) ==
    LET mask == (IF k.stalled THEN {} ELSE {"READ"})
                \cup (IF Unsent(k) > 0 THEN {"WRITE"} ELSE {})
    IN  IF ~k.open THEN k
        ELSE [k EXCEPT !.mask = IF mask = {} THEN {"READ"} ELSE mask]

\* The size tcp_queue() grows the buffer to: doubled until it holds need, or 0
\* when that takes it past TX_LIMIT.
Grown(cap, need) ==
    LET sizes == {Most(cap, TX_FIRST) * 2 ^ i : i \in 0..need}
        enough == {z \in sizes : z >= need}
        want == CHOOSE z \in enough : \A y \in enough : z <= y
    IN  IF want > Most(cap, TX_FIRST) /\ want \div 2 > TX_LIMIT THEN 0 ELSE want

\* tcp_queue(): the reply is appended, or dropped.  Sent bytes stay in the
\* buffer until all of it is sent.
TcpQueue(k, r) ==
    LET need == k.txlen + r
        cap == IF need > k.txcap THEN Grown(k.txcap, need) ELSE k.txcap
    IN  IF k.closing \/ cap = 0 THEN k
        ELSE TcpWant([k EXCEPT !.txlen = need, !.txcap = cap])

TcpClose_AtOnce(c, k) ==
    /\ conn' = [conn EXCEPT ![c] = Free] /\ n_conns' = n_conns - 1
    /\ client' = [client EXCEPT ![c] = NoClient]

\* tcp_close(): the socket at once, the memory once nothing points at it.
TcpClose(c, k) ==
    /\ IF k.pending > 0
       THEN /\ conn' = [conn EXCEPT ![c] = [k EXCEPT !.idle = FALSE,
                          !.open = FALSE, !.closing = TRUE, !.mask = {}]]
            /\ UNCHANGED n_conns
       ELSE /\ conn' = [conn EXCEPT ![c] = Free]
            /\ n_conns' = IF n_conns > 0 THEN n_conns - 1 ELSE 0
    /\ client' = [client EXCEPT ![c] = NoClient]

Become(c, k) == conn' = [conn EXCEPT ![c] = k] /\ UNCHANGED n_conns

\* elpis_server_tcp_event() for one client.  Past MAX_CONN its socket is closed
\* at once, and nothing changes.
Accept(c) ==
    /\ at = Idle /\ ~conn[c].used /\ n_conns < MAX_CONN
    /\ conn' = [conn EXCEPT ![c] = [Free EXCEPT !.used = TRUE, !.open = TRUE,
                                      !.mask = {"READ"}, !.idle = TRUE]]
    /\ n_conns' = n_conns + 1
    /\ client' = [client EXCEPT ![c] = [NoClient EXCEPT !.left = MaxQueries]]
    /\ UNCHANGED <<task, at>>

\* What the kernel reports of a connection; errors whatever the mask.
Ready(c) ==
    LET x == client[c]
    IN  {e \in conn[c].mask :
           \/ e = "READ" /\ (x.kernel > 0 \/ x.end # "none")
           \/ e = "WRITE" /\ x.sndbuf < SNDBUF}
        \cup (IF x.end = "rst" THEN {"HUP"} ELSE {})

\* The part of tcp_conn_event() after the writes.
Reading(c, k, read) ==
    IF read /\ ~k.stalled THEN [pc |-> "read", c |-> c, read |-> TRUE] ELSE Idle

\* tcp_conn_event() is called, with what was ready when the loop last looked.
Event(c) ==
    /\ at = Idle /\ conn[c].open
    /\ \E events \in SUBSET Ready(c) \ {{}} :
         IF "HUP" \in events
         THEN TcpClose(c, conn[c]) /\ UNCHANGED at
         ELSE /\ at' = IF "WRITE" \in events
                       THEN [pc |-> "write", c |-> c, read |-> "READ" \in events]
                       ELSE Reading(c, conn[c], TRUE)
              /\ UNCHANGED <<conn, n_conns, client>>
    /\ UNCHANGED task

\* ... its write loop, as far as the kernel takes it.
Write(c) ==
    LET k == conn[c]
        n == Least(Unsent(k), SNDBUF - client[c].sndbuf)
        sent == [k EXCEPT !.txsent = @ + n]
        empty == [k EXCEPT !.txsent = 0, !.txlen = 0]
    IN  /\ at.pc = "write" /\ at.c = c
        /\ IF client[c].end = "rst" /\ Unsent(k) > 0
           THEN TcpClose(c, k) /\ at' = Idle
           ELSE /\ client' = [client EXCEPT ![c].sndbuf = @ + n]
                /\ \/ n < Unsent(k) /\ Become(c, sent)
                      /\ at' = Reading(c, k, at.read)
                   \/ n = Unsent(k) /\ k.stalled /\ Become(c, empty)
                      /\ at' = [at EXCEPT !.pc = "resume"]
                   \/ n = Unsent(k) /\ ~k.stalled /\ Become(c, TcpWant(empty))
                      /\ at' = Reading(c, empty, at.read)
        /\ UNCHANGED task

\* One turn of its read loop.
RoomFor(k) ==
    LET cap == IF k.rxcap = 0 THEN RX_FIRST ELSE k.rxcap
    IN  IF k.rxwant # 0 THEN Most(cap, k.rxwant + 1) ELSE cap

Read(c) ==
    LET k == conn[c]
        cap == RoomFor(k)
        n == Least(cap - k.rxlen, client[c].kernel)
    IN  /\ at.pc = "read" /\ at.c = c
        /\ \/ /\ \/ client[c].end = "rst"
                 \/ cap = k.rxlen
                 \/ client[c].kernel = 0 /\ client[c].end = "fin"
              /\ TcpClose(c, k) /\ at' = Idle
           \/ /\ client[c].end = "none" /\ cap > k.rxlen /\ client[c].kernel = 0
              /\ Become(c, [k EXCEPT !.rxcap = cap, !.idle = TRUE])
              /\ at' = Idle /\ UNCHANGED client
           \/ /\ client[c].end # "rst" /\ n > 0
              /\ Become(c, [k EXCEPT !.rxcap = cap, !.rxlen = @ + n])
              /\ client' = [client EXCEPT ![c].kernel = @ - n]
              /\ at' = [at EXCEPT !.pc = "serve"]
        /\ UNCHANGED task

\* tcp_serve() returns ELPIS_OK, to the read loop or to the write path.
Served(c, k) ==
    \/ /\ at.pc = "resume" /\ Become(c, TcpWant(k))
       /\ at' = Reading(c, k, at.read)
    \/ /\ at.pc = "serve" /\ k.stalled /\ Become(c, [k EXCEPT !.idle = TRUE])
       /\ at' = Idle
    \/ /\ at.pc = "serve" /\ ~k.stalled /\ Become(c, k)
       /\ at' = [at EXCEPT !.pc = "read"]

Serving(c) == at.pc \in {"serve", "resume"} /\ at.c = c

TooFarBehind(k) == Unsent(k) > TCP_TX_HIGH

\* One turn of tcp_serve(): the client is too far behind with its reading.
Stall(c) ==
    /\ Serving(c) /\ TooFarBehind(conn[c])
    /\ Served(c, TcpWant([conn[c] EXCEPT !.stalled = TRUE]))
    /\ UNCHANGED <<task, client>>

\* ... or the next query's length is read, and is too short to be one.
Prefix(c) ==
    LET k == conn[c]
        body == Head(client[c].stream)
    IN  /\ Serving(c) /\ ~TooFarBehind(k) /\ k.rxwant = 0 /\ k.rxlen >= 1
        /\ IF body = 0
           THEN TcpClose(c, k) /\ at' = Idle
           ELSE Become(c, [k EXCEPT !.rxwant = body]) /\ UNCHANGED <<at, client>>
        /\ UNCHANGED task

\* handle_query(): a query that cannot be parsed, or that the access list or
\* the rate limit turns away, gets no reply.
DropQuery(c, k) == Become(c, k) /\ UNCHANGED task

\* It is answered at once: refused, from a local zone or the cache, with an
\* error, or by a task that has to ask nobody.
AnswerNow(c, k) ==
    \E r \in Replies : Become(c, TcpQueue(k, r)) /\ UNCHANGED task

StartTask(c, k) ==
    \E t \in Tasks :
        /\ task[t] = "none"
        /\ task' = [task EXCEPT ![t] = c]
        /\ Become(c, [k EXCEPT !.pending = @ + 1])

HandleQuery(c, k) == DropQuery(c, k) \/ AnswerNow(c, k) \/ StartTask(c, k)

\* ... or a whole query has been read: it is handled, and what was read after
\* it moved to the front.
Query(c) ==
    LET k == conn[c]
    IN  /\ Serving(c) /\ ~TooFarBehind(k) /\ k.rxwant # 0 /\ k.rxlen >= k.rxwant + 1
        /\ HandleQuery(c, [k EXCEPT !.rxlen = @ - (k.rxwant + 1), !.rxwant = 0])
        /\ client' = [client EXCEPT ![c].stream = Tail(@)]
        /\ UNCHANGED at

NoMore_StaysStalled(c) ==
    /\ Serving(c) /\ ~TooFarBehind(conn[c])
    /\ conn[c].rxlen < conn[c].rxwant + 1
    /\ Served(c, conn[c])
    /\ UNCHANGED <<task, client>>

\* ... or there is no whole query left.
NoMore(c) ==
    LET k == conn[c]
    IN  /\ Serving(c) /\ ~TooFarBehind(k)
        /\ k.rxlen < k.rxwant + 1
        /\ Served(c, IF k.stalled THEN TcpWant([k EXCEPT !.stalled = FALSE]) ELSE k)
        /\ UNCHANGED <<task, client>>

\* tcp_resolved()
TcpResolved(c, k) ==
    LET done == [k EXCEPT !.pending = IF @ > 0 THEN @ - 1 ELSE 0]
    IN  IF done.closing /\ done.pending = 0
        THEN TcpClose(c, done)
        ELSE Become(c, done) /\ UNCHANGED client

\* elpis_task_respond(): a resolution ends, answered or failed.
Respond(t) ==
    /\ at = Idle /\ task[t] # "none"
    /\ \E r \in Replies : TcpResolved(task[t], TcpQueue(conn[task[t]], r))
    /\ task' = [task EXCEPT ![t] = "none"]
    /\ UNCHANGED at

IdleTimeout_Unwritten(c) ==
    /\ at = Idle /\ conn[c].idle
    /\ IF Unsent(conn[c]) > 0
       THEN UNCHANGED <<conn, n_conns, client>>
       ELSE TcpClose(c, conn[c])
    /\ UNCHANGED <<task, at>>

\* tcp_idle_timeout()
IdleTimeout(c) ==
    /\ at = Idle /\ conn[c].idle
    /\ IF conn[c].pending > 0 \/ Unsent(conn[c]) > 0
       THEN UNCHANGED <<conn, n_conns, client>>
       ELSE TcpClose(c, conn[c])
    /\ UNCHANGED <<task, at>>

\* elpis_resolver_fini() frees the tasks, then elpis_server_fini() the
\* connections, and the worker is gone.
Fini ==
    /\ at = Idle
    /\ task' = [t \in Tasks |-> "none"]
    /\ conn' = [c \in Conns |-> Free] /\ n_conns' = 0
    /\ client' = [c \in Conns |-> NoClient]
    /\ at' = [Idle EXCEPT !.pc = "gone"]

-----------------------------------------------------------------------------
(* The client.                                                              *)

Ask(c) ==
    /\ conn[c].open /\ client[c].end = "none" /\ client[c].left > 0
    /\ \E b \in Bodies : client' = [client EXCEPT ![c].stream = Append(@, b),
                            ![c].transit = @ + 1 + b, ![c].left = @ - 1]
    /\ UNCHANGED <<conn, n_conns, task, at>>

\* Any part of what was sent arrives.
Arrive(c) ==
    /\ conn[c].open
    /\ \E n \in 1..client[c].transit :
         client' = [client EXCEPT ![c].transit = @ - n, ![c].kernel = @ + n]
    /\ UNCHANGED <<conn, n_conns, task, at>>

TakeReply(c) ==
    /\ conn[c].open /\ client[c].sndbuf > 0
    /\ client' = [client EXCEPT ![c].sndbuf = @ - 1]
    /\ UNCHANGED <<conn, n_conns, task, at>>

Leave(c) ==
    /\ conn[c].open /\ client[c].end = "none"
    /\ \E how \in {"fin", "rst"} : client' = [client EXCEPT ![c].end = how]
    /\ UNCHANGED <<conn, n_conns, task, at>>

Callback(c) ==
    Write(c) \/ Read(c) \/ Stall(c) \/ Prefix(c) \/ Query(c) \/ NoMore(c)

Next ==
    \/ \E c \in Conns :
         \/ Accept(c) \/ Event(c) \/ Callback(c) \/ IdleTimeout(c)
         \/ Ask(c) \/ Arrive(c) \/ TakeReply(c) \/ Leave(c)
    \/ \E t \in Tasks : Respond(t)
    \/ Fini

Spec == Init /\ [][Next]_vars

\* elpis_loop_once() calls back whatever is ready in every turn, and a
\* resolution ends by its deadline.  Of the clients it is assumed that what
\* they send arrives, and that they take their replies.
FairSpec ==
    /\ Spec
    /\ \A c \in Conns : /\ WF_vars(Callback(c)) /\ WF_vars(Event(c))
                        /\ WF_vars(Arrive(c)) /\ WF_vars(TakeReply(c))
    /\ \A t \in Tasks : WF_vars(Respond(t))

-----------------------------------------------------------------------------
(* Properties.                                                              *)

Holders(c) == {t \in Tasks : task[t] = c}
Allocated == {c \in Conns : conn[c].used}

\* tcp_close(), "free the connection once nothing refers to it": the count is
\* that of the tasks which point at the connection, one that is pointed at has
\* not been freed, one that is closed has been unless it is, and n_conns is the
\* number of connections there are.
HeldWhilePointedAt ==
    /\ \A c \in Conns :
         /\ conn[c].pending = Cardinality(Holders(c))
         /\ Holders(c) # {} => conn[c].used
         /\ conn[c].used => conn[c].open \/ Holders(c) # {}
    /\ n_conns = Cardinality(Allocated)

\* tcp_want(), between callbacks: a connection waits for room to write exactly
\* while it has replies to write, and for queries exactly while it is not held
\* back, so that a held-back client neither spins the worker nor is forgotten.
WaitsForTheRight ==
    at.pc = "idle" =>
        \A c \in Conns : conn[c].open =>
            /\ "WRITE" \in conn[c].mask <=> Unsent(conn[c]) > 0
            /\ "READ" \in conn[c].mask <=> ~conn[c].stalled
            /\ conn[c].stalled => Unsent(conn[c]) > 0
            /\ conn[c].idle

\* tcp_conn_event() takes a read of 0 bytes for the client's end of stream: it
\* never asks for 0 bytes itself.
ReadsSomething ==
    at.pc = "read" => RoomFor(conn[at.c]) > conn[at.c].rxlen

\* TCP_TX_HIGH, "no more of its queries are read until it catches up": what a
\* connection can be made to hold is the mark, the reply that passes it, and
\* the replies of the resolutions already taken on.
QueueBounded ==
    \A c \in Conns : \A r \in Replies :
        (\A x \in Replies : x <= r) =>
            Unsent(conn[c]) + conn[c].pending * r
                <= TCP_TX_HIGH + (Cardinality(Tasks) + 1) * r

\* A connection is waited on for what it wants, asked for what it has room for,
\* and made to hold no more than its marks allow.
Paced == WaitsForTheRight /\ ReadsSomething /\ QueueBounded

\* tcp_idle_timeout(), "a connection with queries still being resolved, or
\* answers not yet written, is not idle": one that owes its client something is
\* closed only after the client has ended it or has broken the stream.
NotCutShort ==
    \A c \in Conns :
      /\ conn[c].open /\ ~conn'[c].open /\ at'.pc # "gone"
      /\ conn[c].pending > 0 \/ Unsent(conn[c]) > 0
      => \/ client[c].end # "none"
         \/ client[c].stream # <<>> /\ Head(client[c].stream) = 0

Settled(c) ==
    /\ client[c].stream = <<>> /\ Holders(c) = {}
    /\ Unsent(conn[c]) = 0 /\ client[c].sndbuf = 0

\* Every connection gets to where all its queries have been read, answered or
\* dropped, and their replies taken, or it is closed: nothing a client sends is
\* held back for ever, and no reply stays in the buffer.
AllServed ==
    \A c \in Conns : []<>(Settled(c) \/ ~conn[c].open)

=============================================================================
