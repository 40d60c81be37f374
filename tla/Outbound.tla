------------------------------ MODULE Outbound ------------------------------
(***************************************************************************)
(* The queries a worker has out to authoritative servers                   *)
(* (src/resolver/outbound.c) and the DNS-over-TLS connections some of them *)
(* share (src/resolver/dot.c), for the tasks that wait on them.            *)
(*                                                                         *)
(* A task has one query out, and may have a second racing it.  A query     *)
(* that nobody waits for any more lives on as a probe, to be measured.     *)
(* Handlers call each other: an answer steps the task, the step sends a    *)
(* query, a connection's failure hands back its queries one by one.        *)
(* `stack' is that chain of calls, first the innermost; only its first     *)
(* frame moves, and no event is taken until it is empty.                   *)
(*                                                                         *)
(* Abstractions: the questions and the answers, of which only what the     *)
(* handler distinguishes is left (Messages); sockets and bytes: a plain    *)
(* TCP query is answered or fails; the server's infrastructure entry       *)
(* (module Infra), which time and the other workers change too: what it    *)
(* says of DoT is any verdict, whenever it is asked; the task, which when  *)
(* stepped asks a server or rests (is done, or waits for a child).         *)
(***************************************************************************)
EXTENDS Integers, Sequences, FiniteSets, Functions

CONSTANTS
    Tasks, Servers,
    TcpOnly,                   \* servers whose entry says ELPIS_INF_TCP_ONLY
    Queries,                   \* bound: the elpis_outq_t there is memory for
    DOT_MAX_CONNS, DOT_MAX_HANDSHAKES, DOT_MAX_PENDING

ASSUME OutboundAssumption ==
    /\ Queries \subseteq Nat \ {0} /\ TcpOnly \subseteq Servers
    /\ "none" \notin Tasks \cup Servers
    /\ DOT_MAX_CONNS \in Nat /\ DOT_MAX_HANDSHAKES \in Nat
    /\ DOT_MAX_PENDING \in Nat

\* What handle_message() tells apart: a usable answer, any other rcode, one
\* that refuses EDNS or the subnet, a usable one that garbles the subnet,
\* BADCOOKIE, and a truncated answer.
Messages ==
    {"usable", "unusable", "refusal", "garbled", "badcookie", "truncated"}

NoQuery == [via |-> "none", task |-> "none", server |-> "none", conn |-> FALSE,
            probe |-> FALSE, late |-> FALSE, test |-> FALSE,
            resent |-> FALSE, retry |-> FALSE, sent |-> FALSE, timer |-> FALSE]
NoConn == [up |-> FALSE, open |-> FALSE, pending |-> <<>>, answers |-> FALSE,
           timer |-> FALSE]

VARIABLES
    w,       \* the worker: q, the queries; out and race of each task; conn,
             \* the DoT connection of each server; n_dot and n_hs, how many
             \* there are and are in their handshake; again, for each task,
             \* how often its question was handed back and sent over DoT again
    stack    \* the handlers being run

vars == <<w, stack>>

Init ==
    /\ w = [q |-> [x \in Queries |-> NoQuery],
            out |-> [t \in Tasks |-> 0], race |-> [t \in Tasks |-> 0],
            conn |-> [s \in Servers |-> NoConn], n_dot |-> 0, n_hs |-> 0,
            again |-> [t \in Tasks |-> 0]]
    /\ stack = <<>>

-----------------------------------------------------------------------------
(* The DoT connections.  An operator whose first argument is a worker has   *)
(* the worker it leaves behind as its value.                                *)

InEvent(s) == \E i \in DOMAIN stack : stack[i].fn = "event" /\ stack[i].s = s

\* Mutant: a handshake that fails stays on the count.
ConnClose_HandshakeKept(v, s) ==
    [v EXCEPT !.conn[s] = NoConn, !.n_dot = @ - 1]

\* conn_close(): out of the table at once.
ConnClose(v, s) ==
    [v EXCEPT !.conn[s] = NoConn, !.n_dot = @ - 1,
              !.n_hs = IF v.conn[s].open THEN @ ELSE @ - 1]

\* idlest(), but for the times of last use: one of these.
Idle(v) ==
    {s \in Servers : v.conn[s].open /\ v.conn[s].pending = <<>> /\ ~InEvent(s)}

\* elpis_dot_can_send()
CanSend(v, s) ==
    IF v.conn[s].up THEN Len(v.conn[s].pending) < DOT_MAX_PENDING
    ELSE v.n_hs < DOT_MAX_HANDSHAKES /\ (v.n_dot < DOT_MAX_CONNS \/ Idle(v) # {})

\* conn_open()
ConnOpen(v, s) ==
    [v EXCEPT !.conn[s] = [NoConn EXCEPT !.up = TRUE, !.timer = TRUE],
              !.n_dot = @ + 1, !.n_hs = @ + 1]

\* The end of elpis_dot_send(): x goes to the end of the connection's list.
Enlist(v, x, s) ==
    LET c == v.conn[s]
    IN  [v EXCEPT !.conn[s] = [c EXCEPT !.pending = Append(c.pending, x),
                                        !.timer = c.timer /\ ~c.open],
                  !.q[x] = [v.q[x] EXCEPT !.conn = TRUE, !.sent = c.open]]

\* What elpis_dot_send() can come to.  conn_open() may fail: refused at once,
\* or for want of a descriptor or memory.
DotSend(v, x, s) ==
    LET made == IF v.n_dot < DOT_MAX_CONNS THEN {v}
                ELSE {ConnClose(v, i) : i \in Idle(v)}
    IN  CASE ~CanSend(v, s) -> {[ok |-> FALSE, w |-> v]}
          [] CanSend(v, s) /\ v.conn[s].up ->
               {[ok |-> TRUE, w |-> Enlist(v, x, s)]}
          [] CanSend(v, s) /\ ~v.conn[s].up ->
               {[ok |-> TRUE, w |-> Enlist(ConnOpen(m, s), x, s)] : m \in made}
               \cup {[ok |-> FALSE, w |-> m] : m \in made}

\* The loop of elpis_dot_detach() over the pending list: a query is on it once.
Unlinked(list, x) ==
    LET k == CHOOSE i \in DOMAIN list : list[i] = x
    IN  IF x \in Range(list) THEN SubSeq(list, 1, k - 1) \o SubSeq(list, k + 1, Len(list))
        ELSE list

\* elpis_dot_detach()
Detach(v, x) ==
    LET s == v.q[x].server
        c == v.conn[s]
        left == Unlinked(c.pending, x)
    IN  IF ~v.q[x].conn THEN v
        ELSE [v EXCEPT !.conn[s] = [c EXCEPT !.pending = left,
                                             !.timer = c.timer \/ (left = <<>> /\ c.open)],
                       !.q[x] = [v.q[x] EXCEPT !.conn = FALSE]]

-----------------------------------------------------------------------------
(* Queries.                                                                 *)

Live(v) == {x \in Queries : v.q[x].via # "none"}

\* elpis_out_free()
OutFree(v, x) ==
    LET d == Detach(v, x)
        Cleared(f) == [t \in Tasks |-> IF f[t] = x /\ v.q[x].task = t
                                       THEN 0 ELSE f[t]]
    IN  [d EXCEPT !.q[x] = NoQuery, !.out = Cleared(@), !.race = Cleared(@)]

Other(v, t, x) ==
    IF v.out[t] = x THEN v.race[t] ELSE IF v.race[t] = x THEN v.out[t] ELSE 0

\* out_unhook(): what is left out becomes the task's one query.
Unhook(v, t, x) ==
    [v EXCEPT !.out[t] = Other(v, t, x), !.race[t] = 0, !.q[x].task = "none"]

\* out_to_probe()
ToProbe(v, x) == [v EXCEPT !.q[x].task = "none", !.q[x].probe = TRUE]

\* Mutant: the racing query is dropped by the task, and not told.
Cancel_RaceNotTold(v, t) ==
    LET r == [v EXCEPT !.race[t] = 0]
    IN  IF r.out[t] = 0 THEN r ELSE OutFree(r, r.out[t])

\* elpis_out_cancel()
Cancel(v, t) ==
    LET r == IF v.race[t] = 0 THEN v
             ELSE [ToProbe(v, v.race[t]) EXCEPT !.race[t] = 0]
    IN  IF r.out[t] = 0 THEN r ELSE OutFree(r, r.out[t])

\* Memory for one more query, when there is.
Fresh(v) ==
    LET free == Queries \ Live(v)
    IN  {x \in free : \A y \in free : x <= y}

Asking(t, s, via) ==
    [NoQuery EXCEPT !.via = via, !.task = t, !.server = s, !.timer = TRUE]

\* dot_test(): the copy over DoT of the plain query just sent, under the
\* claim, which another worker may have got first.
DotTest(v, s) ==
    IF v.conn[s].up \/ ~CanSend(v, s) THEN {v}
    ELSE LET test(x) == [v EXCEPT !.q[x] =
                           [Asking("none", s, "dot") EXCEPT !.probe = TRUE,
                                                            !.test = TRUE]]
         IN  {v} \cup
             UNION {{IF d.ok THEN d.w ELSE [d.w EXCEPT !.q[x] = NoQuery] :
                       d \in DotSend(test(x), x, s)} : x \in Fresh(v)}

\* out_start() over UDP or TCP: refused with udp_only where the server needs
\* TCP; 0 for a query that could not be sent.
StartPlain(v, t, s, tcp, udp_only, test) ==
    LET via == IF tcp \/ s \in TcpOnly THEN "tcp" ELSE "udp"
        sent(x) == [v EXCEPT !.q[x] = Asking(t, s, via)]
    IN  {[x |-> 0, w |-> v]} \cup
        (IF udp_only /\ via = "tcp" THEN {}
         ELSE UNION {{[x |-> x, w |-> d] :
                        d \in IF test THEN DotTest(sent(x), s) ELSE {sent(x)}} :
                       x \in Fresh(v)})

\* out_start(): over DoT where the server takes it and there is room, plain
\* otherwise, and plain with a copy over DoT where it is due a test.
OutStart(v, t, s, tcp, udp_only, no_dot) ==
    LET verdicts == IF udp_only \/ no_dot THEN {"plain"}
                    ELSE {"plain", "test", "use"}
        over(x) == [v EXCEPT !.q[x] = Asking(t, s, "dot")]
        unsent(d, x) == [d EXCEPT !.q[x] = NoQuery]
    IN  UNION {
          IF dot = "use" /\ CanSend(v, s)
          THEN {[x |-> 0, w |-> v]} \cup
               UNION {UNION {IF d.ok THEN {[x |-> x, w |-> d.w]}
                             ELSE StartPlain(unsent(d.w, x), t, s, tcp, FALSE, FALSE) :
                               d \in DotSend(over(x), x, s)} : x \in Fresh(v)}
          ELSE StartPlain(v, t, s, tcp, udp_only, dot = "test") : dot \in verdicts}

\* elpis_out_send()
OutSend(v, t, s, tcp) ==
    {[x |-> r.x, w |-> [r.w EXCEPT !.out[t] = r.x, !.again[t] = 0]] :
       r \in OutStart(Cancel(v, t), t, s, tcp, FALSE, FALSE)}

\* elpis_out_race(): beside a UDP query only.
OutRace(v, t, s) ==
    IF v.out[t] = 0 \/ v.race[t] # 0 THEN {v}
    ELSE IF v.q[v.out[t]].via # "udp" THEN {v}
    ELSE {IF r.x = 0 THEN r.w ELSE [r.w EXCEPT !.race[t] = r.x] :
            r \in OutStart(v, t, s, FALSE, TRUE, TRUE)}

\* elpis_out_probe()
OutProbe(v, t, s) ==
    {IF r.x = 0 THEN r.w ELSE ToProbe(r.w, r.x) :
       r \in OutStart(v, t, s, FALSE, TRUE, TRUE)}

\* The rest of send_query(): beside a plain query one race, and one probe of
\* the sweep, at addresses other than s.
Explore(v, t, s) ==
    LET raced == {v} \cup UNION {OutRace(v, t, a) : a \in Servers \ {s}}
        asked(r) == {s} \cup (IF r.race[t] = 0 THEN {} ELSE {r.q[r.race[t]].server})
    IN  IF v.q[v.out[t]].via = "dot" THEN {v}
        ELSE UNION {{r} \cup UNION {OutProbe(r, t, a) : a \in Servers \ asked(r)} :
                      r \in raced}

-----------------------------------------------------------------------------
(* The handlers.                                                            *)

\* elpis_task_step(): left, the servers not yet tried; below, the tasks whose
\* completion led here, t's descendants.
StepTask(t) == [fn |-> "step", t |-> t, left |-> Servers, below |-> {}]
FreeQuery(x) == [fn |-> "free", x |-> x]

Top(fn) == stack # <<>> /\ Head(stack).fn = fn

\* The handler at the top is done, after the calls in f.
Return(f) == stack' = f \o Tail(stack)

Stepping(t) ==
    \E i \in DOMAIN stack : stack[i].fn = "step" /\ stack[i].t = t

\* A task with nothing out is stepped: it is new, or a child it waited for is
\* done.
Start(t) ==
    /\ stack = <<>> /\ w.out[t] = 0
    /\ stack' = <<StepTask(t)>> /\ UNCHANGED w

\* elpis_task_step() in ELPIS_TS_SEND: a server not tried in this round is
\* asked; if the query cannot be sent, the next.
Ask ==
    /\ Top("step")
    /\ LET f == Head(stack) IN \E s \in f.left :
         \E r \in OutSend(w, f.t, s, FALSE) :
           IF r.x = 0
           THEN w' = r.w /\ Return(<<[f EXCEPT !.left = @ \ {s}]>>)
           ELSE w' \in Explore(r.w, f.t, s) /\ Return(<<>>)

\* The step ends without a query: the task is done, or waits for a child.  A
\* parent that waited for it may be stepped from here.
Rest ==
    /\ Top("step")
    /\ LET f == Head(stack)
           done == f.below \cup {f.t}
       IN  \/ Return(<<>>)
           \/ \E u \in Tasks \ done :
                /\ w.out[u] = 0 /\ ~Stepping(u)
                /\ Return(<<[StepTask(u) EXCEPT !.below = done]>>)
    /\ UNCHANGED w

\* task_deadline(), and any other end of a task that waits for a query.
Deadline(t) ==
    /\ stack = <<>> /\ w.out[t] # 0
    /\ w' = Cancel(w, t) /\ UNCHANGED stack

\* elpis_task_resend(), and elpis_resolver_on_error() if it fails; cookie: the
\* new query has had its retry.
Resend(v, t, s, tcp, cookie) ==
    {IF r.x = 0 THEN [w |-> r.w, call |-> <<StepTask(t)>>]
     ELSE [w |-> [r.w EXCEPT !.q[r.x].retry = cookie], call |-> <<>>] :
       r \in OutSend(v, t, s, tcp)}

\* handle_message(): what it leaves, and the calls still to make.
HandleMessage(v, x, m) ==
    LET q == v.q[x]
        t == q.task
        other == Other(v, t, x)
        unhooked == Unhook(v, t, x)
        alone == IF other = 0 THEN unhooked
                 ELSE [ToProbe(unhooked, other) EXCEPT !.out[t] = 0]
        freed == OutFree(alone, x)
    IN  CASE t = "none" -> {[w |-> OutFree(v, x), call |-> <<>>]}
          [] t # "none" /\ other # 0 /\ m \in {"unusable", "refusal"} ->
               {[w |-> OutFree(unhooked, x), call |-> <<>>]}
          [] t # "none" /\ (m = "garbled" \/ (m = "refusal" /\ other = 0)) ->
               Resend(freed, t, q.server, q.via # "udp", FALSE)
          [] t # "none" /\ m = "badcookie" /\ ~q.retry ->
               Resend(freed, t, q.server, FALSE, TRUE)
          [] t # "none" /\ m = "truncated" /\ q.via = "udp" ->
               Resend(freed, t, q.server, TRUE, FALSE)
          [] OTHER -> {[w |-> alone, call |-> <<StepTask(t), FreeQuery(x)>>]}

\* out_udp_event(), and out_tcp_event() with the whole answer read.
Answer(x) ==
    /\ stack = <<>> /\ w.q[x].via \in {"udp", "tcp"}
    /\ w.q[x].via = "tcp" => w.q[x].task # "none"
    /\ \E m \in Messages :
         \E r \in HandleMessage([w EXCEPT !.q[x].timer = FALSE], x, m) :
           w' = r.w /\ stack' = r.call

\* The last line of handle_message() and of the other handlers that step the
\* task first.
Free ==
    /\ Top("free")
    /\ w' = OutFree(w, Head(stack).x) /\ Return(<<>>)

\* tcp_fail()
TcpFail(x) ==
    LET t == w.q[x].task IN
    /\ stack = <<>> /\ w.q[x].via = "tcp" /\ t # "none"
    /\ w' = [w EXCEPT !.out[t] = 0, !.q[x].task = "none"]
    /\ stack' = <<StepTask(t), FreeQuery(x)>>

\* dot_timeout() for a query over DoT.  The safety net: the same question,
\* plain, of the same server.
DotTimeout(v, x) ==
    LET q == v.q[x]
        t == q.task
        off(d) == [d EXCEPT !.out[t] = 0, !.q[x].task = "none"]
        net(r) == OutFree([r.w EXCEPT !.q[x].task = "none", !.out[t] = r.x], x)
    IN  CASE t = "none" ->
               {[w |-> OutFree(v, x), call |-> <<>>]}
          [] t # "none" /\ v.out[t] # x ->
               {[w |-> OutFree([v EXCEPT !.q[x].task = "none"], x), call |-> <<>>]}
          [] OTHER ->
             {IF r.x = 0
              THEN [w |-> off(r.w), call |-> <<StepTask(t), FreeQuery(x)>>]
              ELSE [w |-> net(r), call |-> <<>>] :
                r \in OutStart(v, t, q.server, FALSE, FALSE, TRUE)}

\* Whether a query is listened for after its timer ran out.
Listens(q) == q.via = "udp"

\* Mutant: nothing ends the listening.
ListenOn_NoTimer(v, x) == [ToProbe(v, x) EXCEPT !.q[x].late = TRUE]

ListenOn(v, x) ==
    [ToProbe(v, x) EXCEPT !.q[x].late = TRUE, !.q[x].timer = TRUE]

StillWaited(v, t, x) == Other(v, t, x) # 0

\* out_timeout() for a plain query.
PlainTimeout(v, x) ==
    LET q == v.q[x]
        t == q.task
        udp == Listens(q)
        others == t # "none" /\ StillWaited(v, t, x)
        off == IF t = "none" THEN v ELSE Unhook(v, t, x)
        late == IF udp THEN ListenOn(off, x) ELSE off
    IN  CASE q.late -> [w |-> OutFree(v, x), call |-> <<>>]
          [] ~q.late /\ (t = "none" \/ others) ->
               [w |-> IF udp THEN late ELSE OutFree(late, x), call |-> <<>>]
          [] OTHER ->
               [w |-> late,
                call |-> <<StepTask(t)>> \o (IF udp THEN <<>> ELSE <<FreeQuery(x)>>)]

\* A query's timer runs out.
Timeout(x) ==
    LET v == [w EXCEPT !.q[x].timer = FALSE] IN
    /\ stack = <<>> /\ w.q[x].timer
    /\ \E r \in IF w.q[x].via = "dot" THEN DotTimeout(v, x) ELSE {PlainTimeout(v, x)} :
         w' = r.w /\ stack' = r.call

-----------------------------------------------------------------------------
(* The events of a DoT connection.                                          *)

\* conn_event() is entered.
Event(s) ==
    /\ stack = <<>> /\ w.conn[s].up
    /\ stack' = <<[fn |-> "event", s |-> s]>> /\ UNCHANGED w

\* on_open()
Opened ==
    LET s == Head(stack).s
        c == w.conn[s]
    IN
    /\ Top("event") /\ c.up /\ ~c.open
    /\ w' = [w EXCEPT !.conn[s] = [c EXCEPT !.open = TRUE, !.timer = c.pending = <<>>],
                      !.n_hs = @ - 1,
                      !.q = [x \in Queries |->
                               IF x \in Range(c.pending)
                               THEN [w.q[x] EXCEPT !.sent = TRUE] ELSE w.q[x]]]
    /\ UNCHANGED stack

\* One turn of drain(), and elpis_out_dot_message().
Drain ==
    LET s == Head(stack).s IN
    /\ Top("event") /\ w.conn[s].up /\ w.conn[s].open
    /\ \E x \in Range(w.conn[s].pending), m \in Messages :
         /\ w.q[x].sent
         /\ \E r \in HandleMessage([w EXCEPT !.conn[s].answers = TRUE,
                                             !.q[x].timer = FALSE], x, m) :
              w' = r.w /\ stack' = r.call \o stack

\* The first loop of conn_fail().
OffConn(v, list) ==
    [v EXCEPT !.q = [x \in Queries |-> IF x \in Range(list)
                                       THEN [v.q[x] EXCEPT !.conn = FALSE]
                                       ELSE v.q[x]]]

\* conn_fail(): the connection goes first, then its queries are handed back.
ConnFail(v, s) ==
    LET list == v.conn[s].pending
    IN  [w |-> ConnClose(OffConn(v, list), s),
         call |-> <<[fn |-> "back", list |-> list, lost |-> v.conn[s].answers]>>]

\* The peer closes, refuses, or breaks the protocol.
Lost ==
    LET s == Head(stack).s
        r == ConnFail(w, s)
    IN  /\ Top("event") /\ w.conn[s].up
        /\ \/ /\ w.conn[s].open /\ w.conn[s].pending = <<>>
              /\ w' = ConnClose(w, s) /\ Return(<<>>)
           \/ w' = r.w /\ Return(r.call)

\* conn_event() returns, everything read and written.
EventDone ==
    /\ Top("event") /\ Return(<<>>) /\ UNCHANGED w

\* conn_timer()
ConnTimer(s) ==
    LET r == ConnFail(w, s) IN
    /\ stack = <<>> /\ w.conn[s].timer
    /\ CASE ~w.conn[s].open -> w' = r.w /\ stack' = r.call
         [] w.conn[s].open /\ w.conn[s].pending = <<>> ->
              w' = ConnClose(w, s) /\ UNCHANGED stack
         [] OTHER -> w' = [w EXCEPT !.conn[s].timer = FALSE] /\ UNCHANGED stack

OverDotAgain(q, lost) == lost /\ ~q.resent

\* elpis_out_dot_failed(): sent again over DoT once if the connection had
\* worked, else plain.
DotFailed(v, x, lost) ==
    LET q == v.q[x]
        t == q.task
        off(d) == [d EXCEPT !.out[t] = 0, !.q[x].task = "none"]
        dot(r) == r.w.q[r.x].via = "dot"
        moved(r) == OutFree([r.w EXCEPT !.q[x].task = "none", !.out[t] = r.x,
                               !.again[t] = IF dot(r) THEN @ + 1 ELSE @,
                               !.q[r.x].resent = dot(r)], x)
    IN  IF (t # "none" => v.out[t] # x)
        THEN {[w |-> OutFree([v EXCEPT !.q[x].task = "none"], x), call |-> <<>>]}
        ELSE {IF r.x = 0
              THEN [w |-> off(r.w), call |-> <<StepTask(t), FreeQuery(x)>>]
              ELSE [w |-> moved(r), call |-> <<>>] :
                r \in OutStart(v, t, q.server, FALSE, FALSE, ~OverDotAgain(q, lost))}

\* The loop at the end of conn_fail().
HandBack ==
    LET f == Head(stack) IN
    /\ Top("back")
    /\ \/ f.list = <<>> /\ Return(<<>>) /\ UNCHANGED w
       \/ /\ f.list # <<>>
          /\ \E r \in DotFailed(w, Head(f.list), f.lost) :
               w' = r.w /\ Return(r.call \o <<[f EXCEPT !.list = Tail(@)]>>)

Next ==
    \/ \E t \in Tasks : Start(t) \/ Deadline(t)
    \/ \E x \in Queries : Answer(x) \/ TcpFail(x) \/ Timeout(x)
    \/ \E s \in Servers : Event(s) \/ ConnTimer(s)
    \/ Ask \/ Rest \/ Free \/ Opened \/ Drain \/ Lost \/ EventDone \/ HandBack

Spec == Init /\ [][Next]_vars

\* A handler runs to its end, a connection's in at most eight reads, and a
\* timer that is armed and not deleted runs out: the loop runs the timers that
\* are due on every turn, whatever else there is to do.
FairSpec ==
    /\ Spec
    /\ WF_vars(Ask \/ Rest \/ Free \/ HandBack)
    /\ SF_vars(EventDone)
    /\ \A x \in Queries : SF_vars(Timeout(x))
    /\ \A s \in Servers : SF_vars(ConnTimer(s))

-----------------------------------------------------------------------------
(* Properties.                                                              *)

TypeOK ==
    /\ w.q \in [Queries -> [via : {"none", "udp", "tcp", "dot"},
                            task : Tasks \cup {"none"},
                            server : Servers \cup {"none"},
                            conn : BOOLEAN, probe : BOOLEAN, late : BOOLEAN,
                            test : BOOLEAN, resent : BOOLEAN,
                            retry : BOOLEAN, sent : BOOLEAN, timer : BOOLEAN]]
    /\ w.out \in [Tasks -> Queries \cup {0}]
    /\ w.race \in [Tasks -> Queries \cup {0}]
    /\ \A s \in Servers : w.conn[s].pending \in Seq(Queries)
    /\ w.n_dot \in 0 .. DOT_MAX_CONNS /\ w.n_hs \in 0 .. DOT_MAX_HANDSHAKES
    /\ w.again \in [Tasks -> Nat]

\* A query points at a task exactly when the task points back at it, as its
\* query or its race and not both: no answer, timeout, hand-back or
\* cancellation leaves either with a pointer to freed memory (out_unhook(),
\* out_to_probe(), elpis_out_free(), the two hand-overs to a new query).
Hooked ==
    /\ \A t \in Tasks : LET o == w.out[t]
                            r == w.race[t]
                        IN  /\ \A x \in {o, r} \ {0} : w.q[x].task = t
                            /\ o # 0 => o # r
    /\ \A x \in Live(w) : w.q[x].task # "none" =>
         x \in {w.out[w.q[x].task], w.race[w.q[x].task]}

\* A query nobody waits for can still end by itself: over TCP it would wake
\* the loop for ever (out_tcp_event() returns at once without a task), so
\* between events only UDP probes and DoT tests are without one.
NoOrphans ==
    stack = <<>> => \A x \in Live(w) : w.q[x].task = "none" =>
                      /\ w.q[x].probe
                      /\ w.q[x].via = "udp" \/ w.q[x].test

\* A race is only ever beside a UDP query and is one itself, so a question
\* that goes over DoT has no plain twin from its own task (elpis_out_race(),
\* send_query()).
RacesOverUDP ==
    \A t \in Tasks : w.race[t] # 0 =>
      /\ w.out[t] # 0
      /\ w.q[w.out[t]].via = "udp" /\ w.q[w.race[t]].via = "udp"

\* A task is stepped only when it has nothing out, and not while it is being
\* stepped: the step would drop a query that is still good, or free the one
\* whose answer it is given (handle_message(), out_timeout(), tcp_fail(),
\* elpis_out_dot_failed(); the second query of a race keeps the task waiting).
SteppedIdle ==
    \A i \in DOMAIN stack : stack[i].fn = "step" =>
      /\ w.out[stack[i].t] = 0 /\ w.race[stack[i].t] = 0
      /\ \A j \in DOMAIN stack : stack[j].fn = "step" /\ stack[j].t = stack[i].t
                                   => j = i

\* Each connection's list is exactly the queries that point at it, once each,
\* and the two counters are what the table holds, whichever of the nine ways a
\* connection or a query on it ended (conn_close(), elpis_dot_detach()): a
\* counter that drifts up stops DoT for the worker for good.
Listed ==
    /\ \A s \in Servers :
         LET p == w.conn[s].pending
         IN  /\ IsInjective(p)
             /\ Range(p) = {x \in Live(w) : w.q[x].conn /\ w.q[x].server = s}
             /\ Len(p) <= DOT_MAX_PENDING
    /\ w.n_dot = Cardinality({s \in Servers : w.conn[s].up})
    /\ w.n_hs = Cardinality({s \in Servers : w.conn[s].up /\ ~w.conn[s].open})

\* Between events whatever waits has a timer: every query its own, a
\* connection in its handshake the handshake's, one with nothing on it the
\* idle one, and one in use none, its queries having theirs (out_timeout(),
\* elpis_dot_send(), elpis_dot_detach(), on_open()).
Timed ==
    stack = <<>> =>
      /\ \A x \in Live(w) : w.q[x].timer
      /\ \A s \in Servers : w.conn[s].timer <=>
           w.conn[s].up /\ (~w.conn[s].open \/ w.conn[s].pending = <<>>)

\* The list conn_fail() walks after the connection is gone never holds a
\* query that has been freed, or put on another connection, by the tasks that
\* were stepped on the way (elpis_out_dot_failed()).
WalkIsSafe ==
    \A i \in DOMAIN stack : stack[i].fn = "back" =>
      \A x \in Range(stack[i].list) : w.q[x].via = "dot" /\ ~w.q[x].conn

\* A question handed back from a lost connection is sent again over DoT once
\* and then plain, however often connections are lost, and whatever else the
\* task had out in between (dot_resent).
SentAgainOnce == \A t \in Tasks : w.again[t] <= 1

\* Every query is answered, handed over or given up on, and its memory and
\* its place on its connection come back.
Settles ==
    /\ \A x \in Queries : []<>(w.q[x].via = "none")
    /\ \A s \in Servers : []<>(w.conn[s].up => w.conn[s].open)
=============================================================================
