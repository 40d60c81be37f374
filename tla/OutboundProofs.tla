--------------------------- MODULE OutboundProofs ---------------------------
(***************************************************************************)
(* The queries a worker has out, for any number of tasks, servers and      *)
(* queries, and any limits on the DoT connections: pointers between tasks  *)
(* and queries agree, a task is stepped only when it has nothing out, and  *)
(* the list conn_fail() walks is safe.                                     *)
(*                                                                         *)
(* The argument: IInv of OutboundEdits is kept by every step, because each *)
(* of the calls it makes (OutboundCalls) keeps the worker's part of it and *)
(* does not touch what the frames below are about. The handlers nest three *)
(* deep at most: a step, the query to free after it, and the event or the  *)
(* walk they are called from (StackOK).                                    *)
(***************************************************************************)
EXTENDS OutboundCalls

-----------------------------------------------------------------------------
(* The chain of handlers.                                                   *)

\* A handler is called from what is already being run.
LEMMA Called ==
    ASSUME NEW S, NEW f \in S, NEW b \in Seq(S)
    PROVE  /\ <<f>> \o b \in Seq(S) /\ <<f>> \o b # <<>>
           /\ Head(<<f>> \o b) = f /\ Tail(<<f>> \o b) = b
OBVIOUS

\* Two are called one from the other.
LEMMA CalledTwice ==
    ASSUME NEW S, NEW f \in S, NEW g \in S, NEW u \in Seq(S)
    PROVE  <<f, g>> \o u = <<f>> \o (<<g>> \o u)
<1> DEFINE h == <<g>> \o u
           a == <<f, g>> \o u
           b == <<f>> \o h
<1>1. /\ h \in Seq(S) /\ Len(h) = 1 + Len(u) /\ Len(u) \in Nat
      /\ \A i \in 1..(1 + Len(u)) : h[i] = IF i = 1 THEN g ELSE u[i - 1]
  OBVIOUS
<1>2. /\ a \in Seq(S) /\ Len(a) = 2 + Len(u)
      /\ \A i \in 1..(2 + Len(u)) : a[i] = IF i = 1 THEN f ELSE IF i = 2 THEN g ELSE u[i - 2]
  OBVIOUS
<1> HIDE DEF h
<1>3. /\ b \in Seq(S) /\ Len(b) = 1 + Len(h)
      /\ \A i \in 1..(1 + Len(h)) : b[i] = IF i = 1 THEN f ELSE h[i - 1]
  BY <1>1
<1> HIDE DEF a, b
<1>4. ASSUME NEW i \in 1..Len(a) PROVE a[i] = b[i]
  <2>1. i \in 1..(2 + Len(u)) /\ i \in 1..(1 + Len(h)) /\ Len(u) \in Nat
    BY <1>1, <1>2
  <2>2. CASE i = 1
    BY <1>2, <1>3, <2>1, <2>2
  <2>3. CASE i # 1
    <3>1. i - 1 \in 1..(1 + Len(u)) /\ (i - 1 = 1 <=> i = 2) /\ (i - 1) - 1 = i - 2
      BY <2>1, <2>3
    <3>2. b[i] = h[i - 1]
      BY <1>3, <2>1, <2>3
    <3>3. h[i - 1] = IF i = 2 THEN g ELSE u[i - 2]
      BY <1>1, <3>1
    <3> QED BY <1>2, <2>1, <2>3, <3>2, <3>3
  <2> QED BY <2>2, <2>3
<1>5. Len(a) = Len(b)
  BY <1>1, <1>2, <1>3
<1>6. a = b
  BY <1>2, <1>3, <1>4, <1>5
<1> QED BY <1>6 DEF a, b, h

\* A frame is of the kind its name says.
LEMMA FrameKinds ==
    ASSUME NEW f \in Frame
    PROVE  /\ f.fn = "step" => f \in Steps /\ f.t \in Tasks
           /\ f.fn = "free" => f \in Frees /\ f.x \in Queries
           /\ f.fn = "event" => f \in Events /\ f.s \in Servers
           /\ f.fn = "back" => f \in Backs /\ f.list \in Seq(Queries) /\ f.lost \in BOOLEAN
BY DEF Frame, Steps, Frees, Events, Backs

\* Nothing runs.
LEMMA EmptyStack ==
    ASSUME NEW v
    PROVE  BaseOK(v, <<>>) /\ RestOK(v, <<>>) /\ StackOK(v, <<>>) /\ <<>> \in Seq(Frame)
BY DEF BaseOK, RestOK, StackOK

\* What can be under a query to free can be on top, and so can what is under
\* a step.
LEMMA Under ==
    ASSUME NEW v, NEW r \in Seq(Frame)
    PROVE  /\ BaseOK(v, r) => RestOK(v, r)
           /\ RestOK(v, r) => StackOK(v, r)
<1>1. ASSUME BaseOK(v, r), r # <<>> PROVE Head(r).fn \notin {"free", "step"}
  BY <1>1 DEF BaseOK, Events, Backs
<1>2. BaseOK(v, r) => RestOK(v, r)
  BY <1>1 DEF RestOK
<1>3. ASSUME RestOK(v, r) PROVE StackOK(v, r)
  <2>1. CASE r # <<>> /\ Head(r).fn = "free"
    BY <1>3, <2>1 DEF StackOK
  <2>2. CASE ~(r # <<>> /\ Head(r).fn = "free")
    BY <1>1, <1>3, <2>2 DEF StackOK, RestOK
  <2> QED BY <2>1, <2>2
<1> QED BY <1>2, <1>3

\* A step of a task with nothing out.
LEMMA PushStep ==
    ASSUME NEW v, NEW f \in Steps, NothingOut(v, f.t), NEW r \in Seq(Frame), RestOK(v, r)
    PROVE  <<f>> \o r \in Seq(Frame) /\ StackOK(v, <<f>> \o r)
<1>1. f \in Frame /\ f.fn = "step"
  BY DEF Steps, Frame
<1>2. /\ <<f>> \o r \in Seq(Frame) /\ <<f>> \o r # <<>>
      /\ Head(<<f>> \o r) = f /\ Tail(<<f>> \o r) = r
  BY <1>1, Called
<1> QED BY <1>1, <1>2, Zenon DEF StackOK

\* A query that is nobody's, to free.
LEMMA PushFree ==
    ASSUME NEW v, NEW x \in Queries, NEW b \in Seq(Frame), FreeOK(v, x, b), BaseOK(v, b)
    PROVE  <<FreeQuery(x)>> \o b \in Seq(Frame) /\ RestOK(v, <<FreeQuery(x)>> \o b)
<1> DEFINE f == FreeQuery(x)
<1>1. f \in Frame /\ f.fn = "free" /\ f.x = x
  BY DEF FreeQuery, Frees, Frame
<1> HIDE DEF f
<1>2. /\ <<f>> \o b \in Seq(Frame) /\ <<f>> \o b # <<>>
      /\ Head(<<f>> \o b) = f /\ Tail(<<f>> \o b) = b
  BY <1>1, Called
<1>3. <<f>> \o b \in Seq(Frame) /\ RestOK(v, <<f>> \o b)
  BY <1>1, <1>2, Zenon DEF RestOK
<1> QED BY <1>3 DEF f

\* A step as it is called.
LEMMA StepFrame ==
    ASSUME NEW t \in Tasks
    PROVE  StepTask(t) \in Steps /\ StepTask(t).t = t
BY DEF StepTask, Steps

\* x is not on the list being walked.
OffWalk(b, x) == b # <<>> /\ Head(b).fn = "back" => x \notin Range(Head(b).list)

\* The calls a handler leaves to be made, from where it was called.
LEMMA CallStack ==
    ASSUME NEW v, NEW x \in Queries, NEW c, CallOK(v, x, c), NEW b \in Seq(Frame),
           BaseOK(v, b), OffWalk(b, x)
    PROVE  c \o b \in Seq(Frame) /\ StackOK(v, c \o b)
<1>1. CASE c = <<>>
  <2>1. c \o b = b
    BY <1>1
  <2> QED BY <2>1, Under
<1>2. CASE c # <<>>
  <2>1. PICK t \in Tasks :
          /\ NothingOut(v, t)
          /\ \/ c = <<StepTask(t)>>
             \/ /\ c = <<StepTask(t), FreeQuery(x)>>
                /\ v.q[x].via # "none" /\ v.q[x].task = "none"
    BY <1>2 DEF CallOK
  <2>2. StepTask(t) \in Steps /\ StepTask(t).t = t
    BY StepFrame
  <2>3. CASE c = <<StepTask(t)>>
    BY <2>1, <2>2, <2>3, Under, PushStep
  <2>4. CASE c = <<StepTask(t), FreeQuery(x)>> /\ v.q[x].via # "none" /\ v.q[x].task = "none"
    <3> DEFINE f == StepTask(t)
               g == FreeQuery(x)
    <3>1. FreeOK(v, x, b)
      BY <2>4 DEF FreeOK, OffWalk
    <3>2. <<g>> \o b \in Seq(Frame) /\ RestOK(v, <<g>> \o b)
      BY <3>1, PushFree
    <3>3. f \in Frame /\ g \in Frame
      BY <2>2 DEF Frame, FreeQuery, Frees
    <3> HIDE DEF f, g
    <3>4. c \o b = <<f>> \o (<<g>> \o b)
      <4>1. c = <<f, g>>
        BY <2>4 DEF f, g
      <4> QED BY <3>3, <4>1, CalledTwice
    <3>5. <<f>> \o (<<g>> \o b) \in Seq(Frame) /\ StackOK(v, <<f>> \o (<<g>> \o b))
      BY <2>1, <2>2, <3>2, PushStep, Zenon DEF f
    <3> QED BY <3>4, <3>5, Zenon
  <2> QED BY <2>1, <2>3, <2>4
<1> QED BY <1>1, <1>2

\* What the top of the chain is, and what is under it.
LEMMA TopOf ==
    ASSUME NEW v, NEW k \in Seq(Frame), StackOK(v, k), k # <<>>
    PROVE  /\ Head(k) \in Frame /\ Tail(k) \in Seq(Frame)
           /\ Head(k).fn = "step" => NothingOut(v, Head(k).t) /\ RestOK(v, Tail(k))
           /\ Head(k).fn = "free" => FreeOK(v, Head(k).x, Tail(k)) /\ BaseOK(v, Tail(k))
           /\ Head(k).fn \in {"event", "back"} => Tail(k) = <<>>
           /\ Head(k).fn = "back" => Walked(v, Head(k).list)
<1>1. Head(k) \in Frame /\ Tail(k) \in Seq(Frame)
  OBVIOUS
<1>2. Head(k).fn = "step" => NothingOut(v, Head(k).t) /\ RestOK(v, Tail(k))
  BY DEF StackOK
<1>3. Head(k).fn # "step" => RestOK(v, k)
  BY DEF StackOK
<1>4. Head(k).fn = "free" => FreeOK(v, Head(k).x, Tail(k)) /\ BaseOK(v, Tail(k))
  BY <1>3 DEF RestOK
<1>5. Head(k).fn \in {"event", "back"} => BaseOK(v, k)
  BY <1>3 DEF RestOK
<1>6. Head(k).fn \in {"event", "back"} => Tail(k) = <<>>
  BY <1>5 DEF BaseOK
<1>7. Head(k).fn = "back" => Walked(v, Head(k).list)
  BY <1>5 DEF BaseOK
<1> QED BY <1>1, <1>2, <1>4, <1>6, <1>7

\* A list being walked does not notice what happens to a query not on it.
LEMMA WalkedOthers ==
    ASSUME NEW v, NEW u, NEW x, Others(v, u, x), NEW list \in Seq(Queries),
           Walked(v, list), x \notin Range(list)
    PROVE  Walked(u, list)
<1>1. Range(list) \subseteq Queries
  BY InSeq
<1>2. ASSUME NEW y \in Range(list) PROVE u.q[y].via = "dot" /\ ~u.q[y].conn
  <2>1. v.q[y].via = "dot" /\ ~v.q[y].conn /\ y \in Queries \ {x}
    BY <1>1, <1>2 DEF Walked
  <2>2. u.q[y] = v.q[y]
    BY <2>1 DEF Others
  <2> QED BY <2>1, <2>2
<1> QED BY <1>2 DEF Walked

\* Nor does the event it is called from.
LEMMA BaseOthers ==
    ASSUME NEW v, NEW u, NEW x, Others(v, u, x), NEW b \in Seq(Frame), BaseOK(v, b),
           OffWalk(b, x)
    PROVE  BaseOK(u, b)
<1> SUFFICES ASSUME b # <<>>, Head(b).fn = "back" PROVE Walked(u, Head(b).list)
  BY DEF BaseOK
<1>1. Walked(v, Head(b).list) /\ x \notin Range(Head(b).list)
  BY DEF BaseOK, OffWalk
<1>2. Head(b).list \in Seq(Queries)
  <2>1. Head(b) \in Frame
    OBVIOUS
  <2> QED BY <2>1, FrameKinds
<1> QED BY <1>1, <1>2, WalkedOthers

\* What a step sends, the frames under it do not notice.
LEMMA RestUntouched ==
    ASSUME NEW v, NEW u, Untouched(v, u), NEW r \in Seq(Frame), RestOK(v, r)
    PROVE  RestOK(u, r)
<1>1. Others(v, u, 0)
  BY DEF Untouched, Others
<1>2. ASSUME NEW b \in Seq(Frame), BaseOK(v, b) PROVE BaseOK(u, b)
  <2> SUFFICES ASSUME b # <<>>, Head(b).fn = "back" PROVE Walked(u, Head(b).list)
    BY <1>2 DEF BaseOK
  <2>1. Head(b).list \in Seq(Queries)
    <3>1. Head(b) \in Frame
      BY <1>2
    <3> QED BY <3>1, FrameKinds
  <2>2. 0 \notin Range(Head(b).list)
    <3>1. Range(Head(b).list) \subseteq Queries
      BY <2>1, InSeq
    <3> QED BY <3>1, OutboundAssumption
  <2>3. Walked(v, Head(b).list)
    BY <1>2 DEF BaseOK
  <2> QED BY <1>1, <2>1, <2>2, <2>3, WalkedOthers
<1>3. CASE r # <<>> /\ Head(r).fn = "free"
  <2> DEFINE x == Head(r).x
             b == Tail(r)
  <2>1. b \in Seq(Frame) /\ Head(r) \in Frame
    BY <1>3
  <2>2. x \in Queries
    BY <1>3, <2>1, FrameKinds
  <2>3. FreeOK(v, x, b) /\ BaseOK(v, b)
    BY <1>3 DEF RestOK
  <2> HIDE DEF x, b
  <2>4. FreeOK(u, x, b)
    BY <2>2, <2>3 DEF FreeOK, Untouched
  <2>5. BaseOK(u, b)
    BY <1>2, <2>1, <2>3
  <2> QED BY <1>3, <2>4, <2>5 DEF RestOK, x, b
<1>4. CASE ~(r # <<>> /\ Head(r).fn = "free")
  <2>1. BaseOK(v, r)
    BY <1>4 DEF RestOK
  <2> QED BY <1>2, <1>4, <2>1 DEF RestOK
<1> QED BY <1>3, <1>4

-----------------------------------------------------------------------------
(* The actions.                                                             *)

Sound(v, k) == Good(v) /\ k \in Seq(Frame) /\ StackOK(v, k)

\* A new task, or one whose child is done.
LEMMA StartStep ==
    ASSUME Sound(w, stack), NEW t \in Tasks, Start(t)
    PROVE  Sound(w', stack')
<1>1. Good(w) /\ w' = w /\ w.out[t] = 0 /\ stack' = <<StepTask(t)>>
  BY DEF Sound, Start
<1>2. NothingOut(w, t)
  BY <1>1 DEF Good, Hooks, NothingOut
<1>3. CallOK(w, 0, stack')
  BY <1>1, <1>2 DEF CallOK
<1>4. StepTask(t) \in Steps /\ StepTask(t).t = t
  BY StepFrame
<1>5. stack' = <<StepTask(t)>> \o <<>>
  BY <1>1
<1>6. stack' \in Seq(Frame) /\ StackOK(w, stack')
  BY <1>2, <1>4, <1>5, EmptyStack, PushStep, Zenon
<1> QED BY <1>1, <1>6 DEF Sound

\* The calls left by a handler that was called from the loop.
LEMMA FromLoop ==
    ASSUME NEW v, Good(v), NEW x \in Queries, NEW c, CallOK(v, x, c)
    PROVE  Sound(v, c)
<1>1. c \o <<>> \in Seq(Frame) /\ StackOK(v, c \o <<>>)
  BY EmptyStack, CallStack, Zenon DEF OffWalk
<1>2. c \o <<>> = c
  BY DEF CallOK
<1> QED BY <1>1, <1>2 DEF Sound

\* task_deadline()
LEMMA DeadlineStep ==
    ASSUME Sound(w, stack), NEW t \in Tasks, Deadline(t)
    PROVE  Sound(w', stack')
<1>1. Good(w) /\ w' = Cancel(w, t) /\ stack' = <<>>
  BY DEF Sound, Deadline
<1>2. Good(w')
  BY <1>1, CancelOp DEF Good
<1> QED BY <1>1, <1>2, EmptyStack DEF Sound

\* An answer over UDP or TCP.
LEMMA AnswerStep ==
    ASSUME Sound(w, stack), NEW x \in Queries, Answer(x)
    PROVE  Sound(w', stack')
<1> DEFINE v == [w EXCEPT !.q[x].timer = FALSE]
<1>1. Good(w) /\ w.q[x].via # "none"
  BY DEF Sound, Answer
<1>2. PICK m \in Messages : \E r \in HandleMessage(v, x, m) : w' = r.w /\ stack' = r.call
  BY DEF Answer
<1>3. PICK r \in HandleMessage(v, x, m) : w' = r.w /\ stack' = r.call
  BY <1>2
<1>4. Good(v) /\ v.q[x].via = w.q[x].via
  BY <1>1, TimerOp
<1> HIDE DEF v
<1>5. Good(r.w) /\ CallOK(r.w, x, r.call)
  BY <1>1, <1>3, <1>4, HandleMessageOp
<1> QED BY <1>3, <1>5, FromLoop

\* A query's timer runs out.
LEMMA TimeoutStep ==
    ASSUME Sound(w, stack), NEW x \in Queries, Timeout(x)
    PROVE  Sound(w', stack')
<1> DEFINE v == [w EXCEPT !.q[x].timer = FALSE]
<1>1. Good(w)
  BY DEF Sound
<1>2. Good(v) /\ v.q[x].via = w.q[x].via
  BY <1>1, TimerOp
<1>3. PICK r \in IF w.q[x].via = "dot" THEN DotTimeout(v, x) ELSE {PlainTimeout(v, x)} :
        w' = r.w /\ stack' = r.call
  BY DEF Timeout
<1> HIDE DEF v
<1>4. CASE w.q[x].via = "dot"
  <2>1. r \in DotTimeout(v, x)
    BY <1>3, <1>4
  <2>2. Good(r.w) /\ CallOK(r.w, x, r.call)
    BY <1>2, <1>4, <2>1, DotTimeoutOp
  <2> QED BY <1>3, <2>2, FromLoop
<1>5. CASE w.q[x].via # "dot"
  <2>1. r = PlainTimeout(v, x)
    BY <1>3, <1>5
  <2>2. Good(r.w) /\ CallOK(r.w, x, r.call)
    BY <1>2, <2>1, PlainTimeoutOp
  <2> QED BY <1>3, <2>2, FromLoop
<1> QED BY <1>4, <1>5

\* tcp_fail()
LEMMA TcpFailStep ==
    ASSUME Sound(w, stack), NEW x \in Queries, TcpFail(x)
    PROVE  Sound(w', stack')
<1> DEFINE t == w.q[x].task
           u == PointOut(w, t, 0, x)
<1>1. Good(w) /\ w.q[x].via = "tcp" /\ t # "none" /\ w' = u
      /\ stack' = <<StepTask(t), FreeQuery(x)>>
  BY DEF Sound, TcpFail, PointOut
<1>2. /\ Good(u) /\ t \in Tasks /\ NothingOut(u, t)
      /\ u.q[x].via # "none" /\ u.q[x].task = "none"
  BY <1>1, TcpFailOp, Zenon
<1> HIDE DEF u, t
<1>3. CallOK(u, x, stack')
  BY <1>1, <1>2 DEF CallOK
<1> QED BY <1>1, <1>2, <1>3, FromLoop

\* conn_event() is entered.
LEMMA EventStep ==
    ASSUME Sound(w, stack), NEW s \in Servers, Event(s)
    PROVE  Sound(w', stack')
<1> DEFINE f == [fn |-> "event", s |-> s]
<1>1. Good(w) /\ w' = w /\ stack' = <<f>>
  BY DEF Sound, Event
<1>2. f \in Events /\ f \in Frame /\ f.fn = "event"
  BY DEF Events, Frame
<1> HIDE DEF f
<1>3. <<f>> \in Seq(Frame) /\ Head(<<f>>) = f /\ Tail(<<f>>) = <<>>
  BY <1>2
<1>4. BaseOK(w, <<f>>)
  BY <1>2, <1>3 DEF BaseOK
<1> QED BY <1>1, <1>3, <1>4, Under, Zenon DEF Sound

\* A list that is walked from the loop or from an event.
LEMMA BackStack ==
    ASSUME NEW v, Good(v), NEW list \in Seq(Queries), NEW lost \in BOOLEAN, Walked(v, list)
    PROVE  LET f == [fn |-> "back", list |-> list, lost |-> lost]
           IN  Sound(v, <<f>>) /\ BaseOK(v, <<f>>) /\ <<f>> \in Seq(Frame) /\ f \in Backs
<1> DEFINE f == [fn |-> "back", list |-> list, lost |-> lost]
<1>1. f \in Backs /\ f.list = list /\ f \in Frame
  BY DEF Backs, Frame
<1> HIDE DEF f
<1>2. <<f>> \in Seq(Frame) /\ Head(<<f>>) = f /\ Tail(<<f>>) = <<>>
  BY <1>1
<1>3. BaseOK(v, <<f>>)
  BY <1>1, <1>2 DEF BaseOK
<1>4. Sound(v, <<f>>)
  BY <1>2, <1>3, Under, Zenon DEF Sound
<1> QED BY <1>1, <1>2, <1>3, <1>4 DEF f

\* conn_fail(), from the loop.
LEMMA FailStep ==
    ASSUME NEW v, Good(v), NEW s \in Servers
    PROVE  Sound(ConnFail(v, s).w, ConnFail(v, s).call)
<1> DEFINE u == ConnFail(v, s).w
           list == v.conn[s].pending
           lost == v.conn[s].answers
<1>1. /\ Good(u) /\ list \in Seq(Queries) /\ Walked(u, list) /\ lost \in BOOLEAN
      /\ ConnFail(v, s).call = <<[fn |-> "back", list |-> list, lost |-> lost]>>
  BY ConnFailOp
<1> HIDE DEF u, list, lost
<1>2. Sound(u, <<[fn |-> "back", list |-> list, lost |-> lost]>>)
  BY <1>1, BackStack
<1> QED BY <1>1, <1>2 DEF u

\* conn_timer()
LEMMA ConnTimerStep ==
    ASSUME Sound(w, stack), NEW s \in Servers, ConnTimer(s)
    PROVE  Sound(w', stack')
<1>1. Good(w) /\ stack = <<>>
  BY DEF Sound, ConnTimer
<1>2. \/ w' = ConnFail(w, s).w /\ stack' = ConnFail(w, s).call
      \/ w' = ConnClose(w, s) /\ stack' = stack
      \/ w' = [w EXCEPT !.conn[s].timer = FALSE] /\ stack' = stack
  BY DEF ConnTimer
<1>3. CASE w' = ConnFail(w, s).w /\ stack' = ConnFail(w, s).call
  BY <1>1, <1>3, FailStep
<1>4. CASE w' = ConnClose(w, s) /\ stack' = stack
  <2>1. Good(w')
    <3> DEFINE u == ConnClose(w, s)
    <3>1. Kept(w, u) /\ u.q = w.q
      BY <1>1, CloseOp DEF Good
    <3> HIDE DEF u
    <3>2. Hooks(u)
      BY <1>1, <3>1, SameHooked DEF SameHooks, Good, Kept
    <3> QED BY <1>4, <3>1, <3>2 DEF Good, Kept, u
  <2> QED BY <1>1, <1>4, <2>1, EmptyStack DEF Sound
<1>5. CASE w' = [w EXCEPT !.conn[s].timer = FALSE] /\ stack' = stack
  <2> DEFINE c == [w.conn[s] EXCEPT !.timer = FALSE]
  <2>1. w.conn[s] \in Conn
    BY <1>1, WorkerParts DEF Good
  <2>2. c \in Conn /\ c.pending = w.conn[s].pending
    BY <2>1, Zenon DEF Conn
  <2>3. w' = [w EXCEPT !.conn[s] = c]
    BY <1>5
  <2> HIDE DEF c
  <2>4. Good(w')
    BY <1>1, <2>2, <2>3, EditConn
  <2> QED BY <1>1, <1>5, <2>4, EmptyStack DEF Sound
<1> QED BY <1>2, <1>3, <1>4, <1>5

\* elpis_task_step() asks a server.
LEMMA AskStep ==
    ASSUME Sound(w, stack), Ask
    PROVE  Sound(w', stack')
<1> DEFINE f == Head(stack)
           rest == Tail(stack)
<1>1. Good(w) /\ stack \in Seq(Frame) /\ StackOK(w, stack) /\ stack # <<>> /\ f.fn = "step"
  BY DEF Sound, Ask, Top
<1>2. f \in Frame /\ rest \in Seq(Frame) /\ NothingOut(w, f.t) /\ RestOK(w, rest)
  BY <1>1, TopOf
<1>3. f \in Steps /\ f.t \in Tasks
  BY <1>1, <1>2, FrameKinds
<1>4. PICK s \in f.left : \E r \in OutSend(w, f.t, s, FALSE) :
        IF r.x = 0
        THEN w' = r.w /\ stack' = <<[f EXCEPT !.left = f.left \ {s}]>> \o rest
        ELSE w' \in Explore(r.w, f.t, s) /\ stack' = <<>> \o rest
  BY Zenon DEF Ask, Return
<1>5. PICK r \in OutSend(w, f.t, s, FALSE) :
        IF r.x = 0
        THEN w' = r.w /\ stack' = <<[f EXCEPT !.left = f.left \ {s}]>> \o rest
        ELSE w' \in Explore(r.w, f.t, s) /\ stack' = <<>> \o rest
  BY <1>4, Zenon
<1>6. s \in Servers
  BY <1>3, <1>4 DEF Steps
<1> HIDE DEF f, rest
<1>7. /\ r.w \in Worker /\ Connected(r.w) /\ Hooks(r.w) /\ Untouched(w, r.w)
      /\ r.x \in Queries \cup {0} /\ r.w.out[f.t] = r.x /\ r.w.race[f.t] = 0
  <2>1. w \in Worker /\ Connected(w) /\ Hooks(w)
    BY <1>1 DEF Good
  <2> DEFINE tcp == FALSE
             t == f.t
  <2>2. r \in OutSend(w, t, s, tcp) /\ t \in Tasks /\ NothingOut(w, t)
    BY <1>2, <1>3, <1>5, Zenon
  <2> HIDE DEF tcp, t
  <2>3. /\ r.w \in Worker /\ Connected(r.w) /\ Hooks(r.w) /\ Untouched(w, r.w)
        /\ r.x \in Queries \cup {0} /\ r.w.out[t] = r.x /\ r.w.race[t] = 0
    BY <1>6, <2>1, <2>2, SendOp
  <2> QED BY <2>3 DEF t
<1>8. CASE r.x = 0
  <2> DEFINE g == [f EXCEPT !.left = f.left \ {s}]
  <2>1. g \in Steps /\ g.t = f.t
    BY <1>3 DEF Steps
  <2>2. w' = r.w /\ stack' = <<g>> \o rest
    BY <1>5, <1>8, Zenon
  <2> HIDE DEF g
  <2>3. NothingOut(r.w, g.t) /\ RestOK(r.w, rest)
    BY <1>2, <1>7, <1>8, <2>1, RestUntouched DEF NothingOut
  <2>4. <<g>> \o rest \in Seq(Frame) /\ StackOK(r.w, <<g>> \o rest)
    BY <1>2, <2>1, <2>3, PushStep
  <2> QED BY <1>7, <2>2, <2>4 DEF Sound, Good
<1>9. CASE r.x # 0
  <2>1. w' \in Explore(r.w, f.t, s) /\ stack' = rest
    BY <1>2, <1>5, <1>9
  <2>2. Good(w') /\ Untouched(r.w, w')
    BY <1>3, <1>6, <1>7, <2>1, ExploreOp DEF Good
  <2>3. Untouched(w, w')
    BY <1>7, <2>2 DEF Untouched
  <2>4. RestOK(w', rest)
    BY <1>2, <2>3, RestUntouched
  <2> QED BY <1>2, <2>1, <2>2, <2>4, Under DEF Sound
<1> QED BY <1>8, <1>9

\* A step ends without a query.
LEMMA RestStep ==
    ASSUME Sound(w, stack), Rest
    PROVE  Sound(w', stack')
<1> DEFINE f == Head(stack)
           rest == Tail(stack)
           done == f.below \cup {f.t}
<1>1. /\ Good(w) /\ stack \in Seq(Frame) /\ StackOK(w, stack) /\ stack # <<>> /\ f.fn = "step"
      /\ w' = w
  BY DEF Sound, Rest, Top
<1>2. f \in Frame /\ rest \in Seq(Frame) /\ NothingOut(w, f.t) /\ RestOK(w, rest)
  BY <1>1, TopOf
<1>3. f.below \subseteq Tasks /\ f.t \in Tasks
  BY <1>1, <1>2, FrameKinds DEF Steps
<1>4. \/ stack' = <<>> \o rest
      \/ \E u \in Tasks \ done :
           w.out[u] = 0 /\ stack' = <<[StepTask(u) EXCEPT !.below = done]>> \o rest
  BY Zenon DEF Rest, Return
<1>5. done \subseteq Tasks
  BY <1>3
<1> HIDE DEF f, rest, done
<1>6. CASE stack' = <<>> \o rest
  <2>1. stack' = rest
    BY <1>2, <1>6
  <2> QED BY <1>1, <1>2, <2>1, Under DEF Sound
<1>7. CASE \E u \in Tasks \ done :
             w.out[u] = 0 /\ stack' = <<[StepTask(u) EXCEPT !.below = done]>> \o rest
  <2>1. PICK u \in Tasks \ done :
          w.out[u] = 0 /\ stack' = <<[StepTask(u) EXCEPT !.below = done]>> \o rest
    BY <1>7, Zenon
  <2> DEFINE g == [StepTask(u) EXCEPT !.below = done]
  <2>2. g \in Steps /\ g.t = u
    BY <1>5 DEF StepTask, Steps
  <2>3. stack' = <<g>> \o rest
    BY <2>1
  <2> HIDE DEF g
  <2>4. NothingOut(w, g.t)
    BY <1>1, <2>1, <2>2, SMTT(60) DEF Good, Hooks, NothingOut
  <2>5. <<g>> \o rest \in Seq(Frame) /\ StackOK(w, <<g>> \o rest)
    BY <1>2, <2>2, <2>4, PushStep
  <2> QED BY <1>1, <2>3, <2>5 DEF Sound
<1> QED BY <1>4, <1>6, <1>7

\* The query that led to a step is freed.
LEMMA FreeStep ==
    ASSUME Sound(w, stack), Free
    PROVE  Sound(w', stack')
<1> DEFINE f == Head(stack)
           b == Tail(stack)
           x == f.x
           u == OutFree(w, x)
<1>1. /\ Good(w) /\ stack \in Seq(Frame) /\ StackOK(w, stack) /\ stack # <<>> /\ f.fn = "free"
      /\ w' = u /\ stack' = <<>> \o b
  BY DEF Sound, Free, Top, Return
<1>2. f \in Frame /\ b \in Seq(Frame) /\ FreeOK(w, x, b) /\ BaseOK(w, b)
  BY <1>1, TopOf
<1>3. x \in Queries
  BY <1>1, <1>2, FrameKinds
<1>4. w.q[x].task = "none" /\ OffWalk(b, x)
  BY <1>2 DEF FreeOK, OffWalk
<1>5. stack' = b
  BY <1>1, <1>2
<1> HIDE DEF f, b, x
<1>6. Good(u) /\ Others(w, u, x)
  <2>1. Others(w, w, x)
    BY DEF Others
  <2> QED BY <1>1, <1>3, <1>4, <2>1, FreeOver
<1> HIDE DEF u
<1>7. BaseOK(u, b)
  BY <1>2, <1>4, <1>6, BaseOthers
<1> QED BY <1>1, <1>2, <1>5, <1>6, <1>7, Under DEF Sound

\* A connection's event, and nothing else, is being run.
LEMMA EventTop ==
    ASSUME Sound(w, stack), Top("event")
    PROVE  /\ Good(w) /\ stack \in Seq(Frame) /\ Tail(stack) = <<>> /\ stack # <<>>
           /\ Head(stack) \in Events /\ Head(stack).fn = "event" /\ Head(stack).s \in Servers
           /\ \A v : BaseOK(v, stack)
<1>1. Good(w) /\ stack \in Seq(Frame) /\ StackOK(w, stack) /\ stack # <<>> /\ Head(stack).fn = "event"
  BY DEF Sound, Top
<1>2. Head(stack) \in Frame /\ Tail(stack) = <<>>
  BY <1>1, TopOf
<1>3. Head(stack) \in Events /\ Head(stack).s \in Servers
  BY <1>1, <1>2, FrameKinds
<1>4. \A v : BaseOK(v, stack)
  BY <1>1, <1>2, <1>3 DEF BaseOK
<1> QED BY <1>1, <1>2, <1>3, <1>4

\* on_open()
LEMMA OpenedStep ==
    ASSUME Sound(w, stack), Opened
    PROVE  Sound(w', stack')
<1> DEFINE s == Head(stack).s
           L == Range(w.conn[s].pending)
           b == (w.conn[s].pending = <<>>)
<1>1. Good(w) /\ s \in Servers /\ stack \in Seq(Frame) /\ \A v : BaseOK(v, stack)
  BY EventTop DEF Opened
<1>2. /\ stack' = stack
      /\ w' = OpenWith(w, s, b, L)
  BY DEF Opened, OpenWith
<1>3. b \in BOOLEAN
  OBVIOUS
<1> HIDE DEF s, L, b
<1>4. Good(w')
  BY <1>1, <1>2, <1>3, OpenedOp
<1> QED BY <1>1, <1>2, <1>4, Under DEF Sound

\* One turn of drain().
LEMMA DrainStep ==
    ASSUME Sound(w, stack), Drain
    PROVE  Sound(w', stack')
<1> DEFINE s == Head(stack).s
           v(x) == [w EXCEPT !.conn[s].answers = TRUE, !.q[x].timer = FALSE]
<1>1. /\ Good(w) /\ s \in Servers /\ stack \in Seq(Frame) /\ (\A u : BaseOK(u, stack))
      /\ Head(stack).fn = "event"
  BY EventTop DEF Drain
<1>2. PICK x \in Range(w.conn[s].pending), m \in Messages :
        \E r \in HandleMessage(v(x), x, m) : w' = r.w /\ stack' = r.call \o stack
  BY Zenon DEF Drain
<1>3. PICK r \in HandleMessage(v(x), x, m) : w' = r.w /\ stack' = r.call \o stack
  BY <1>2, Zenon
<1>4. x \in Queries /\ w.q[x].via = "dot"
  <2>1. w.conn[s].pending \in Seq(Queries)
    BY <1>1, WorkerParts DEF Good, Conn
  <2>2. Range(w.conn[s].pending) \subseteq Queries
    BY <2>1, InSeq
  <2>3. x \in Range(w.conn[s].pending)
    BY <1>2
  <2> QED BY <1>1, <2>2, <2>3, SMTT(60) DEF Good, Connected
<1>5. Good(v(x)) /\ v(x).q[x].via = w.q[x].via
  BY <1>1, <1>4, DrainOp, Zenon
<1> HIDE DEF s, v
<1>6. Good(r.w) /\ CallOK(r.w, x, r.call)
  BY <1>3, <1>4, <1>5, HandleMessageOp
<1>7. OffWalk(stack, x)
  BY <1>1 DEF OffWalk
<1>8. r.call \o stack \in Seq(Frame) /\ StackOK(r.w, r.call \o stack)
  BY <1>1, <1>4, <1>6, <1>7, CallStack
<1> QED BY <1>3, <1>6, <1>8 DEF Sound

\* conn_event() finds the connection closed.
LEMMA LostStep ==
    ASSUME Sound(w, stack), Lost
    PROVE  Sound(w', stack')
<1> DEFINE s == Head(stack).s
           r == ConnFail(w, s)
<1>1. Good(w) /\ s \in Servers /\ Tail(stack) = <<>>
  BY EventTop DEF Lost
<1>2. \/ w' = ConnClose(w, s) /\ stack' = <<>> \o Tail(stack)
      \/ w' = r.w /\ stack' = r.call \o Tail(stack)
  BY Zenon DEF Lost, Return
<1>3. CASE w' = ConnClose(w, s) /\ stack' = <<>> \o Tail(stack)
  <2> DEFINE u == ConnClose(w, s)
  <2> HIDE DEF s
  <2>1. Kept(w, u) /\ u.q = w.q
    BY <1>1, CloseOp DEF Good
  <2>2. w' = u /\ stack' = <<>>
    BY <1>1, <1>3
  <2> HIDE DEF u
  <2>3. Hooks(u)
    BY <1>1, <2>1, SameHooked DEF SameHooks, Good, Kept
  <2>4. Good(u)
    BY <2>1, <2>3 DEF Good, Kept
  <2> QED BY <2>2, <2>4, EmptyStack DEF Sound
<1>4. CASE w' = r.w /\ stack' = r.call \o Tail(stack)
  <2> HIDE DEF s
  <2>1. Sound(r.w, r.call)
    BY <1>1, FailStep
  <2> DEFINE k == r.call
  <2>2. k \in Seq(Frame)
    BY <2>1 DEF Sound
  <2>3. stack' = k \o <<>>
    BY <1>1, <1>4, Zenon
  <2> HIDE DEF r, k
  <2>4. stack' = k
    BY <2>2, <2>3
  <2> QED BY <1>4, <2>1, <2>4, Zenon DEF k
<1> QED BY <1>2, <1>3, <1>4, Zenon

\* conn_event() returns.
LEMMA EventDoneStep ==
    ASSUME Sound(w, stack), EventDone
    PROVE  Sound(w', stack')
<1>1. Good(w) /\ Tail(stack) = <<>> /\ w' = w /\ stack' = <<>> \o Tail(stack)
  BY EventTop DEF EventDone, Return
<1>2. stack' = <<>>
  BY <1>1
<1> QED BY <1>1, <1>2, EmptyStack, Zenon DEF Sound

\* The loop at the end of conn_fail().
LEMMA HandBackStep ==
    ASSUME Sound(w, stack), HandBack
    PROVE  Sound(w', stack')
<1> DEFINE f == Head(stack)
           list == f.list
           x == Head(list)
           g == [f EXCEPT !.list = Tail(list)]
<1>1. Good(w) /\ stack \in Seq(Frame) /\ StackOK(w, stack) /\ stack # <<>> /\ f.fn = "back"
  BY DEF Sound, HandBack, Top
<1>2. f \in Frame /\ Tail(stack) = <<>> /\ Walked(w, list)
  BY <1>1, TopOf
<1>3. f \in Backs /\ list \in Seq(Queries)
  BY <1>1, <1>2, FrameKinds
<1>4. \/ stack' = <<>> \o Tail(stack) /\ w' = w
      \/ /\ list # <<>>
         /\ \E r \in DotFailed(w, x, f.lost) :
              w' = r.w /\ stack' = (r.call \o <<g>>) \o Tail(stack)
  BY Zenon DEF HandBack, Return
<1>5. CASE stack' = <<>> \o Tail(stack) /\ w' = w
  <2>1. stack' = <<>>
    BY <1>2, <1>5
  <2> QED BY <1>1, <1>5, <2>1, EmptyStack, Zenon DEF Sound
<1>6. CASE /\ list # <<>>
           /\ \E r \in DotFailed(w, x, f.lost) :
                w' = r.w /\ stack' = (r.call \o <<g>>) \o Tail(stack)
  <2>1. PICK r \in DotFailed(w, x, f.lost) :
          w' = r.w /\ stack' = (r.call \o <<g>>) \o Tail(stack)
    BY <1>6, Zenon
  <2>2. g \in Backs /\ g.list = Tail(list) /\ g.fn = "back"
    <3>1. Tail(list) \in Seq(Queries)
      BY <1>3, <1>6
    <3> HIDE DEF f, list
    <3> QED BY <1>3, <3>1, Zenon DEF Backs
  <2>3. /\ x \in Range(list) /\ Tail(list) \in Seq(Queries) /\ IsInjective(Tail(list))
        /\ Range(Tail(list)) \subseteq Range(list) \ {x}
    BY <1>2, <1>3, <1>6, TailList DEF Walked
  <2> DEFINE lost == f.lost
  <2> HIDE DEF f, list, x, g, lost
  <2>4. x \in Queries /\ w.q[x].via = "dot"
    <3>1. Range(list) \subseteq Queries
      BY <1>3, InSeq
    <3> QED BY <1>2, <2>3, <3>1 DEF Walked
  <2>5. Good(r.w) /\ CallOK(r.w, x, r.call) /\ Others(w, r.w, x)
    <3>1. r \in DotFailed(w, x, lost)
      BY <2>1 DEF lost
    <3> QED BY <1>1, <2>4, <3>1, DotFailedOp
  <2>6. Walked(r.w, Tail(list))
    <3>1. Walked(w, Tail(list)) /\ x \notin Range(Tail(list))
      BY <1>2, <2>3 DEF Walked
    <3> QED BY <2>3, <2>5, <3>1, WalkedOthers, Zenon
  <2>7. <<g>> \in Seq(Frame) /\ Head(<<g>>) = g /\ Tail(<<g>>) = <<>>
    BY <2>2 DEF Frame
  <2>8. BaseOK(r.w, <<g>>) /\ OffWalk(<<g>>, x)
    BY <2>2, <2>3, <2>6, <2>7, Zenon DEF BaseOK, OffWalk
  <2>9. r.call \o <<g>> \in Seq(Frame) /\ StackOK(r.w, r.call \o <<g>>)
    BY <2>4, <2>5, <2>7, <2>8, CallStack, Zenon
  <2>10. stack' = r.call \o <<g>>
    <3> DEFINE k == r.call \o <<g>>
    <3>1. k \in Seq(Frame) /\ stack' = k \o <<>>
      BY <1>2, <2>1, <2>9, Zenon
    <3> HIDE DEF k
    <3>2. stack' = k
      BY <3>1
    <3> QED BY <3>2 DEF k
  <2> QED BY <2>1, <2>5, <2>9, <2>10, Zenon DEF Sound
<1> QED BY <1>4, <1>5, <1>6, Zenon

-----------------------------------------------------------------------------
(* The invariant and what it gives.                                         *)

\* Nothing is out and nothing runs.
LEMMA InitSound == Init => IInv
<1> SUFFICES ASSUME Init PROVE IInv
  OBVIOUS
<1> DEFINE q0 == [x \in Queries |-> NoQuery]
           p0 == [t \in Tasks |-> 0]
           c0 == [s \in Servers |-> NoConn]
<1>1. NoQuery \in Query /\ NoQuery.via = "none" /\ NoQuery.task = "none" /\ ~NoQuery.conn
  BY DEF NoQuery, Query, QueryRec, Vias
<1>2. NoConn \in Conn /\ NoConn.pending = <<>>
  BY DEF NoConn, Conn
<1>3. /\ w = [q |-> q0, out |-> p0, race |-> p0, conn |-> c0, n_dot |-> 0, n_hs |-> 0,
              again |-> p0]
      /\ stack = <<>>
  BY DEF Init
<1> HIDE DEF NoQuery, NoConn
<1>4. /\ q0 \in [Queries -> Query] /\ p0 \in [Tasks -> Queries \cup {0}]
      /\ c0 \in [Servers -> Conn] /\ p0 \in [Tasks -> Nat]
  BY <1>1, <1>2
<1>5. /\ \A x \in Queries : q0[x] = NoQuery
      /\ \A t \in Tasks : p0[t] = 0
      /\ \A s \in Servers : c0[s] = NoConn
  OBVIOUS
<1> HIDE DEF q0, p0, c0
<1>6. w \in Worker /\ w.q = q0 /\ w.out = p0 /\ w.race = p0 /\ w.conn = c0
  BY <1>3, <1>4 DEF Worker
<1>7. Connected(w)
  BY <1>1, <1>2, <1>5, <1>6, EmptyList DEF Connected
<1>8. Hooks(w)
  BY <1>1, <1>5, <1>6 DEF Hooks
<1> QED BY <1>3, <1>6, <1>7, <1>8, EmptyStack DEF IInv

\* Every handler keeps it.
LEMMA StepSound == IInv /\ [Next]_vars => IInv'
<1> SUFFICES ASSUME IInv, [Next]_vars PROVE IInv'
  OBVIOUS
<1>1. Sound(w, stack)
  BY DEF IInv, Sound, Good
<1>2. Sound(w', stack')
  <2>1. CASE \E t \in Tasks : Start(t) \/ Deadline(t)
    BY <1>1, <2>1, StartStep, DeadlineStep
  <2>2. CASE \E x \in Queries : Answer(x) \/ TcpFail(x) \/ Timeout(x)
    BY <1>1, <2>2, AnswerStep, TcpFailStep, TimeoutStep
  <2>3. CASE \E s \in Servers : Event(s) \/ ConnTimer(s)
    BY <1>1, <2>3, EventStep, ConnTimerStep
  <2>4. CASE Ask
    BY <1>1, <2>4, AskStep
  <2>5. CASE Rest
    BY <1>1, <2>5, RestStep
  <2>6. CASE Free
    BY <1>1, <2>6, FreeStep
  <2>7. CASE Opened
    BY <1>1, <2>7, OpenedStep
  <2>8. CASE Drain
    BY <1>1, <2>8, DrainStep
  <2>9. CASE Lost
    BY <1>1, <2>9, LostStep
  <2>10. CASE EventDone
    BY <1>1, <2>10, EventDoneStep
  <2>11. CASE HandBack
    BY <1>1, <2>11, HandBackStep
  <2>12. CASE UNCHANGED vars
    BY <1>1, <2>12 DEF vars
  <2> QED BY <2>1, <2>2, <2>3, <2>4, <2>5, <2>6, <2>7, <2>8, <2>9, <2>10, <2>11, <2>12 DEF Next
<1> QED BY <1>2 DEF IInv, Sound, Good

\* So it holds always.
THEOREM OutboundInv == Spec => []IInv
BY InitSound, StepSound, PTL DEF Spec

\* For any number of tasks, servers and queries, and whatever is answered, lost,
\* handed back or cancelled, in whatever order: a query points at a task exactly
\* when the task points back at it, as its query or its race and not both
\* (out_unhook(), out_to_probe(), elpis_out_free(), the hand-overs of
\* dot_timeout() and elpis_out_dot_failed()).
THEOREM PointersAgree == Spec => []Hooked
<1>1. IInv => Hooked
  <2> SUFFICES ASSUME IInv PROVE Hooked
    OBVIOUS
  <2>1. w \in Worker /\ Hooks(w)
    BY DEF IInv
  <2>2. \A t \in Tasks : w.out[t] \in Queries \cup {0} /\ w.race[t] \in Queries \cup {0}
    BY <2>1, Pointers
  <2>3. ASSUME NEW t \in Tasks
        PROVE  /\ \A x \in {w.out[t], w.race[t]} \ {0} : w.q[x].task = t
               /\ w.out[t] # 0 => w.out[t] # w.race[t]
    BY <2>1, <2>2, SMTT(60) DEF Hooks
  <2>4. ASSUME NEW x \in Live(w), w.q[x].task # "none"
        PROVE  x \in {w.out[w.q[x].task], w.race[w.q[x].task]}
    BY <2>1, <2>4, SMTT(60) DEF Hooks, Live
  <2> QED BY <2>3, <2>4 DEF Hooked
<1> QED BY <1>1, OutboundInv, PTL

\* A chain is its first frame and the rest.
LEMMA Peel ==
    ASSUME NEW S, NEW k \in Seq(S), NEW i \in DOMAIN k
    PROVE  /\ k # <<>> /\ Tail(k) \in Seq(S)
           /\ \/ i = 1 /\ k[i] = Head(k)
              \/ i # 1 /\ i - 1 \in DOMAIN Tail(k) /\ k[i] = Tail(k)[i - 1]
<1>1. DOMAIN k = 1..Len(k) /\ Len(k) \in Nat
  BY InSeq
<1>2. k # <<>>
  BY <1>1
<1> DEFINE r == Tail(k)
<1>3. /\ r \in Seq(S) /\ Len(r) = Len(k) - 1 /\ \A j \in 1..Len(r) : r[j] = k[j + 1]
  BY <1>2
<1>4. Head(k) = k[1]
  BY <1>2
<1> HIDE DEF r
<1>5. DOMAIN r = 1..Len(r)
  BY <1>3, InSeq
<1>6. CASE i # 1
  <2>1. i - 1 \in 1..Len(r) /\ (i - 1) + 1 = i
    BY <1>1, <1>3, <1>6
  <2> QED BY <1>2, <1>3, <1>5, <1>6, <2>1 DEF r
<1> QED BY <1>2, <1>3, <1>4, <1>6 DEF r

\* What is under an event or a walk: nothing.
LEMMA BaseFrames ==
    ASSUME NEW v, NEW b \in Seq(Frame), BaseOK(v, b), NEW i \in DOMAIN b
    PROVE  b[i].fn # "step" /\ (b[i].fn = "back" => Walked(v, b[i].list))
<1>1. b # <<>> /\ ((i = 1 /\ b[i] = Head(b)) \/ i - 1 \in DOMAIN Tail(b))
  BY Peel
<1>2. Tail(b) = <<>> /\ Head(b) \in Events \cup Backs
      /\ (Head(b).fn = "back" => Walked(v, Head(b).list))
  BY <1>1 DEF BaseOK
<1>3. DOMAIN Tail(b) = {}
  <2>1. DOMAIN <<>> = {}
    OBVIOUS
  <2> QED BY <1>2, <2>1
<1>4. b[i] = Head(b)
  BY <1>1, <1>3
<1> QED BY <1>2, <1>4 DEF Events, Backs

\* What is under a step: no step.
LEMMA RestFrames ==
    ASSUME NEW v, NEW r \in Seq(Frame), RestOK(v, r), NEW i \in DOMAIN r
    PROVE  r[i].fn # "step" /\ (r[i].fn = "back" => Walked(v, r[i].list))
<1>1. /\ r # <<>> /\ Tail(r) \in Seq(Frame)
      /\ \/ i = 1 /\ r[i] = Head(r)
         \/ i # 1 /\ i - 1 \in DOMAIN Tail(r) /\ r[i] = Tail(r)[i - 1]
  BY Peel
<1>2. CASE Head(r).fn = "free"
  <2>1. BaseOK(v, Tail(r))
    BY <1>1, <1>2 DEF RestOK
  <2>2. CASE i = 1
    BY <1>1, <1>2, <2>2
  <2>3. CASE i # 1
    <3> DEFINE b == Tail(r)
               j == i - 1
    <3>1. b \in Seq(Frame) /\ BaseOK(v, b) /\ j \in DOMAIN b /\ r[i] = b[j]
      BY <1>1, <2>1, <2>3
    <3> HIDE DEF b, j
    <3> QED BY <3>1, BaseFrames
  <2> QED BY <2>2, <2>3
<1>3. CASE Head(r).fn # "free"
  <2>1. BaseOK(v, r)
    BY <1>3 DEF RestOK
  <2> QED BY <2>1, BaseFrames
<1> QED BY <1>2, <1>3

\* In the whole chain a step is on top and of a task with nothing out, and a
\* list that is walked is safe.
LEMMA StackFrames ==
    ASSUME NEW v, NEW k \in Seq(Frame), StackOK(v, k), NEW i \in DOMAIN k
    PROVE  /\ k[i].fn = "step" => i = 1 /\ NothingOut(v, k[i].t)
           /\ k[i].fn = "back" => Walked(v, k[i].list)
<1>1. /\ k # <<>> /\ Tail(k) \in Seq(Frame)
      /\ \/ i = 1 /\ k[i] = Head(k)
         \/ i # 1 /\ i - 1 \in DOMAIN Tail(k) /\ k[i] = Tail(k)[i - 1]
  BY Peel
<1>2. CASE Head(k).fn = "step"
  <2>1. NothingOut(v, Head(k).t) /\ RestOK(v, Tail(k))
    BY <1>1, <1>2 DEF StackOK
  <2>2. CASE i = 1
    BY <1>1, <1>2, <2>1, <2>2
  <2>3. CASE i # 1
    <3> DEFINE b == Tail(k)
               j == i - 1
    <3>1. b \in Seq(Frame) /\ RestOK(v, b) /\ j \in DOMAIN b /\ k[i] = b[j]
      BY <1>1, <2>1, <2>3
    <3> HIDE DEF b, j
    <3> QED BY <3>1, RestFrames
  <2> QED BY <2>2, <2>3
<1>3. CASE Head(k).fn # "step"
  <2>1. RestOK(v, k)
    BY <1>3 DEF StackOK
  <2> QED BY <2>1, RestFrames
<1> QED BY <1>2, <1>3

\* A task is stepped only when it has nothing out, and one task at a time: no
\* step drops a query that is still good or frees the one whose answer it is
\* given (handle_message(), out_timeout(), tcp_fail(), elpis_out_dot_failed()).
THEOREM StepsAreIdle == Spec => []SteppedIdle
<1>1. IInv => SteppedIdle
  <2> SUFFICES ASSUME IInv, NEW i \in DOMAIN stack, stack[i].fn = "step"
               PROVE  /\ w.out[stack[i].t] = 0 /\ w.race[stack[i].t] = 0
                      /\ \A j \in DOMAIN stack :
                           stack[j].fn = "step" /\ stack[j].t = stack[i].t => j = i
    BY DEF SteppedIdle
  <2>1. stack \in Seq(Frame) /\ StackOK(w, stack)
    BY DEF IInv
  <2>2. i = 1 /\ NothingOut(w, stack[i].t)
    BY <2>1, StackFrames
  <2>3. \A j \in DOMAIN stack : stack[j].fn = "step" => j = 1
    BY <2>1, StackFrames
  <2> QED BY <2>2, <2>3 DEF NothingOut
<1> QED BY <1>1, OutboundInv, PTL

\* The list conn_fail() walks after the connection is gone never holds a query
\* that was freed, or put on another connection, by the tasks stepped on the way
\* (elpis_out_dot_failed()).
THEOREM WalksAreSafe == Spec => []WalkIsSafe
<1>1. IInv => WalkIsSafe
  <2> SUFFICES ASSUME IInv, NEW i \in DOMAIN stack, stack[i].fn = "back",
                      NEW x \in Range(stack[i].list)
               PROVE  w.q[x].via = "dot" /\ ~w.q[x].conn
    BY DEF WalkIsSafe
  <2>1. stack \in Seq(Frame) /\ StackOK(w, stack)
    BY DEF IInv
  <2>2. Walked(w, stack[i].list)
    BY <2>1, StackFrames
  <2> QED BY <2>2 DEF Walked
<1> QED BY <1>1, OutboundInv, PTL

\* For every task, at every moment, a race is UDP beside UDP: a question that
\* goes over DoT has no plain twin (elpis_out_race(), send_query()).
THEOREM NoPlainTwin == Spec => []RacesOverUDP
<1>1. IInv => RacesOverUDP
  BY SMTT(60) DEF IInv, Hooks, RacesOverUDP
<1> QED BY <1>1, OutboundInv, PTL
=============================================================================
