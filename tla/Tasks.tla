------------------------------- MODULE Tasks -------------------------------
(***************************************************************************)
(* The tasks of one worker: how a task starts, suspends, is woken, ends    *)
(* and is freed (src/resolver/resolver.c), the lookups that the            *)
(* validations of different tasks share (src/dnssec/dnssec.c), and the A   *)
(* lookup a client's task suspends on for DNS64 (src/server/dns64.c).      *)
(*                                                                         *)
(* Everything a task asks of another is answered by a callback made from   *)
(* inside the other's end, which may step the first, which may end in its  *)
(* turn.  `stack' is that chain of calls, the innermost first; an event    *)
(* of the loop is taken only when it is empty.                             *)
(*                                                                         *)
(* Abstractions: what a task learns.  A step sends a query, goes for the   *)
(* addresses of a nameserver, has an answer or fails, whichever it likes   *)
(* (module Iterate says when); a validation needs one key, DNSKEY or DS,   *)
(* that is in the cache or has to be looked up (module Val says which);    *)
(* a lookup that ends has found it, in the cache or held back for its TTL  *)
(* of 0, for all that wait on it, or not.                                  *)
(***************************************************************************)
EXTENDS Integers, Sequences, FiniteSets, SequencesExt

CONSTANTS
    Clients, Keys,
    Ids,             \* the tasks: as many as max_pending times four
    MAX_PENDING,     \* conf.max_pending, past which no client is taken in
    MAX_DEPTH,
    Slots, WAITERS,  \* the shared lookups, VAL_INFLIGHT and VAL_WAITERS
    FAIL_TRIES,      \* VAL_FAIL_TRIES
    Dns64            \* the clients whose question could want DNS64, with conf.dns64 on

ASSUME TasksAssumption ==
    /\ Ids \subseteq Nat \ {0} /\ IsFiniteSet(Ids) /\ Slots \subseteq Nat \ {0}
    /\ MAX_PENDING \in Nat /\ MAX_DEPTH \in Nat /\ WAITERS \in Nat
    /\ FAIL_TRIES \in Nat /\ Dns64 \subseteq Clients

None == "none"

NoTask == [kind |-> None, st |-> "dead", client |-> None, parent |-> 0,
           depth |-> 0, cb |-> None, ctx |-> 0, nchild |-> 0,
           kick |-> FALSE, deadline |-> FALSE, out |-> FALSE,
           val |-> None, need |-> None, tries |-> 0, has |-> FALSE,
           late |-> FALSE, dns64_tried |-> FALSE, key |-> None]
NoSlot == [key |-> None, owner |-> 0, wait |-> <<>>]

VARIABLES
    w,        \* the worker: task and slot, and stack, the calls being made
    replies,  \* how often each client was answered
    asked,    \* the clients that have asked
    stopped   \* the worker is being torn down

vars == <<w, replies, asked, stopped>>

Init ==
    /\ w = [task |-> [i \in Ids |-> NoTask], slot |-> [s \in Slots |-> NoSlot],
            stack |-> <<>>]
    /\ asked = {} /\ stopped = FALSE
    /\ replies = [c \in Clients |-> 0]

LiveIn(v) == {i \in Ids : v.task[i].kind # None}
Live == LiveIn(w)
Children(v, t) == {c \in LiveIn(v) : v.task[c].parent = t}

-----------------------------------------------------------------------------
(* Making and freeing tasks.  An operator whose first argument is a worker  *)
(* has the worker it leaves behind as its value.                            *)

Call(v, fn, t) == [v EXCEPT !.stack = <<[fn |-> fn, t |-> t]>> \o @]
Return(v) == [v EXCEPT !.stack = Tail(@)]

\* elpis_task_new() refuses at the ceiling on all of a worker's tasks.
CanNew(v) == LiveIn(v) # Ids
NewId(v) == CHOOSE i \in Ids \ LiveIn(v) : \A j \in Ids \ LiveIn(v) : i <= j

\* elpis_task_start(): the kick timer alone, so that nothing runs before the
\* caller is through.
Started(v, i, t) == [v EXCEPT !.task[i] = [t EXCEPT !.st = "init", !.kick = TRUE]]

CanChild(v, p) == v.task[p].depth + 1 < MAX_DEPTH /\ CanNew(v)

\* elpis_task_child()
Child(v, p, kind, cb, ctx, key) ==
    LET i == NewId(v)
    IN  [Started(v, i, [NoTask EXCEPT !.kind = kind, !.parent = p, !.cb = cb,
                                      !.depth = v.task[p].depth + 1,
                                      !.ctx = ctx, !.key = key])
         EXCEPT !.task[p].nchild = @ + 1]

\* The last waiter takes the place of the one that leaves.
Leave(wait, t) ==
    IF t \notin Range(wait) THEN wait
    ELSE LET j == CHOOSE k \in DOMAIN wait : wait[k] = t
         IN  Front([wait EXCEPT ![j] = Last(wait)])

\* inflight_forget(): the task waits on nothing, and feeds no slot.
Forget(v, t) ==
    [v EXCEPT !.slot = [s \in Slots |->
        LET f == [v.slot[s] EXCEPT !.wait = Leave(@, t)]
        IN  IF f.owner = t \/ f.wait = <<>> THEN NoSlot ELSE f]]

ValFree(v, t) == [Forget(v, t) EXCEPT !.task[t].val = None, !.task[t].has = FALSE]

\* Mutant: the children keep their pointer to the task.
TaskFree_NotDetached(v, t) == [ValFree(v, t) EXCEPT !.task[t] = NoTask]

\* elpis_task_free(): the children run on, without a parent to report to.
TaskFree(v, t) ==
    LET u == ValFree(v, t)
    IN  [u EXCEPT !.task = [i \in Ids |->
            IF i = t THEN NoTask
            ELSE IF u.task[i].parent = t
                 THEN [u.task[i] EXCEPT !.parent = 0, !.cb = None, !.ctx = 0]
            ELSE u.task[i]]]

-----------------------------------------------------------------------------
(* Validation                                                               *)

\* Neither a slot nor memory or depth for a child: val_need() has an empty
\* set to offer, and the walk ends there.
Unstarted(v, t) == ValFree(v, t)

\* The plain way: a child that reports to this validation alone.
Alone(v, t, k) ==
    IF CanChild(v, t) THEN Child(v, t, "key", "val", 0, k) ELSE Unstarted(v, t)

\* val_need() when the key is not at hand: join the lookup that is out, or
\* start one that others may join.
Fetch(v0, t, k) ==
    LET v == [v0 EXCEPT !.task[t].tries = @ + 1, !.task[t].val = "waiting"]
        found == {s \in Slots : v.slot[s].key = k}
        room == {s \in found : t \in Range(v.slot[s].wait)
                                \/ Len(v.slot[s].wait) < WAITERS}
        free == {s \in Slots : v.slot[s].key = None}
    IN  IF room # {} THEN
            LET s == CHOOSE s \in room : TRUE
            IN  [v EXCEPT !.task[t].nchild = @ + 1,
                          !.slot[s].wait = IF t \in Range(@) THEN @ ELSE Append(@, t)]
        ELSE IF free # {} /\ CanChild(v, t) THEN
            LET s == CHOOSE s \in free : \A r \in free : s <= r
            IN  [Child(v, t, "key", "val", s, k)
                 EXCEPT !.slot[s] = [key |-> k, owner |-> t, wait |-> <<t>>]]
        ELSE Alone(v, t, k)

\* val_run(): a verdict, which frees the validation, or a lookup to wait for.
ValRun(v, t) ==
    LET r == v.task[t]
    IN  IF r.has \/ r.tries >= FAIL_TRIES
        THEN ValFree(v, t)
        ELSE Fetch(v, t, r.need)

\* A task that is through: task_finish() comes next.
ToFinish(v, t) == Call([v EXCEPT !.task[t].st = "finish"], "finish", t)

\* elpis_val_start(): the keys themselves are checked by whoever asked for
\* them, and at the last depth there is no room for the lookups.
ValStart(v, t, k, has) ==
    LET r == v.task[t]
        u == ValRun([v EXCEPT !.task[t].st = "validate", !.task[t].val = "ready",
                              !.task[t].need = k, !.task[t].has = has], t)
    IN  IF r.kind = "key" \/ r.depth + 1 >= MAX_DEPTH THEN ToFinish(v, t)
        ELSE IF u.task[t].val # None THEN u ELSE ToFinish(u, t)

\* val_resume(): the lookup has landed for one of those that waited.
ValResume(v, t) ==
    LET n == v.task[t].nchild
        u == [v EXCEPT !.task[t].nchild = IF n > 0 THEN n - 1 ELSE 0]
        r == ValRun([u EXCEPT !.task[t].val = "ready"], t)
    IN  IF v.task[t].val = None THEN u
        ELSE IF r.task[t].val = "waiting" \/ r.task[t].st # "validate" THEN r
        ELSE ToFinish(r, t)

\* Is the slot this lookup was started for still its own?
Own(v, c) ==
    LET s == v.task[c].ctx
    IN  s # 0 /\ v.slot[s].key # None /\ v.slot[s].owner = v.task[c].parent

\* val_child_done(): every waiter is resumed, in turn, off a list that was
\* taken first.  What was found is at hand for all of them: it is in the
\* cache, or was held back and is given to each.
ValChildDone(v, c, found) ==
    LET s == v.task[c].ctx
        who == IF Own(v, c) THEN v.slot[s].wait ELSE <<v.task[c].parent>>
        u == IF Own(v, c) THEN [v EXCEPT !.slot[s] = NoSlot] ELSE v
        g == [u EXCEPT !.task = [i \in Ids |->
                 IF found /\ i \in Range(who) /\ u.task[i].val # None
                 THEN [u.task[i] EXCEPT !.has = TRUE] ELSE u.task[i]]]
    IN  [g EXCEPT !.stack =
            [i \in DOMAIN who |-> [fn |-> "resume", t |-> who[i]]] \o @]

-----------------------------------------------------------------------------
(* The addresses of nameservers, and DNS64                                  *)

\* nsaddr_done(): on with the first address, or with the last answer.
NsAddrDone(v, c, got) ==
    LET p == v.task[c].parent
        n == v.task[p].nchild
        u == [v EXCEPT !.task[p].nchild = IF n > 0 THEN n - 1 ELSE 0]
    IN  IF v.task[p].st = "nsaddr" /\ (u.task[p].nchild = 0 \/ got)
        THEN Call([u EXCEPT !.task[p].st = "send"], "step", p) ELSE u

\* dns64_child_done()
Dns64Done(v, c) ==
    LET p == v.task[c].parent
        n == v.task[p].nchild
        u == [v EXCEPT !.task[p].nchild = IF n > 0 THEN n - 1 ELSE 0]
    IN  IF v.task[p].st = "wait" THEN ToFinish(u, p) ELSE u

-----------------------------------------------------------------------------
(* The calls                                                                *)

Top(fn) == w.stack # <<>> /\ Head(w.stack).fn = fn
Same == UNCHANGED <<replies, asked, stopped>>

\* elpis_task_step(): a query is sent.
StepSend ==
    /\ Top("step")
    /\ LET t == Head(w.stack).t
       IN  w' = [Return(w) EXCEPT !.task[t].st = "wait", !.task[t].out = TRUE]
    /\ Same

\* A nameserver's addresses are looked up, A and AAAA; a lookup that cannot
\* be started is done without, and with neither the step goes on.
StepNsAddr ==
    /\ Top("step")
    /\ LET t == Head(w.stack).t
           a == Child(Return(w), t, "addr", "nsaddr", 0, None)
           b == Child(a, t, "addr", "nsaddr", 0, None)
       IN  /\ CanChild(w, t)
           /\ w' = [IF CanChild(a, t) THEN b ELSE a EXCEPT !.task[t].st = "nsaddr"]
    /\ Same

\* There is an answer, from the cache or from a server, to be validated.
StepAnswer ==
    /\ Top("step")
    /\ \E k \in Keys, has \in BOOLEAN : w' = ValStart(Return(w), Head(w.stack).t, k, has)
    /\ Same

\* No server is left, or the answer needs no validation (local data, CD).
StepEnd ==
    /\ Top("step")
    /\ w' = ToFinish(Return(w), Head(w.stack).t)
    /\ Same

\* The callback is taken off the task before it is run.
Called(v, t) == [Call(Return(v), "after", t) EXCEPT !.task[t].cb = None]

\* No query and no timer of a task outlives its end.
Through(v, t) ==
    [v EXCEPT !.task[t].st = "dead", !.task[t].out = FALSE,
              !.task[t].deadline = FALSE]

\* task_finish() up to and with the callback; what was learned is cached.
Finish ==
    /\ Top("finish")
    /\ LET t == Head(w.stack).t
           r == w.task[t]
           v == Called(Through(w, t), t)
       IN  \/ r.st = "dead" /\ w' = Return(w)
           \/ r.st # "dead" /\ r.cb = None /\ w' = v
           \/ /\ r.st # "dead" /\ r.cb = "val"
              /\ \E found \in BOOLEAN : w' = ValChildDone(v, t, found)
           \/ /\ r.st # "dead" /\ r.cb = "nsaddr"
              /\ \E got \in BOOLEAN : w' = NsAddrDone(v, t, got)
           \/ r.st # "dead" /\ r.cb = "dns64" /\ w' = Dns64Done(v, t)
    /\ Same

\* Mutant: the lookup for DNS64 may be started again and again.
WantsDns64_Again(r) == r.client \in Dns64 /\ ~r.late

\* elpis_dns64_needed(), of a task whose answer could want it: not of one
\* that its deadline ended with SERVFAIL.
WantsDns64(r) == r.client \in Dns64 /\ ~r.late /\ ~r.dns64_tried

Respond(t) ==
    /\ w' = TaskFree(Return(w), t)
    /\ replies' = [replies EXCEPT ![w.task[t].client] = @ + 1]

\* The rest of task_finish(): a task without a client is freed; a client's
\* is suspended for DNS64, without a deadline of its own, or answered.
After ==
    /\ Top("after")
    /\ LET t == Head(w.stack).t
           r == w.task[t]
           u == [Return(w) EXCEPT !.task[t].dns64_tried = TRUE]
       IN  \/ /\ r.parent # 0 \/ r.client = None
              /\ w' = TaskFree(Return(w), t) /\ UNCHANGED replies
           \/ /\ r.parent = 0 /\ r.client # None /\ WantsDns64(r)
              /\ IF CanChild(u, t)
                 THEN /\ w' = [Child(u, t, "dns64", "dns64", 0, None)
                               EXCEPT !.task[t].st = "wait"]
                      /\ UNCHANGED replies
                 ELSE Respond(t)
           \/ r.parent = 0 /\ r.client # None /\ Respond(t)
    /\ UNCHANGED <<asked, stopped>>

Resume ==
    /\ Top("resume")
    /\ w' = ValResume(Return(w), Head(w.stack).t)
    /\ Same

-----------------------------------------------------------------------------
(* The events                                                               *)

Idle == w.stack = <<>> /\ ~stopped

\* handle_query(): past max_pending the client is told to come back.
Ask(c) ==
    /\ Idle /\ c \notin asked
    /\ asked' = asked \cup {c}
    /\ IF Cardinality(Live) < MAX_PENDING /\ CanNew(w)
       THEN /\ w' = Started(w, NewId(w), [NoTask EXCEPT !.kind = "client", !.client = c])
            /\ UNCHANGED replies
       ELSE w' = w /\ replies' = [replies EXCEPT ![c] = @ + 1]
    /\ UNCHANGED stopped

\* task_kick()
Kick(t) ==
    /\ Idle /\ w.task[t].kick
    /\ LET v == [w EXCEPT !.task[t].kick = FALSE]
       IN  w' = IF w.task[t].st # "init" THEN v
                ELSE Call([v EXCEPT !.task[t].st = "lookup", !.task[t].deadline = TRUE],
                          "step", t)
    /\ Same

\* task_deadline()
Deadline(t) ==
    /\ Idle /\ w.task[t].deadline
    /\ w' = LET v == [w EXCEPT !.task[t].deadline = FALSE, !.task[t].late = TRUE]
            IN  IF w.task[t].st = "dead" THEN v ELSE ToFinish(v, t)
    /\ Same

\* The query of a task is answered, refused, lost or timed out.
Reply(t) ==
    /\ Idle /\ w.task[t].out /\ w.task[t].st = "wait"
    /\ w' = Call([w EXCEPT !.task[t].out = FALSE, !.task[t].st = "send"], "step", t)
    /\ Same

\* elpis_resolver_fini(): the tasks one after the other, without callbacks.
Fini ==
    /\ Idle
    /\ stopped' = TRUE
    /\ w' = FoldSet(LAMBDA t, v : TaskFree(v, t), w, Live)
    /\ UNCHANGED <<replies, asked>>

Next ==
    \/ StepSend \/ StepNsAddr \/ StepAnswer \/ StepEnd
    \/ Finish \/ After \/ Resume
    \/ \E c \in Clients : Ask(c)
    \/ \E t \in Ids : Kick(t) \/ Deadline(t) \/ Reply(t)
    \/ Fini

Spec == Init /\ [][Next]_vars

\* Calls return, and timers fire: that is all the fairness there is.  A
\* server need never answer.
Progress == StepSend \/ StepNsAddr \/ StepAnswer \/ StepEnd \/ Finish \/ After \/ Resume
FairSpec ==
    /\ Spec /\ WF_vars(Progress)
    /\ \A t \in Ids : WF_vars(Kick(t)) /\ SF_vars(Deadline(t))

-----------------------------------------------------------------------------
(* Properties                                                               *)

TaskType ==
    [kind : {None, "client", "addr", "key", "dns64"},
     st : {"init", "lookup", "send", "wait", "nsaddr", "validate", "finish", "dead"},
     client : Clients \cup {None}, parent : Ids \cup {0}, depth : 0 .. MAX_DEPTH,
     cb : {None, "nsaddr", "val", "dns64"}, ctx : Slots \cup {0}, nchild : Nat,
     kick : BOOLEAN, deadline : BOOLEAN, out : BOOLEAN,
     val : {None, "ready", "waiting"}, need : Keys \cup {None}, tries : 0 .. FAIL_TRIES,
     has : BOOLEAN, late : BOOLEAN, dns64_tried : BOOLEAN, key : Keys \cup {None}]

\* The types of the state; no task is deeper than ELPIS_MAX_DEPTH allows and
\* no validation looks its key up more often than VAL_FAIL_TRIES.
TypeOK ==
    /\ w.task \in [Ids -> TaskType]
    /\ \A s \in Slots : /\ w.slot[s].key \in Keys \cup {None}
                        /\ w.slot[s].owner \in Ids \cup {0}
                        /\ w.slot[s].wait \in Seq(Ids) /\ Len(w.slot[s].wait) <= WAITERS
    /\ asked \subseteq Clients /\ stopped \in BOOLEAN
    /\ replies \in [Clients -> Nat]

\* Nothing points at a task that was freed: no parent pointer, no slot of a
\* shared lookup, and no call that is still to return to it -- whatever the
\* callbacks ended on the way (elpis_task_free, val_child_done, task_finish).
NoDangling ==
    /\ \A i \in DOMAIN w.stack : w.stack[i].t \in Live
    /\ \A i \in Live : w.task[i].parent \in Live \cup {0}
                       /\ (w.task[i].cb # None => w.task[i].parent # 0)
    /\ \A s \in Slots : Range(w.slot[s].wait) \subseteq Live
                        /\ (w.slot[s].key # None => w.slot[s].owner \in Live)

\* Between events every task has something that will wake it: its kick, or
\* its deadline; and the one suspended for DNS64, which has neither, has its
\* lookup (task_kick, task_finish, elpis_dns64_start).
Wakeable ==
    Idle => \A i \in Live :
        LET t == w.task[i]
        IN  \/ t.st = "init" /\ t.kick
            \/ t.deadline /\ t.st \in {"wait", "nsaddr", "validate"}
            \/ \E c \in Children(w, i) : t.st = "wait" /\ w.task[c].cb = "dns64"

\* A task that waits for addresses has a lookup out that will call it back,
\* and its count is that of the lookups that will (nsaddr_done).
AddressesComing ==
    Idle => \A i \in Live : w.task[i].st = "nsaddr" =>
        LET out == {c \in Children(w, i) : w.task[c].cb = "nsaddr"}
        IN  out # {} /\ w.task[i].nchild = Cardinality(out)

\* A slot of the shared lookups is fed by a child of its owner that is
\* running and asks what the slot says, and those on its list wait for that
\* (val_need, inflight_forget).
SlotFed ==
    Idle => \A s \in Slots : w.slot[s].key # None =>
        /\ \E c \in Children(w, w.slot[s].owner) :
               w.task[c].cb = "val" /\ w.task[c].ctx = s /\ w.task[c].key = w.slot[s].key
        /\ \A t \in Range(w.slot[s].wait) :
               w.task[t].val = "waiting" /\ w.task[t].need = w.slot[s].key

\* A client is never answered twice, and is not forgotten: as long as it has
\* no answer it has a task, and once the worker is torn down nothing is left
\* of the tasks (task_finish, elpis_task_respond, elpis_resolver_fini).
AnsweredOnce ==
    IF stopped THEN Live = {} /\ \A s \in Slots : w.slot[s] = NoSlot
    ELSE \A c \in asked :
             Cardinality({i \in Live : w.task[i].client = c}) + replies[c] = 1

\* Every client is answered in the end, though no server ever says a word
\* and whatever its task waits for, unless the worker is stopped.
Answered == \A c \in Clients : []<>(c \in asked => replies[c] = 1 \/ stopped)

\* A validation that waits is waited for: "the first one to ask launches the
\* lookup and the rest wait on it" (dnssec.c), so a lookup that will resume
\* it is out.
NotStranded ==
    Idle => \A i \in Live : w.task[i].val = "waiting" =>
        \/ \E s \in Slots : i \in Range(w.slot[s].wait)
        \/ \E c \in Children(w, i) : w.task[c].cb = "val"
=============================================================================
