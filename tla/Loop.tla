-------------------------------- MODULE Loop --------------------------------
(***************************************************************************)
(* The event loop of a worker (src/src/net/loop.c): the heap of timers, the *)
(* map from descriptors to the events registered for them, and a turn of   *)
(* the loop.  What a callback does, adding and removing timers and events, *)
(* its own and others', comes between the steps of the loop.               *)
(***************************************************************************)
EXTENDS Integers, Sequences, FiniteSets, SequencesExt

CONSTANTS Timers, Events, Fds, None,
          Delays,               \* delays that timers are added with
          STORM,                \* 4096: timers run before the descriptors get a turn
          MAX_WAIT,             \* the most a worker waits
          MaxOps,               \* what one callback may add or remove
          MaxNow

VARIABLES heap,                 \* lp->heap
          tm,                   \* each timer: active, deadline_ms, heap_idx
          evs,                  \* lp->evs: fd to event
          ev,                   \* each event: active, fd
          phase,                \* where the turn is
          batch,                \* what the backend reported and is still to be handled
          ran,                  \* n of timers_run(), and handled of elpis_loop_once()
          ops,                  \* what the running callback may still do
          now
lvars == <<heap, tm>>
evars == <<evs, ev>>
vars == <<heap, tm, evs, ev, phase, batch, ran, ops, now>>

\* What an inactive timer or event still holds is never read.
Off == [active |-> FALSE, deadline |-> 0, idx |-> 0]
Gone == [active |-> FALSE, fd |-> None]

Init ==
    /\ heap = << >> /\ tm = [t \in Timers |-> Off]
    /\ evs = [f \in Fds |-> None] /\ ev = [e \in Events |-> Gone]
    /\ phase = "start" /\ batch = << >> /\ ran = 0 /\ ops = MaxOps /\ now = 0
-----------------------------------------------------------------------------
(* The heap, as records h.heap and h.tm                                    *)

World == [heap |-> heap, tm |-> tm]
Due(h, i) == h.tm[h.heap[i]].deadline

\* heap_swap(); the heap counts from 1 here.
Swapped(h, a, b) ==
    [heap |-> [h.heap EXCEPT ![a] = h.heap[b], ![b] = h.heap[a]],
     tm |-> [h.tm EXCEPT ![h.heap[b]].idx = a, ![h.heap[a]].idx = b]]

\* heap_up(): along the path to the top.
Up(h, i) ==
    LET climb[j \in 0 .. Len(h.heap) \div 2] ==  \* after j levels: the heap, the place
            IF j = 0 THEN [h |-> h, i |-> i]
            ELSE LET c == climb[j - 1]
                     p == c.i \div 2
                 IN  IF c.i = 1 \/ Due(c.h, p) <= Due(c.h, c.i) THEN c
                     ELSE [h |-> Swapped(c.h, c.i, p), i |-> p]
    IN  climb[Len(h.heap) \div 2].h

\* heap_down(): to the lesser child, as long as there is one that is less.
Down(h, i) ==
    LET n == Len(h.heap)
        less(g, a, b) == a <= n /\ Due(g, a) < Due(g, b)
        sink[j \in 0 .. n \div 2] ==
            IF j = 0 THEN [h |-> h, i |-> i]
            ELSE LET c == sink[j - 1]
                     l == 2 * c.i
                     m == IF less(c.h, l, c.i) THEN l ELSE c.i
                     m2 == IF less(c.h, l + 1, m) THEN l + 1 ELSE m
                 IN  IF m2 = c.i THEN c ELSE [h |-> Swapped(c.h, c.i, m2), i |-> m2]
    IN  sink[n \div 2].h

\* Mutant: what takes the place of a removed timer only climbs.
Deleted_Up(h, t) ==
    LET i == h.tm[t].idx
        n == Len(h.heap)
        last == h.heap[n]
        off == [h.tm EXCEPT ![t] = Off]
    IN  IF ~h.tm[t].active THEN h
        ELSE IF i = n THEN [heap |-> Front(h.heap), tm |-> off]
        ELSE Up([heap |-> Front([h.heap EXCEPT ![i] = last]),
                 tm |-> [off EXCEPT ![last].idx = i]], i)

\* elpis_timer_del().
Deleted(h, t) ==
    LET i == h.tm[t].idx
        n == Len(h.heap)
        last == h.heap[n]
        off == [h.tm EXCEPT ![t] = Off]
        filled == [heap |-> Front([h.heap EXCEPT ![i] = last]),
                   tm |-> [off EXCEPT ![last].idx = i]]
    IN  IF ~h.tm[t].active THEN h
        ELSE IF i = n THEN [heap |-> Front(h.heap), tm |-> off]
        ELSE Down(Up(filled, i), i)

\* elpis_timer_add(): taken out first if it is running.
Added(h, t, d) ==
    LET g == Deleted(h, t)
        n == Len(g.heap) + 1
    IN  Up([heap |-> Append(g.heap, t),
            tm |-> [g.tm EXCEPT ![t] = [active |-> TRUE, deadline |-> now + d, idx |-> n]]], n)
-----------------------------------------------------------------------------
(* What a callback may do                                                  *)

InCallback == phase \in {"first", "dispatch", "last"} /\ ops > 0 /\ ops' = ops - 1
Becomes(h) == \E w \in {h} : heap' = w.heap /\ tm' = w.tm
Stays == UNCHANGED <<phase, batch, ran, now>>

TimerAdd(t, d) ==
    /\ InCallback /\ Becomes(Added(World, t, d))
    /\ Stays /\ UNCHANGED evars
TimerDel(t) ==
    /\ InCallback /\ Becomes(Deleted(World, t))
    /\ Stays /\ UNCHANGED evars

\* elpis_loop_add(); the callers take a descriptor off the loop before they close
\* it, so that a number comes back only when it is free.  The backend may refuse.
LoopAdd(e, f) ==
    /\ InCallback /\ ~ev[e].active /\ evs[f] = None
    /\ \/ evs' = [evs EXCEPT ![f] = e] /\ ev' = [ev EXCEPT ![e] = [active |-> TRUE, fd |-> f]]
       \/ UNCHANGED evars
    /\ Stays /\ UNCHANGED lvars

\* elpis_loop_del().
LoopDel(e) ==
    /\ InCallback /\ ev[e].active
    /\ ev' = [ev EXCEPT ![e] = Gone] /\ evs' = [evs EXCEPT ![ev[e].fd] = None]
    /\ Stays /\ UNCHANGED lvars

Callback ==
    \/ \E t \in Timers : TimerDel(t) \/ \E d \in Delays : TimerAdd(t, d)
    \/ \E e \in Events : LoopDel(e) \/ \E f \in Fds : LoopAdd(e, f)
-----------------------------------------------------------------------------
(* A turn                                                                  *)

Start ==
    /\ phase = "start" /\ phase' = "first" /\ ran' = 0 /\ ops' = MaxOps
    /\ UNCHANGED <<heap, tm, evs, ev, batch, now>>

\* timers_run(): the loop and its bound.
MoreTimers == heap # << >> /\ tm[heap[1]].deadline <= now /\ ran <= STORM

RunTimer ==
    LET t == heap[1]
    IN  /\ phase \in {"first", "last"} /\ MoreTimers
        /\ Becomes(Deleted(World, t))
        /\ ran' = ran + 1 /\ ops' = MaxOps
        /\ UNCHANGED <<evs, ev, phase, batch, now>>

\* timers_next_ms(), and no wait after a timer has run.
WaitFor ==
    IF ran > 0 THEN 0
    ELSE IF heap = << >> THEN MAX_WAIT
    ELSE LET d == tm[heap[1]].deadline - now
         IN  IF d < 0 THEN 0 ELSE IF d > MAX_WAIT THEN MAX_WAIT ELSE d

\* The backend waits, and reports some of the registered descriptors.
Wait ==
    /\ phase = "first" /\ ~MoreTimers
    /\ \E d \in 0 .. WaitFor : now + d <= MaxNow /\ now' = now + d
    /\ \E R \in SUBSET {f \in Fds : evs[f] # None} : batch' = SetToSeq(R)
    /\ phase' = "dispatch" /\ ops' = 0
    /\ UNCHANGED <<heap, tm, evs, ev, ran>>

\* A signal ends the wait and the turn.
Interrupted ==
    /\ phase = "first" /\ ~MoreTimers /\ phase' = "start" /\ ops' = 0
    /\ UNCHANGED <<heap, tm, evs, ev, batch, ran, now>>

\* One entry of the batch, as the branch for epoll has it: the event that the
\* descriptor has now.
Dispatch ==
    /\ phase = "dispatch" /\ batch # << >>
    /\ ops' = IF evs[Head(batch)] # None /\ ev[evs[Head(batch)]].active THEN MaxOps ELSE 0
    /\ batch' = Tail(batch)
    /\ UNCHANGED <<heap, tm, evs, ev, phase, ran, now>>

Dispatched ==
    /\ phase = "dispatch" /\ batch = << >> /\ phase' = "last" /\ ran' = 0 /\ ops' = 0
    /\ now' \in {now, now + 1} /\ now' <= MaxNow         \* the callbacks took their time
    /\ UNCHANGED <<heap, tm, evs, ev, batch>>

End ==
    /\ phase = "last" /\ ~MoreTimers /\ phase' = "start"
    /\ UNCHANGED <<heap, tm, evs, ev, batch, ran, ops, now>>

Step == Start \/ RunTimer \/ Wait \/ Interrupted \/ Dispatch \/ Dispatched \/ End
Next == Step \/ Callback

\* The loop runs on; what a callback does is bounded, so it comes back.  Signals
\* do not end every wait.
Spec == Init /\ [][Next]_vars /\ WF_vars(Step) /\ SF_vars(Wait)
-----------------------------------------------------------------------------
(* Properties                                                              *)

\* The heap holds exactly the active timers, each knows its place in it, and no
\* timer is before its parent: after any additions and removals from callbacks,
\* of timers that are running, due or about to be run.
HeapSound ==
    /\ {t \in Timers : tm[t].active} = ToSet(heap)
    /\ \A i \in DOMAIN heap : tm[heap[i]].idx = i
    /\ \A i \in 2 .. Len(heap) : tm[heap[i \div 2]].deadline <= tm[heap[i]].deadline

\* A timer runs when it is due, and never before one that was due earlier.
InOrder ==
    ran' > ran => \A t \in Timers : tm[t].active /\ ~tm'[t].active =>
      /\ tm[t].deadline <= now
      /\ \A u \in Timers : tm[u].active => tm[t].deadline <= tm[u].deadline

\* The map names only events that are active on that descriptor: a callback that
\* takes another event off the loop, and frees it, leaves nothing behind in the
\* batch being handled that would be called.
MapLive == \A f \in Fds : evs[f] # None => ev[evs[f]].active /\ ev[evs[f]].fd = f

\* The loop never sleeps past the deadline of a timer.
NoOversleep ==
    phase = "first" /\ phase' = "dispatch" =>
      \A t \in Timers : tm[t].active => now' <= now \/ now' <= tm[t].deadline

\* Timers that are added again at once, for ever, do not keep the loop from its
\* descriptors.
DescriptorsServed == []<>(phase = "dispatch")
=============================================================================
