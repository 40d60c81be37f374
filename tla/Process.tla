------------------------------ MODULE Process ------------------------------
(***************************************************************************)
(* The life of the process (src/main.c): main() starts the other threads,    *)
(* runs worker 0's loop and the signals' work between its turns, and at the  *)
(* end waits for every thread it started before it frees what they use.      *)
(* Every worker counts for itself and adds to the shared totals once a       *)
(* second and when it ends (publish_stats).                                  *)
(***************************************************************************)
EXTENDS Naturals, FiniteSets, Functions

CONSTANTS N,                \* workers besides worker 0
          SIGNALS, QUERIES  \* bounds: signals other than quit, queries per worker

Worker == 1..N
Aux == {"axfr", "probe", "web"}
Sig == {"hup", "usr1", "usr2"}

VARIABLES pc, doing,   \* where main() is; in the midst of a signal's work
          th, aux,     \* per worker, per other thread: "none", "run", "done"
          shutdown,    \* ctx.shutdown
          g_sig,       \* the flags on_signal() sets
          root,        \* the delegation cache holds the root
          began,       \* where the last resolution began
          count, last, \* per worker: its counters; as last published
          total,       \* ctx.stats
          due,         \* history: signals whose work has not begun since they came
          sent         \* bound: signals sent
vars == <<pc, doing, th, aux, shutdown, g_sig, root, began, count, last, total, due, sent>>

Init ==
    /\ pc = "start" /\ doing = FALSE
    /\ th = [w \in Worker |-> "none"] /\ aux = [t \in Aux |-> "none"]
    /\ shutdown = FALSE /\ g_sig = {} /\ root = TRUE /\ began = "none"
    /\ count = [w \in 0..N |-> 0] /\ last = count /\ total = 0
    /\ due = {} /\ sent = 0

-----------------------------------------------------------------------------
\* on_signal(), in whatever thread it lands.
Signal(s) ==
    /\ pc \notin {"start", "done"}
    /\ IF s = "quit" THEN s \notin g_sig ELSE sent < SIGNALS
    /\ g_sig' = g_sig \cup {s}
    /\ due' = due \cup ({s} \cap Sig) /\ sent' = IF s = "quit" THEN sent ELSE sent + 1
    /\ UNCHANGED <<pc, doing, th, aux, shutdown, root, began, count, last, total>>

\* main() creates its threads; each may fail, and after a worker that fails no
\* other is tried.
Start ==
    /\ pc = "start" /\ pc' = "loop"
    /\ \E k \in 0..N : th' = [w \in Worker |-> IF w <= k THEN "run" ELSE "none"]
    /\ aux' \in [Aux -> {"none", "run"}]
    /\ UNCHANGED <<doing, shutdown, g_sig, root, began, count, last, total, due, sent>>

\* elpis_dcache_closest(), for a name below no delegation but the root's.
elpis_dcache_closest == IF root THEN "cache" ELSE "nowhere"

\* Mutant: the cache is taken to hold the root at all times.
Closest_Cache == elpis_dcache_closest

\* Where task_run() begins: the cache's closest, the hints when there is none.
Closest == IF elpis_dcache_closest = "nowhere" THEN "hints" ELSE elpis_dcache_closest

\* A worker takes a question up.
Query(w) ==
    /\ count[w] < QUERIES /\ count' = [count EXCEPT ![w] = @ + 1]
    /\ began' = Closest
    /\ UNCHANGED <<pc, doing, th, aux, shutdown, g_sig, root, last, total, due, sent>>

publish_stats(w) ==
    /\ total' = total + (count[w] - last[w])
    /\ last' = [last EXCEPT ![w] = count[w]]

\* maint_tick()
Tick(w) ==
    /\ last[w] # count[w] /\ publish_stats(w)
    /\ UNCHANGED <<pc, doing, th, aux, shutdown, g_sig, root, began, count, due, sent>>

\* What elpis_worker_run() does when its loop is over.
Leave(w) == publish_stats(w)

\* elpis_worker_run()
WorkerRun(w) ==
    /\ th[w] = "run"
    /\ \/ ~shutdown /\ (Query(w) \/ Tick(w))
       \/ shutdown /\ Leave(w) /\ th' = [th EXCEPT ![w] = "done"]
          /\ UNCHANGED <<pc, doing, aux, shutdown, g_sig, root, began, count, due, sent>>

\* A thread ends: axfr_main() after its transfer, probe_main() and
\* elpis_webui_main() when they see the shutdown.
Ends(t) == t = "axfr" \/ shutdown

AuxEnd(t) ==
    /\ aux[t] = "run" /\ Ends(t) /\ aux' = [aux EXCEPT ![t] = "done"]
    /\ UNCHANGED <<pc, doing, th, shutdown, g_sig, root, began, count, last, total, due, sent>>

\* probe_main() without an interval, elpis_webui_main() that cannot listen.
AuxEarly(t) ==
    /\ aux[t] = "run" /\ t # "axfr" /\ aux' = [aux EXCEPT ![t] = "done"]
    /\ UNCHANGED <<pc, doing, th, shutdown, g_sig, root, began, count, last, total, due, sent>>

-----------------------------------------------------------------------------
\* elpis_loop_once() for worker 0, any number of times, and then the flags.
Loop0 == pc = "loop" /\ (Query(0) \/ Tick(0))

\* The flags when the work of s begins and ends.
Flags(s, at) == IF at = "begin" THEN g_sig \ {s} ELSE g_sig

\* The order in which main() looks at them, after "quit".
After(s) == CASE s = "hup" -> "usr1" [] s = "usr1" -> "usr2" [] s = "usr2" -> "loop"

Look ==
    /\ pc = "loop"
    /\ IF "quit" \in g_sig THEN shutdown' = TRUE /\ pc' = "join"
       ELSE shutdown' = shutdown /\ pc' = "hup"
    /\ UNCHANGED <<doing, th, aux, g_sig, root, began, count, last, total, due, sent>>

\* The caches are flushed first, which takes the root away; its hints are put
\* back at the end of the work.
Begin(s) ==
    /\ pc = s /\ ~doing
    /\ IF s \in g_sig
       THEN /\ g_sig' = Flags(s, "begin") /\ due' = due \ {s}
            /\ doing' = TRUE /\ pc' = pc /\ root' = (root /\ s # "usr2")
       ELSE pc' = After(s) /\ UNCHANGED <<doing, g_sig, due, root>>
    /\ UNCHANGED <<th, aux, shutdown, began, count, last, total, sent>>

End(s) ==
    /\ pc = s /\ doing /\ doing' = FALSE /\ pc' = After(s)
    /\ g_sig' = Flags(s, "end") /\ root' = TRUE
    /\ UNCHANGED <<th, aux, shutdown, began, count, last, total, due, sent>>

\* Every thread that was started has ended.
Joined == (\A w \in Worker : th[w] # "run") /\ \A t \in Aux : aux[t] # "run"

\* pthread_join() of all, then elpis_stats_report().
Join == /\ pc = "join" /\ Joined /\ pc' = "free"
        /\ UNCHANGED <<doing, th, aux, shutdown, g_sig, root, began, count, last, total, due, sent>>

\* elpis_worker_fini() of all, elpis_ctx_fini().
Free == /\ pc = "free" /\ pc' = "done"
        /\ UNCHANGED <<doing, th, aux, shutdown, g_sig, root, began, count, last, total, due, sent>>

Main == Start \/ Look \/ (\E s \in Sig : Begin(s) \/ End(s)) \/ Join \/ Free

Next ==
    \/ \E s \in Sig \cup {"quit"} : Signal(s)
    \/ Main \/ Loop0
    \/ \E w \in Worker : WorkerRun(w)
    \/ \E t \in Aux : AuxEnd(t) \/ AuxEarly(t)

\* Every turn of a loop ends: they wait 200 ms, 500 ms, 250 ms and 1 s at most,
\* and a request, a probe and the transfer have time limits of their own.
Spec ==
    /\ Init /\ [][Next]_vars /\ WF_vars(Main)
    /\ \A w \in Worker : WF_vars(shutdown /\ WorkerRun(w))
    /\ \A t \in Aux : WF_vars(AuxEnd(t))

-----------------------------------------------------------------------------
\* SIGTERM ends the process, whatever the other threads are doing and whatever
\* other signals come.
Stops == []<>("quit" \in g_sig => pc = "done")

\* A signal is acted on after it comes, also one that comes while the work of an
\* earlier one of its kind is under way, unless the process ends.
SignalServed == \A s \in Sig : []<>(s \notin due \/ shutdown)

\* What the threads use is freed when none of them runs.
FreedUnused == pc \in {"free", "done"} => Range(th) \cup Range(aux) \subseteq {"none", "done"}

\* A question taken up while SIGUSR2 is emptying the caches has servers to begin
\* with ("the resolver has nowhere to start after a flush" without them).
AlwaysAStart == began # "nowhere"

\* At any time no query is in the totals twice, and the final report has every
\* query of the workers that were waited for.  Worker 0 is not one of them: what
\* it counted since its last tick is in no report, since main() does not publish
\* it when its loop is over.
TotalsComplete ==
    /\ total = SumFunction(last)
    /\ \A w \in 0..N : last[w] <= count[w]
    /\ pc = "free" => \A w \in Worker : last[w] = count[w]
=============================================================================
