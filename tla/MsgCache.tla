----------------------------- MODULE MsgCache ------------------------------
(***************************************************************************)
(* The message cache's entry for ONE question (src/cache/mcache.c), the    *)
(* clients served from it, and the background refreshes they set off       *)
(* (elpis_prefetch_start(), task_finish(), note_refresh_outcome()).        *)
(*                                                                         *)
(* A worker runs one handler at a time.  Inside a handler it takes the     *)
(* shard's lock shared (to serve, and to count an outcome, both of which   *)
(* WRITE the entry) or exclusive (to store and to remove); the steps here  *)
(* are the stretches between those locks, and the two halves of a write    *)
(* made under the shared lock, which other readers can come between.       *)
(*                                                                         *)
(* Abstractions: the message's bytes; the trimming of a reply that is too  *)
(* long; the RRset cache.  The security verdict and the early returns of   *)
(* cache_store_answer() are the outcome "answer0": usable, not stored.     *)
(***************************************************************************)
EXTENDS Integers, Sequences

CONSTANTS
    Workers,
    TaskIds,       \* bound: the tasks in flight for this question
    Outcomes,      \* how a task can end, of the four in OutcomeNames
    Ttl,           \* the TTL every stored answer has
    SERVE_STALE,   \* serve-stale, seconds past the TTL
    PREFETCH_PCT,  \* prefetch-threshold
    REFRESH_MAX,   \* where the two nibbles of ment_t.refresh stop (15)
    NX_CONFIRM,    \* refresh-nxdomain-confirmations, at most REFRESH_MAX
    BOOT, MaxNow   \* bounds: the first and the last second of a behaviour; an
                   \* entry may be a minute old, so BOOT >= 64

OutcomeNames == {"answer", "answer0", "nxdomain", "failed"}

NoEntry == [rcode |-> "none", stored |-> 0, fails |-> 0, nx |-> 0,
            prefetch_at |-> 0]
NoTask == "none"
\* saw is history: what the entry said when nxdomain_storable() looked.
Idle == [pc |-> "idle", id |-> "none", outcome |-> "none", fails |-> 0, nx |-> 0,
         prefetch_at |-> 0, at |-> 0, saw |-> "none"]

VARIABLES
    entry,    \* ment_t, or NoEntry
    now,      \* elpis_cached_now_s()
    task,     \* the tasks asking this question: for a client, or a refresh
    job,      \* per worker: the handler it is in, and what it has read
    told,     \* history: the refreshes of entry that came back NXDOMAIN since one
              \* did not, unless another count was under way and may undo that
    sure      \* history: how many of them in a row were counted one by one

vars == <<entry, now, task, job, told, sure>>

TypeOK ==
    /\ entry \in [rcode : {"none", "NOERROR", "NXDOMAIN"}, stored : Nat,
                  fails : 0..REFRESH_MAX, nx : 0..REFRESH_MAX, prefetch_at : Nat]
    /\ now \in BOOT..MaxNow
    /\ task \in [TaskIds -> {"none", "client", "refresh"}]
    /\ job \in [Workers -> [pc : {"idle", "serve", "store", "outcome", "count",
                                  "drop"},
                            id : TaskIds \cup {"none"},
                            outcome : OutcomeNames \cup {"none"},
                            fails : 0..REFRESH_MAX, nx : 0..REFRESH_MAX, prefetch_at : Nat,
                            at : Nat, saw : {"none", "NOERROR", "NXDOMAIN"}]]
    /\ told \in 0..NX_CONFIRM /\ sure \in 0..NX_CONFIRM

Init ==
    /\ entry = NoEntry /\ now = BOOT
    /\ task = [i \in TaskIds |-> NoTask]
    /\ job = [w \in Workers |-> Idle]
    /\ told = 0 /\ sure = 0

-----------------------------------------------------------------------------
Cached == entry # NoEntry
Least(a, b) == IF a < b THEN a ELSE b

\* No reader is inside the shared lock, so the exclusive one can be had.
Unlocked == \A w \in Workers : job[w].pc \notin {"serve", "count"}

Elapsed == now - entry.stored
Remaining == IF Elapsed >= Ttl THEN 0 ELSE Ttl - Elapsed
TooStale == Remaining = 0 /\ Elapsed > Ttl + SERVE_STALE
WantsRefresh == PREFETCH_PCT > 0 /\ Remaining <= (Ttl * PREFETCH_PCT) \div 100
Wait(fails) == 2 ^ Least(fails, 6)

Free == {i \in TaskIds : task[i] = NoTask}

\* elpis_task_new() for this question: at half of max-pending, no task.
Start(kind) ==
    IF Free = {} THEN UNCHANGED task
    ELSE \E i \in Free : task' = [task EXCEPT ![i] = kind]

\* elpis_mcache_serve() as far as the read of the refresh stamp.  (A hit that
\* is not due for a refresh changes nothing.)
Serve(w) ==
    /\ job[w].pc = "idle" /\ Cached /\ ~TooStale /\ WantsRefresh
    /\ job' = [job EXCEPT ![w] = [Idle EXCEPT !.pc = "serve",
                 !.fails = entry.fails, !.prefetch_at = entry.prefetch_at,
                 !.at = now]]
    /\ UNCHANGED <<entry, now, task, told, sure>>

\* ... the stamp, the release of the lock, and elpis_prefetch_start().
Stamp(w) ==
    /\ job[w].pc = "serve"
    /\ IF job[w].at - job[w].prefetch_at >= Wait(job[w].fails)
       THEN entry' = [entry EXCEPT !.prefetch_at = job[w].at] /\ Start("refresh")
       ELSE UNCHANGED <<entry, task>>
    /\ job' = [job EXCEPT ![w] = Idle]
    /\ UNCHANGED <<now, told, sure>>

\* A client finds nothing it may be served, and a task asks for it.
Miss(w) ==
    /\ job[w].pc = "idle" /\ (~Cached \/ TooStale)
    /\ Start("client")
    /\ UNCHANGED <<entry, now, job, told, sure>>

NxdomainStorable(kind) == kind = "client" \/ entry.rcode = "NXDOMAIN"

\* task_finish() as far as the decision what to tell the message cache.
Finish(w, i, outcome) ==
    /\ job[w].pc = "idle" /\ task[i] # NoTask
    /\ \A v \in Workers : job[v].id # i
    /\ LET kind == task[i]
           stored == \/ outcome = "answer"
                     \/ outcome = "nxdomain" /\ NxdomainStorable(kind)
           counted == ~stored /\ outcome # "answer0" /\ kind = "refresh"
       IN  IF stored \/ counted
           THEN /\ job' = [job EXCEPT ![w] = [Idle EXCEPT !.id = i,
                             !.outcome = outcome, !.saw = entry.rcode,
                             !.pc = IF stored THEN "store" ELSE "outcome"]]
                /\ UNCHANGED task
           ELSE task' = [task EXCEPT ![i] = NoTask] /\ UNCHANGED job
    /\ UNCHANGED <<entry, now, told, sure>>

Fresh(outcome) ==
    [rcode |-> IF outcome = "answer" THEN "NOERROR" ELSE "NXDOMAIN",
     stored |-> now, fails |-> 0, nx |-> 0, prefetch_at |-> 0]

\* elpis_mcache_store(): the new message replaces whatever is there.
Store(w) ==
    /\ job[w].pc = "store" /\ Unlocked
    /\ entry' = Fresh(job[w].outcome) /\ told' = 0 /\ sure' = 0
    /\ task' = [task EXCEPT ![job[w].id] = NoTask]
    /\ job' = [job EXCEPT ![w] = Idle]
    /\ UNCHANGED now

\* elpis_mcache_refresh_outcome(): the counts are read under the shared lock.
Outcome(w) ==
    /\ job[w].pc = "outcome"
    /\ IF Cached
       THEN /\ job' = [job EXCEPT ![w].pc = "count", ![w].fails = entry.fails,
                                  ![w].nx = entry.nx]
            /\ UNCHANGED task
       ELSE /\ job' = [job EXCEPT ![w] = Idle]
            /\ task' = [task EXCEPT ![job[w].id] = NoTask]
    /\ UNCHANGED <<entry, now, told, sure>>

Denials_NeverReset(nx, outcome) == IF outcome = "nxdomain" THEN nx + 1 ELSE nx

Denials(nx, outcome) == IF outcome = "nxdomain" THEN nx + 1 ELSE 0

Confirms(nx) == nx >= NX_CONFIRM

Nibble(n) == Least(n, REFRESH_MAX)

\* Another worker has read the counts and not written them yet.
Overlapped(w) == \E v \in Workers \ {w} : job[v].pc = "count"

\* The counts are not those w has read: another worker's came in between.
Overtaken(w) == <<job[w].fails, job[w].nx>> # <<entry.fails, entry.nx>>

\* ... and written, and the lock released.
Count(w) ==
    LET nx == Denials(job[w].nx, job[w].outcome)
        drop == job[w].outcome = "nxdomain" /\ Confirms(nx)
    IN  /\ job[w].pc = "count"
        /\ entry' = [entry EXCEPT !.fails = Nibble(job[w].fails + 1),
                                  !.nx = Nibble(nx)]
        /\ IF job[w].outcome = "nxdomain"
           THEN /\ told' = Least(told + 1, NX_CONFIRM)
                /\ sure' = IF Overtaken(w) THEN 1 ELSE Least(sure + 1, NX_CONFIRM)
           ELSE told' = (IF Overlapped(w) THEN told ELSE 0) /\ sure' = 0
        /\ IF drop
           THEN job' = [job EXCEPT ![w].pc = "drop"] /\ UNCHANGED task
           ELSE /\ job' = [job EXCEPT ![w] = Idle]
                /\ task' = [task EXCEPT ![job[w].id] = NoTask]
        /\ UNCHANGED now

\* elpis_cache_remove(): whatever the question has in the cache by now.
Drop(w) ==
    /\ job[w].pc = "drop" /\ Unlocked
    /\ entry' = NoEntry /\ told' = 0 /\ sure' = 0
    /\ task' = [task EXCEPT ![job[w].id] = NoTask]
    /\ job' = [job EXCEPT ![w] = Idle]
    /\ UNCHANGED now

\* CLOCK, which may take any entry when the shard is over its budget, or
\* elpis_cache_expire(), past hdr.expiry.
Forget ==
    /\ Cached /\ Unlocked
    /\ entry' = NoEntry /\ told' = 0 /\ sure' = 0
    /\ UNCHANGED <<now, task, job>>

Tick ==
    /\ now < MaxNow
    /\ now' = now + 1
    /\ UNCHANGED <<entry, task, job, told, sure>>

Next ==
    \/ \E w \in Workers :
         \/ Serve(w) \/ Stamp(w) \/ Miss(w) \/ Store(w) \/ Outcome(w)
         \/ Count(w) \/ Drop(w)
         \/ \E i \in TaskIds, outcome \in Outcomes : Finish(w, i, outcome)
    \/ Forget
    \/ Tick

Spec == Init /\ [][Next]_vars

-----------------------------------------------------------------------------
(* Properties.                                                              *)

\* docs/caching.md, "it has to repeat refresh-nxdomain-confirmations times in
\* a row before the records are dropped": a refresh decides to remove an answer
\* only when NX_CONFIRM refreshes of THAT answer came back NXDOMAIN, with none
\* counted between them that did not, unless its count was overwritten.
Confirmed ==
    \A w \in Workers :
      job[w].pc = "count" /\ job'[w].pc = "drop" => told' >= NX_CONFIRM

\* docs/caching.md, "above it the records are dropped and the next query
\* resolves for real": an answer denied that often in a row, one count after the
\* other, is on its way out.
Believed == sure >= NX_CONFIRM => \E w \in Workers : job[w].pc = "drop"

\* nxdomain_storable(): a refresh puts no NXDOMAIN in the place of an answer
\* that said the name exists, unless that answer came after it had looked and
\* had found an NXDOMAIN.
PositiveStands ==
    \A w \in Workers :
      /\ job[w].pc = "store" /\ job'[w].pc = "idle"
      /\ task[job[w].id] = "refresh" /\ entry.rcode = "NOERROR"
      => entry'.rcode = "NOERROR" \/ job[w].saw = "NXDOMAIN"

=============================================================================
