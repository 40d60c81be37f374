----------------------------- MODULE MCMachines ------------------------------
(***************************************************************************)
(* The machines that take many steps, side by side: each behaviour is one of *)
(* a machine of its own while the others stand still in their first state.   *)
(* The machines are a TCP connection, the task tree, the iteration, the      *)
(* validation, the event loop, stale sets and their refreshes, what is       *)
(* learnt of a server, the socket pool, delegations and the process.         *)
(***************************************************************************)
EXTENDS TcpServer, TLC

VARIABLE which          \* the machine of this behaviour; the others stand still
VARIABLES tasks_w, tasks_replies, tasks_asked, tasks_stopped
VARIABLES iter_conf, iter_st, iter_d, iter_fwd, iter_list_off, iter_tried,
          iter_rounds, iter_referrals, iter_restarts, iter_qmin, iter_lame,
          iter_out, iter_kids, iter_dcache, iter_asks, iter_said
VARIABLES val_world, val_ans, val_v, val_cache, val_absent, val_sec,
          val_harm, val_rounds
VARIABLES loop_heap, loop_tm, loop_evs, loop_ev, loop_phase, loop_batch,
          loop_ran, loop_ops, loop_now
VARIABLES stale_zone, stale_rr, stale_nx, stale_msg, stale_slot, stale_out,
          stale_theirs, stale_brought, stale_late, stale_due
VARIABLES traits_nature, traits_info, traits_q, traits_task, traits_mid,
          traits_losses, traits_mixed
VARIABLES sock_phase, sock_conf, sock_net, sock_osock, sock_missing,
          sock_backoff, sock_left, sock_given
VARIABLES deleg_zone, deleg_ent, deleg_at, deleg_xfer, deleg_truth,
          deleg_denial
VARIABLES proc_pc, proc_doing, proc_th, proc_aux, proc_shutdown, proc_g_sig,
          proc_root, proc_began, proc_count, proc_last, proc_total,
          proc_due, proc_sent

tasks_vars == <<tasks_w, tasks_replies, tasks_asked, tasks_stopped>>
iter_vars == <<iter_conf, iter_st, iter_d, iter_fwd, iter_list_off,
               iter_tried, iter_rounds, iter_referrals, iter_restarts,
               iter_qmin, iter_lame, iter_out, iter_kids, iter_dcache,
               iter_asks, iter_said>>
val_vars == <<val_world, val_ans, val_v, val_cache, val_absent, val_sec,
              val_harm, val_rounds>>
loop_vars == <<loop_heap, loop_tm, loop_evs, loop_ev, loop_phase,
               loop_batch, loop_ran, loop_ops, loop_now>>
stale_vars == <<stale_zone, stale_rr, stale_nx, stale_msg, stale_slot,
                stale_out, stale_theirs, stale_brought, stale_late,
                stale_due>>
traits_vars == <<traits_nature, traits_info, traits_q, traits_task,
                 traits_mid, traits_losses, traits_mixed>>
sock_vars == <<sock_phase, sock_conf, sock_net, sock_osock, sock_missing,
               sock_backoff, sock_left, sock_given>>
deleg_vars == <<deleg_zone, deleg_ent, deleg_at, deleg_xfer, deleg_truth,
                deleg_denial>>
proc_vars == <<proc_pc, proc_doing, proc_th, proc_aux, proc_shutdown,
               proc_g_sig, proc_root, proc_began, proc_count, proc_last,
               proc_total, proc_due, proc_sent>>

\* Every server: with or without EDNS (refusing it with or without the
\* question), 0x20, a subnet, cookies (its own, or of many machines behind one
\* address), and with answers too big for UDP; ecs-ip-type is part of it.
Natures ==
    {n \in [edns : {"yes", "no", "bare"}, caps : BOOLEAN,
            ecs : {"ignores", "echoes", "garbles", "refuses"},
            cookie : {"none", "keeps", "roams"}, big : BOOLEAN, ecs_type : {"none", "client"}] :
        /\ n.edns # "yes" => n.ecs = "ignores" /\ n.cookie = "none"
        /\ n.ecs # "ignores" => n.ecs_type = "client"
        /\ n.big => n.ecs_type = "client" /\ n.ecs \in {"ignores", "refuses"}}
Usual == [edns |-> "yes", caps |-> TRUE, ecs |-> "ignores", cookie |-> "none", big |-> FALSE,
          ecs_type |-> "none"]

\* One worker has two questions for every one of them; two workers have one each
\* for those in Shared.
Shared == {n \in Natures : /\ n.edns = "yes" /\ n.cookie = "none" /\ ~n.big
                           /\ n.ecs \in {"echoes", "refuses"}}
Questions(w, n) == IF n \in Shared THEN 1 ELSE IF w = "w1" THEN 2 ELSE 0

\* A name w below a, in a zone that may be signed, and a signed zone b.  Below a
\* cut that ends the chain the walk comes to w only past a proof that was trimmed.
Parent == "a" :> "root" @@ "w" :> "a" @@ "b" :> "root"
Kinds ==
    {"root" :> "signed" @@ "a" :> x @@ "w" :> y @@ "b" :> "signed" :
        <<x, y>> \in {"signed", "plain", "alias"} \X {"plain", "signed", "unsigned"}
                     \cup {"unsigned", "unsupported", "private"} \X {"plain"}
                     \cup {<<"unsigned", "signed">>}}
OneSet(o, S) == {[owner |-> o, sgn |-> g, by |-> "own", placed |-> TRUE] : g \in S}
\* Signatures that name another signer than the zone of their set, or may do so.
Foreign == {[owner |-> "w", sgn |-> g[1], by |-> g[2], placed |-> TRUE] :
               g \in {<<"bad", "a">>, <<"good", "b">>}}
Given(q, n) == [sets |-> q, neg |-> n, zone |-> "root"]
AllGiven ==
    {Given(<<x>>, "no") : x \in OneSet("w", {"bad", "none"}) \cup Foreign}
    \cup {Given(<<x, y>>, "no") : x \in OneSet("w", {"good", "none"}), y \in OneSet("b", {"good"})}
    \cup {Given(<<x>>, n) : x \in OneSet("b", {"good"}), n \in {"unproved", "optout"}}
    \cup {Given(<<x, y, z>>, "no") : x \in OneSet("b", {"good"}), y \in OneSet("root", {"good"}),
                                     z \in OneSet("w", {"good"})}
    \cup {[sets |-> <<>>, neg |-> "no", zone |-> "b"],
          Given(<<[owner |-> "w", sgn |-> "none", by |-> "own", placed |-> FALSE]>>, "no")}

\* Nameservers: of the root, of the zone below it and of the one below that; f
\* and g are those of a route, and g is held.
NsOf == 0 :> {"r", "s"} @@ 1 :> {"a"} @@ 2 :> {"c"}

Tsk == INSTANCE Tasks WITH
    Clients <- {"c1", "c2"}, Keys <- {"k1"}, Ids <- 1 .. 3, Slots <- {1},
    MAX_PENDING <- 2, MAX_DEPTH <- 3, WAITERS <- 2, FAIL_TRIES <- 2,
    Dns64 <- {"c1"},
    w <- tasks_w, replies <- tasks_replies, asked <- tasks_asked,
    stopped <- tasks_stopped

Iter == INSTANCE Iterate WITH
    QLabels <- 3, NS <- {"r", "s", "a", "c", "f", "g"}, NsOf <- NsOf,
    RouteZone <- 1, RouteNs <- {"f", "g"},
    Routes <- {"none", "stub", "forward", "listed"}, Held <- {"g"},
    MAX_TRIED <- 3, MaxRetries <- 1, MaxReferrals <- 2, MAX_CNAME_CHAIN <- 1,
    conf <- iter_conf, st <- iter_st, d <- iter_d, fwd <- iter_fwd,
    list_off <- iter_list_off, tried <- iter_tried, rounds <- iter_rounds,
    referrals <- iter_referrals, restarts <- iter_restarts,
    qmin <- iter_qmin, lame <- iter_lame, out <- iter_out,
    kids <- iter_kids, dcache <- iter_dcache, asks <- iter_asks,
    said <- iter_said

Vld == INSTANCE Val WITH
    Names <- {"root", "a", "w", "b"}, Parent <- Parent, Root <- "root",
    Kinds <- Kinds, Answers <- AllGiven, Routed <- {"a"},
    FaultSets <- {{"lost", "bad"}, {"ttl0"}, {"trim", "other"}, {"evict"}},
    MAX_SIGNERS <- 2, MAX_STEPS <- 3, FAILED <- 2, FAIL_TRIES <- 2,
    KEPT <- 1, GUARD <- 13, MaxRounds <- 2,
    world <- val_world, ans <- val_ans, v <- val_v, cache <- val_cache,
    absent <- val_absent, sec <- val_sec, harm <- val_harm,
    rounds <- val_rounds

Lp == INSTANCE Loop WITH
    Timers <- {"t1", "t2", "t3"}, Events <- {"e1", "e2"},
    Fds <- {"f1", "f2"}, None <- "none", Delays <- {0, 2}, STORM <- 1,
    MAX_WAIT <- 2, MaxOps <- 1, MaxNow <- 2,
    heap <- loop_heap, tm <- loop_tm, evs <- loop_evs, ev <- loop_ev,
    phase <- loop_phase, batch <- loop_batch, ran <- loop_ran,
    ops <- loop_ops, now <- loop_now

Stl == INSTANCE StaleSets WITH
    VERSIONS <- 2, TTLS <- {1}, NX_CONFIRM <- 2, GAPS <- 1, BUSY <- 2,
    PENDING <- 2,
    zone <- stale_zone, rr <- stale_rr, nx <- stale_nx, msg <- stale_msg,
    slot <- stale_slot, out <- stale_out, theirs <- stale_theirs,
    brought <- stale_brought, late <- stale_late, due <- stale_due

Trt == INSTANCE Traits WITH
    Worker <- {"w1", "w2"}, SLOTS <- 3, LOSSES <- 1, QUESTIONS <- Questions,
    Natures <- Natures,
    nature <- traits_nature, info <- traits_info, q <- traits_q,
    task <- traits_task, mid <- traits_mid, losses <- traits_losses,
    mixed <- traits_mixed

Sock == INSTANCE Sockets WITH
    SLOTS <- 4, MAX_SRC <- 2, MAX_BACK <- 3,
    phase <- sock_phase, conf <- sock_conf, net <- sock_net,
    osock <- sock_osock, missing <- sock_missing, backoff <- sock_backoff,
    left <- sock_left, given <- sock_given

Dlg == INSTANCE Delegation WITH
    Worker <- {"w1", "w2"}, EVERY <- 2, RETRY <- 1, MaxVer <- 1, Signed <- 1,
    zone <- deleg_zone, ent <- deleg_ent, at <- deleg_at,
    xfer <- deleg_xfer, truth <- deleg_truth, denial <- deleg_denial

Proc == INSTANCE Process WITH
    N <- 1, SIGNALS <- 2, QUERIES <- 1,
    pc <- proc_pc, doing <- proc_doing, th <- proc_th, aux <- proc_aux,
    shutdown <- proc_shutdown, g_sig <- proc_g_sig, root <- proc_root,
    began <- proc_began, count <- proc_count, last <- proc_last,
    total <- proc_total, due <- proc_due, sent <- proc_sent

allvars == <<which, vars, tasks_vars, iter_vars, val_vars, loop_vars,
            stale_vars, traits_vars, sock_vars, deleg_vars, proc_vars>>

AnyInit ==
    /\ which \in {"tcp", "tasks", "iter", "val", "loop", "stale", "traits",
                 "sock", "deleg", "proc"}
    /\ Init
    /\ Tsk!Init
    /\ Iter!Init
    /\ Vld!Init
    /\ Lp!Init
    /\ Stl!Init
    /\ Trt!Init
    /\ which # "traits" => traits_nature = Usual
    /\ Sock!Init
    /\ which # "sock" => sock_conf = [on |-> {4}, have |-> [f \in {4, 6} |-> 0]]
    /\ which # "sock" => sock_net = [a \in DOMAIN sock_net |-> "up"]
    /\ Dlg!Init
    /\ which # "deleg" => deleg_zone = "root"
    /\ Proc!Init

AnyNext ==
    /\ UNCHANGED which
    /\ IF which = "tcp" THEN Next ELSE UNCHANGED vars
    /\ IF which = "tasks" THEN Tsk!Next ELSE UNCHANGED tasks_vars
    /\ IF which = "iter" THEN Iter!Next ELSE UNCHANGED iter_vars
    /\ IF which = "val" THEN Vld!Next ELSE UNCHANGED val_vars
    /\ IF which = "loop" THEN Lp!Next ELSE UNCHANGED loop_vars
    /\ IF which = "stale" THEN Stl!Next ELSE UNCHANGED stale_vars
    /\ IF which = "traits" THEN Trt!Next ELSE UNCHANGED traits_vars
    /\ IF which = "sock" THEN Sock!Next ELSE UNCHANGED sock_vars
    /\ IF which = "deleg" THEN Dlg!Next ELSE UNCHANGED deleg_vars
    /\ IF which = "proc" THEN Proc!Next ELSE UNCHANGED proc_vars

AnySpec == AnyInit /\ [][AnyNext]_allvars

-----------------------------------------------------------------------------
\* The tasks and what they wait for, through joining, giving up and late
\* replies: none points at a freed task, whoever waits is woken by something
\* still to come, addresses asked for are on their way, a place in flight is
\* taken up, and a client is answered once (resolver.c).
TasksLinked ==
    which = "tasks" =>
        /\ Tsk!NoDangling
        /\ Tsk!Wakeable
        /\ Tsk!AddressesComing
        /\ Tsk!SlotFed
        /\ Tsk!AnsweredOnce

-----------------------------------------------------------------------------
\* Between one fresh start and the next, a server is asked no more often than
\* once and then once per extra round (mark_tried, next_round).
AskedInTurn == which = "iter" => Iter!AskedInTurn

-----------------------------------------------------------------------------
\* The verdict of a validation cut up by lookups, expiry and referrals: secure
\* only with a signed chain down to the signer every RRSIG names, and only then
\* stamped so in the cache; what cannot be shown unsigned fails, unless its
\* RRSIG names no zone or there are more signers than are walked; where every
\* record came whole and nothing is amiss it is not bogus (dnssec.c).
VerdictsTrue ==
    which = "val" =>
        /\ Vld!SecureSound
        /\ Vld!StampsEarned
        /\ Vld!FailsClosed
        /\ Vld!NoFalseAlarm

-----------------------------------------------------------------------------
\* Whatever callbacks add and delete while the loop walks its timers and
\* events: the heap is one, of live timers that know their places, and no
\* descriptor leads to an event that was deleted (loop.c).
LoopSound ==
    which = "loop" =>
        /\ Lp!HeapSound
        /\ Lp!MapLive

-----------------------------------------------------------------------------
\* A slot that says a refresh is out is right: a refresh of its question is
\* in flight, so nobody is held back by the end of one that has ended
\* (stale_refresh_done()).
BusyIsTrue == which = "stale" => Stl!BusyIsTrue

-----------------------------------------------------------------------------
\* What two workers conclude about a server from replies and losses is so: a
\* server that answered a randomised name is sent such names (unless the two
\* judged one of each at the same time), one that speaks EDNS is sent EDNS, one
\* that tailors its answers is sent the subnet; an answer tailored to another
\* subnet is not used, and complaints do not go on for ever (outbound.c).
TraitsTrue ==
    which = "traits" =>
        /\ Trt!MixedIsProof
        /\ Trt!EdnsKept
        /\ Trt!SubnetKept
        /\ Trt!OwnSubnet
        /\ Trt!ThreeComplaints

-----------------------------------------------------------------------------
\* Every slot is open, kept for later or given up at the start, and only one
\* of these: none is opened twice or forgotten by the loop of
\* elpis_out_refill() that opens some while it moves the others down.
Accounted == which = "sock" => Sock!Accounted

-----------------------------------------------------------------------------
\* A refresh of a delegation goes out from one worker at a time, although
\* every worker may notice that it is due.
OneSends == [][Dlg!SendsOnce]_deleg_vars

-----------------------------------------------------------------------------
\* Threads, signals and shutdown: nothing is freed while a thread still runs,
\* also after a start in part; a question taken up in the middle of a flush has
\* servers to begin with; no query is in the totals twice, and those reported
\* last hold what every worker but worker 0 counted (main.c, resolver.c).
ProcessSafe ==
    which = "proc" =>
        /\ Proc!FreedUnused
        /\ Proc!AlwaysAStart
        /\ Proc!TotalsComplete

-----------------------------------------------------------------------------
\* What a step may not do: close a connection while its client is being served,
\* or let its buffers' lengths pass their sizes (server.c); ask a server twice of
\* one list, give up with one unasked, or follow a referral upwards (resolver.c);
\* run timers out of order or sleep past one (loop.c); refresh a set again before
\* its time (mcache.c); change a server's socket slot while it is in use
\* (outbound.c).
MachinesStep ==
    [][/\ which = "tcp" => NotCutShort /\ TypeOK'
       /\ which = "iter" => Iter!NotAskedAgain /\ Iter!GivesUpLast /\ Iter!OnlyDown
       /\ which = "loop" => Lp!InOrder /\ Lp!NoOversleep
       /\ which = "stale" => Stl!NextIsFresh' /\ Stl!Spaced
       /\ which = "sock" => Sock!IndexKept]_allvars
=============================================================================
