------------------------------- MODULE MCEnds --------------------------------
(***************************************************************************)
(* What comes to an end or to pass by weak fairness, side by side: each      *)
(* behaviour is one of a machine of its own while the others stand still in  *)
(* their first state. Fairness is each machine's own.                        *)
(***************************************************************************)
EXTENDS TcpServer, TLC

VARIABLE which          \* the machine of this behaviour; the others stand still
VARIABLES iter_conf, iter_st, iter_d, iter_fwd, iter_list_off, iter_tried,
          iter_rounds, iter_referrals, iter_restarts, iter_qmin, iter_lame,
          iter_out, iter_kids, iter_dcache, iter_asks, iter_said
VARIABLES val_world, val_ans, val_v, val_cache, val_absent, val_sec,
          val_harm, val_rounds
VARIABLES stale_zone, stale_rr, stale_nx, stale_msg, stale_slot, stale_out,
          stale_theirs, stale_brought, stale_late, stale_due
VARIABLES traits_nature, traits_info, traits_q, traits_task, traits_mid,
          traits_losses, traits_mixed
VARIABLES sock_phase, sock_conf, sock_net, sock_osock, sock_missing,
          sock_backoff, sock_left, sock_given
VARIABLES proc_pc, proc_doing, proc_th, proc_aux, proc_shutdown, proc_g_sig,
          proc_root, proc_began, proc_count, proc_last, proc_total,
          proc_due, proc_sent
VARIABLES axfr_mirror, axfr_phase, axfr_pos, axfr_acc, axfr_dcache

iter_vars == <<iter_conf, iter_st, iter_d, iter_fwd, iter_list_off,
               iter_tried, iter_rounds, iter_referrals, iter_restarts,
               iter_qmin, iter_lame, iter_out, iter_kids, iter_dcache,
               iter_asks, iter_said>>
val_vars == <<val_world, val_ans, val_v, val_cache, val_absent, val_sec,
              val_harm, val_rounds>>
stale_vars == <<stale_zone, stale_rr, stale_nx, stale_msg, stale_slot,
                stale_out, stale_theirs, stale_brought, stale_late,
                stale_due>>
traits_vars == <<traits_nature, traits_info, traits_q, traits_task,
                 traits_mid, traits_losses, traits_mixed>>
sock_vars == <<sock_phase, sock_conf, sock_net, sock_osock, sock_missing,
               sock_backoff, sock_left, sock_given>>
proc_vars == <<proc_pc, proc_doing, proc_th, proc_aux, proc_shutdown,
               proc_g_sig, proc_root, proc_began, proc_count, proc_last,
               proc_total, proc_due, proc_sent>>
axfr_vars == <<axfr_mirror, axfr_phase, axfr_pos, axfr_acc, axfr_dcache>>

\* One worker, one question for every server.
OneQuestion(w, n) == 1

\* Every server: with or without EDNS (refusing it with or without the
\* question), 0x20, a subnet, cookies (its own, or of many machines behind one
\* address), and with answers too big for UDP; ecs-ip-type is part of it.
Natures ==
    {n \in [edns : {"yes", "no", "bare"}, caps : BOOLEAN,
            ecs : {"ignores", "echoes", "garbles", "refuses"},
            cookie : {"none", "keeps", "roams"}, big : BOOLEAN, ecs_type : {"none", "client"}] :
        /\ n.edns # "yes" => n.ecs = "ignores" /\ n.cookie = "none"
        /\ n.ecs # "ignores" => n.ecs_type = "client"
        /\ n.big => n.ecs_type = "client" /\ n.ecs \in {"ignores", "refuses"}}
Usual == [edns |-> "yes", caps |-> TRUE, ecs |-> "ignores", cookie |-> "none", big |-> FALSE,
          ecs_type |-> "none"]

\* A name w below a, in a zone that may be signed, and a signed zone b.  Below a
\* cut that ends the chain the walk comes to w only past a proof that was trimmed.
Parent == "a" :> "root" @@ "w" :> "a" @@ "b" :> "root"
Kinds ==
    {"root" :> "signed" @@ "a" :> x @@ "w" :> y @@ "b" :> "signed" :
        <<x, y>> \in {"signed", "plain", "alias"} \X {"plain", "signed", "unsigned"}
                     \cup {"unsigned", "unsupported", "private"} \X {"plain"}
                     \cup {<<"unsigned", "signed">>}}
OneSet(o, S) == {[owner |-> o, sgn |-> g, by |-> "own", placed |-> TRUE] : g \in S}
\* Signatures that name another signer than the zone of their set, or may do so.
Foreign == {[owner |-> "w", sgn |-> g[1], by |-> g[2], placed |-> TRUE] :
               g \in {<<"bad", "a">>, <<"good", "b">>}}
Given(q, n) == [sets |-> q, neg |-> n, zone |-> "root"]
AllGiven ==
    {Given(<<x>>, "no") : x \in OneSet("w", {"bad", "none"}) \cup Foreign}
    \cup {Given(<<x, y>>, "no") : x \in OneSet("w", {"good", "none"}), y \in OneSet("b", {"good"})}
    \cup {Given(<<x>>, n) : x \in OneSet("b", {"good"}), n \in {"unproved", "optout"}}
    \cup {Given(<<x, y, z>>, "no") : x \in OneSet("b", {"good"}), y \in OneSet("root", {"good"}),
                                     z \in OneSet("w", {"good"})}
    \cup {[sets |-> <<>>, neg |-> "no", zone |-> "b"],
          Given(<<[owner |-> "w", sgn |-> "none", by |-> "own", placed |-> FALSE]>>, "no")}

\* Nameservers: of the root, of the zone below it and of the one below that; f
\* and g are those of a route, and g is held.
NsOf == 0 :> {"r", "s"} @@ 1 :> {"a"} @@ 2 :> {"c"}

\* Three mirrors: a good one, one with too many records, one with glue first.
RR(kind, owner, data) == [kind |-> kind, owner |-> owner, data |-> data]
Soa == RR("soa", "root", "serial")
Other == RR("other", "com", "ds")
Mirrors ==
  << << Soa, RR("ns", "com", "a"), RR("glue", "a", "a1"), RR("ns", "org", "x"),
        RR("ns", "com", "b"), RR("glue", "b", "b1"), RR("ns", "net", "a"), Soa >>,
     << Soa, RR("ns", "com", "a"), RR("glue", "a", "a9"), Other, Other, Other, Other,
        Other, Other, Soa >>,
     << Soa, RR("glue", "a", "a2"), RR("ns", "com", "c"), RR("ns", "net", "y"),
        RR("glue", "c", "c2"), RR("glue", "a", "a3"), RR("ns", "com", "a"), RR("ns", "net", "a"), Soa >> >>

Iter == INSTANCE Iterate WITH
    QLabels <- 3, NS <- {"r", "s", "a", "c", "f", "g"}, NsOf <- NsOf,
    RouteZone <- 1, RouteNs <- {"f", "g"},
    Routes <- {"none", "stub", "forward", "listed"}, Held <- {"g"},
    MAX_TRIED <- 3, MaxRetries <- 1, MaxReferrals <- 2, MAX_CNAME_CHAIN <- 1,
    conf <- iter_conf, st <- iter_st, d <- iter_d, fwd <- iter_fwd,
    list_off <- iter_list_off, tried <- iter_tried, rounds <- iter_rounds,
    referrals <- iter_referrals, restarts <- iter_restarts,
    qmin <- iter_qmin, lame <- iter_lame, out <- iter_out,
    kids <- iter_kids, dcache <- iter_dcache, asks <- iter_asks,
    said <- iter_said

Vld == INSTANCE Val WITH
    Names <- {"root", "a", "w", "b"}, Parent <- Parent, Root <- "root",
    Kinds <- Kinds, Answers <- AllGiven, Routed <- {"a"},
    FaultSets <- {{"lost", "bad"}, {"ttl0"}, {"trim", "other", "lost"}, {"evict"}},
    MAX_SIGNERS <- 2, MAX_STEPS <- 3, FAILED <- 2, FAIL_TRIES <- 2,
    KEPT <- 1, GUARD <- 13, MaxRounds <- 1,
    world <- val_world, ans <- val_ans, v <- val_v, cache <- val_cache,
    absent <- val_absent, sec <- val_sec, harm <- val_harm,
    rounds <- val_rounds

Stl == INSTANCE StaleSets WITH
    VERSIONS <- 1, TTLS <- {1}, NX_CONFIRM <- 2, GAPS <- 1, BUSY <- 2,
    PENDING <- 2,
    zone <- stale_zone, rr <- stale_rr, nx <- stale_nx, msg <- stale_msg,
    slot <- stale_slot, out <- stale_out, theirs <- stale_theirs,
    brought <- stale_brought, late <- stale_late, due <- stale_due

Trt == INSTANCE Traits WITH
    Worker <- {"w1"}, SLOTS <- 3, LOSSES <- 1, QUESTIONS <- OneQuestion,
    Natures <- Natures,
    nature <- traits_nature, info <- traits_info, q <- traits_q,
    task <- traits_task, mid <- traits_mid, losses <- traits_losses,
    mixed <- traits_mixed

Sock == INSTANCE Sockets WITH
    SLOTS <- 4, MAX_SRC <- 2, MAX_BACK <- 3,
    phase <- sock_phase, conf <- sock_conf, net <- sock_net,
    osock <- sock_osock, missing <- sock_missing, backoff <- sock_backoff,
    left <- sock_left, given <- sock_given

Proc == INSTANCE Process WITH
    N <- 1, SIGNALS <- 1, QUERIES <- 1,
    pc <- proc_pc, doing <- proc_doing, th <- proc_th, aux <- proc_aux,
    shutdown <- proc_shutdown, g_sig <- proc_g_sig, root <- proc_root,
    began <- proc_began, count <- proc_count, last <- proc_last,
    total <- proc_total, due <- proc_due, sent <- proc_sent

Xfr == INSTANCE Axfr WITH
    Zones <- Mirrors, MAX_RECORDS <- 9, MAX_NS <- 2, MAX_A <- 2,
    mirror <- axfr_mirror, phase <- axfr_phase, pos <- axfr_pos,
    acc <- axfr_acc, dcache <- axfr_dcache

allvars == <<which, vars, iter_vars, val_vars, stale_vars, traits_vars,
            sock_vars, proc_vars, axfr_vars>>

AnyInit ==
    /\ which \in {"tcp", "iter", "val", "stale", "traits", "sock", "proc",
                 "axfr"}
    /\ Init
    /\ Iter!Init
    /\ Vld!Init
    /\ Stl!Init
    /\ Trt!Init
    /\ which # "traits" => traits_nature = Usual
    /\ Sock!Init
    /\ which # "sock" => sock_conf = [on |-> {4}, have |-> [f \in {4, 6} |-> 0]]
    /\ which # "sock" => sock_net = [a \in DOMAIN sock_net |-> "up"]
    /\ Proc!Init
    /\ Xfr!Init

AnyNext ==
    /\ UNCHANGED which
    /\ IF which = "tcp" THEN Next ELSE UNCHANGED vars
    /\ IF which = "iter" THEN Iter!Next ELSE UNCHANGED iter_vars
    /\ IF which = "val" THEN Vld!Next ELSE UNCHANGED val_vars
    /\ IF which = "stale" THEN Stl!Next ELSE UNCHANGED stale_vars
    /\ IF which = "traits" THEN Trt!Next ELSE UNCHANGED traits_vars
    /\ IF which = "sock" THEN Sock!Next ELSE UNCHANGED sock_vars
    /\ IF which = "proc" THEN Proc!Next ELSE UNCHANGED proc_vars
    /\ IF which = "axfr" THEN Xfr!Next ELSE UNCHANGED axfr_vars

AnySpec ==
    /\ AnyInit /\ [][AnyNext]_allvars
    /\ WF_iter_vars(which = "iter" /\ Iter!Steps)
    /\ WF_iter_vars(which = "iter" /\ Iter!ServerReplies)
    /\ WF_iter_vars(which = "iter" /\ \E k \in iter_kids, got \in BOOLEAN : Iter!AddrDone(k, got))
    /\ WF_val_vars(which = "val" /\ (Vld!Step \/ Vld!Land))
    /\ WF_stale_vars(which = "stale" /\ Stl!Tick)
    /\ WF_stale_vars(which = "stale" /\ Stl!TheyEnd)
    /\ WF_stale_vars(which = "stale" /\ Stl!Ask(FALSE))
    /\ \A k \in Stl!Kinds : WF_stale_vars(which = "stale" /\ Stl!Land(k))
    /\ WF_traits_vars(which = "traits" /\ Trt!Step("w1"))
    /\ WF_sock_vars(which = "sock" /\ Sock!Step)
    /\ WF_proc_vars(which = "proc" /\ Proc!Main)
    /\ \A x \in Proc!Worker : WF_proc_vars(which = "proc" /\ proc_shutdown /\ Proc!WorkerRun(x))
    /\ \A x \in Proc!Aux : WF_proc_vars(which = "proc" /\ Proc!AuxEnd(x))
    /\ WF_axfr_vars(which = "axfr" /\ Xfr!Step)
    /\ \A c \in Conns : WF_vars(which = "tcp" /\ Callback(c))
    /\ \A c \in Conns : WF_vars(which = "tcp" /\ Event(c))
    /\ \A c \in Conns : WF_vars(which = "tcp" /\ Arrive(c))
    /\ \A c \in Conns : WF_vars(which = "tcp" /\ TakeReply(c))
    /\ \A t \in Tasks : WF_vars(which = "tcp" /\ Respond(t))

-----------------------------------------------------------------------------
\* What is installed of a transfer is one whole zone from one mirror, and
\* nothing is if none has one (rootaxfr.c).
OneWholeZone ==
    which = "axfr" =>
        /\ Xfr!OneWholeZone
        /\ Xfr!AllOrNothing

-----------------------------------------------------------------------------
\* What is begun ends: a client's queries are answered and the bytes sent
\* (server.c), an iteration (resolver.c) and a validation (dnssec.c) reach their
\* end, a set served stale is refreshed (mcache.c), a question is settled
\* whatever the server turns out not to do, the sockets come up (outbound.c), the
\* process stops when told to and serves its signals (main.c), and the transfer of
\* the root zone ends (rootaxfr.c).
EverythingEnds ==
    /\ AllServed
    /\ []<>(which = "iter" => Iter!Done)
    /\ Vld!Settles
    /\ Stl!Refreshed
    /\ Trt!Served
    /\ Sock!ComesUp
    /\ Proc!Stops /\ Proc!SignalServed
    /\ []<>(which = "axfr" => axfr_phase = "done")
=============================================================================
