------------------------------ MODULE Traits ------------------------------
(***************************************************************************)
(* What a query to a server carries, and what the resolver learns about the  *)
(* server from the replies (src/resolver/outbound.c): build_query() and      *)
(* ecs_decide() choose EDNS, a randomised question name (0x20), a client     *)
(* subnet (ECS) and a cookie by what the infra cache knows; handle_message() *)
(* and its helpers write back what a reply shows and ask again without what  *)
(* was refused.                                                              *)
(*                                                                         *)
(* One server, whose nature the resolver does not know, and some questions   *)
(* for it.  A query may time out while its reply is only late; it is then    *)
(* kept as a probe and the question is asked again.  learn_0x20() reads the  *)
(* infra entry and writes it in separate steps, so two workers interleave    *)
(* there; the other writes to it are single steps (module Infra has theirs). *)
(* A server asks for no cookie over TCP (RFC 7873).                          *)
(***************************************************************************)
EXTENDS Naturals, TLC

CONSTANTS Worker,
          SLOTS,        \* queries in flight (a bound)
          LOSSES,       \* replies that are slow or lost (a bound)
          QUESTIONS(_, _), \* questions a worker has for a server of a nature (a bound)
          Natures       \* the servers considered

Query == 1..SLOTS
NoQuery == [w |-> "none"]

VARIABLES nature,       \* what the server does, see Reply
          info,         \* elpis_infra_info_t, the traits in it
          q,            \* elpis_outq_t
          task,         \* per worker: the question it is at
          mid,          \* per worker: the query learn_0x20() is half done with
          losses,
          mixed         \* history: a randomised name has been answered, see Crossed

vars == <<nature, info, q, task, mid, losses, mixed>>

Sending == {"send", "send_tcp", "send_cookie"}

Idle == [at |-> "idle", ecs |-> FALSE, n |-> 0, again |-> 0, wrong |-> FALSE]

Init ==
    /\ nature \in Natures
    /\ info = [edns |-> "UNKNOWN", caps |-> {}, timeouts |-> 0, ecs_off |-> FALSE,
               cookie |-> FALSE, roam |-> FALSE]
    /\ q = [x \in Query |-> NoQuery]
    /\ task = [w \in Worker |-> Idle]
    /\ mid = [w \in Worker |-> 0]
    /\ losses = 0 /\ mixed = "no"

\* A worker runs one callback at a time.
Free(w) == mid[w] = 0
Slots == {x \in Query : q[x] = NoQuery}

(***************************************************************************)
(* The query.                                                                *)
(***************************************************************************)
\* ecs_decide(): a question that may carry a subnet (not for the root, a TLD,
\* the built-in list or a minimised name), to a server it is not off for.
ecs_decide(w) == task[w].ecs /\ ~info.ecs_off

\* Randomise the name unless the server drops such names; once it has timed out
\* without ever answering one, try a plain name.
Randomises == "NO" \notin info.caps /\ ("OK" \in info.caps \/ info.timeouts = 0)
Tests == "NO" \notin info.caps /\ ~Randomises

\* The name is not randomised over TCP, where a truncated reply sent us.
build_query(w, tcp, cookie_retry) ==
    [w |-> w, late |-> FALSE, tcp |-> tcp, cookie_retry |-> cookie_retry,
     caps |-> ~tcp /\ Randomises, test |-> ~tcp /\ Tests,
     edns |-> info.edns # "NO",
     ecs |-> info.edns # "NO" /\ ecs_decide(w),
     server_cookie |-> info.edns # "NO" /\ info.cookie /\ ~info.roam]

Begin(w) ==
    /\ task[w].at = "idle" /\ Free(w) /\ task[w].n < QUESTIONS(w, nature)
    /\ \E ecs \in BOOLEAN :
          task' = [task EXCEPT ![w] = [Idle EXCEPT !.at = "send", !.ecs = ecs, !.n = task[w].n + 1]]
    /\ UNCHANGED <<nature, info, q, mid, losses, mixed>>

\* The question goes out, first or again (elpis_task_resend()).
Send(w) ==
    /\ task[w].at \in Sending /\ Free(w)
    /\ \E x \in Slots :
          /\ \A y \in Slots : x <= y
          /\ q' = [q EXCEPT ![x] =
                     build_query(w, task[w].at = "send_tcp", task[w].at = "send_cookie")]
    /\ task' = [task EXCEPT ![w].at = "waiting"]
    /\ UNCHANGED <<nature, info, mid, losses, mixed>>

(***************************************************************************)
(* The server's replies to a query: [rcode, opt, question, ecs].             *)
(***************************************************************************)
Msg(rcode, opt, question, ecs) == [rcode |-> rcode, opt |-> opt, question |-> question, ecs |-> ecs]

\* What is asked for, or that it does not fit.
Data(x) ==
    IF nature.big /\ ~q[x].tcp THEN Msg("TC", q[x].edns, TRUE, "none")
    ELSE Msg("NOERROR", q[x].edns, TRUE,
             IF q[x].ecs /\ nature.ecs \in {"echoes", "garbles"} THEN nature.ecs ELSE "none")

Reply(x) ==
    IF q[x].caps /\ ~nature.caps THEN {}
    ELSE IF q[x].edns /\ nature.edns = "no" THEN {Msg("FORMERR", FALSE, TRUE, "none")}
    ELSE IF q[x].edns /\ nature.edns = "bare" THEN {Msg("FORMERR", FALSE, FALSE, "none")}
    ELSE IF q[x].ecs /\ nature.ecs = "refuses" THEN {Msg("FORMERR", o, TRUE, "none") : o \in BOOLEAN}
    ELSE IF q[x].edns /\ ~q[x].tcp /\ nature.cookie # "none" /\ (~q[x].server_cookie \/ nature.cookie = "roams")
         THEN {Msg("BADCOOKIE", TRUE, TRUE, "none")} \cup (IF nature.cookie = "roams" THEN {Data(x)} ELSE {})
    ELSE {Data(x)}

\* bare_edns_refusal(), same_question(): a reply without a question is taken
\* only as a refusal of EDNS, and not from a server that has answered EDNS.
same_question(x, m) ==
    \/ m.question
    \/ q[x].edns /\ ~m.opt /\ m.rcode = "FORMERR" /\ info.edns # "YES"

\* What the reply says of EDNS.  A query with a subnet that is refused is asked
\* again without it before EDNS is given up.
Edns(x, m) ==
    IF ~q[x].edns THEN info.edns
    ELSE IF m.opt THEN "YES"
    ELSE IF m.rcode = "FORMERR" /\ ~q[x].ecs THEN "NO" ELSE info.edns

EdnsRetry(x, m) == q[x].edns /\ ~m.opt /\ m.rcode = "FORMERR" /\ ~q[x].ecs

\* ecs_answer(): refused, or the answer is for some other subnet.
EcsRetry(x, m) == q[x].ecs /\ m.rcode # "TC" /\ (m.rcode = "FORMERR" \/ m.ecs = "garbles")
EcsOff(x, m) ==
    \/ info.ecs_off
    \/ EcsRetry(x, m)
    \/ q[x].ecs /\ m.ecs = "none" /\ m.rcode = "NOERROR" /\ nature.ecs_type # "none"

\* Once per query, with the cookie it came with.
CookieRetry(x, m) == m.rcode = "BADCOOKIE" /\ q[x].edns /\ ~q[x].cookie_retry

\* What the reply leads the task to; a late reply, kept as a probe, to nothing.
Then(w, x, m) ==
    IF q[x].late THEN task[w]
    ELSE IF EcsRetry(x, m) \/ EdnsRetry(x, m)
         THEN [task[w] EXCEPT !.at = IF q[x].tcp THEN "send_tcp" ELSE "send", !.again = @ + 1]
    ELSE IF CookieRetry(x, m)
         THEN [task[w] EXCEPT !.at = "send_cookie", !.again = @ + 1]
    ELSE IF m.rcode = "TC" /\ ~q[x].tcp THEN [task[w] EXCEPT !.at = "send_tcp"]
    ELSE [task[w] EXCEPT !.at = "idle", !.wrong = (m.ecs = "garbles")]

\* The rest of the handler, once the traits of the name are settled.
Rest(w, x, m, caps) ==
    /\ info' = [edns |-> Edns(x, m), caps |-> caps, timeouts |-> 0, ecs_off |-> EcsOff(x, m),
                cookie |-> info.cookie \/ (m.opt /\ nature.cookie # "none"),
                roam |-> info.roam \/ (m.rcode = "BADCOOKIE" /\ q[x].server_cookie /\ ~q[x].late)]
    /\ task' = [task EXCEPT ![w] = Then(w, x, m)]
    /\ q' = [q EXCEPT ![x] = NoQuery]

\* A reply that says nothing about the name: no test, or no question in it.
Hear(w, x) ==
    /\ q[x].w = w /\ Free(w)
    /\ \E m \in Reply(x) :
          /\ same_question(x, m)
          /\ ~((q[x].caps \/ q[x].test) /\ m.question)
          /\ Rest(w, x, m, info.caps)
    /\ UNCHANGED <<nature, mid, losses, mixed>>

\* learn_0x20(), first half: the entry is read (the round trip is noted before).
Learn(w, x) ==
    /\ q[x].w = w /\ Free(w)
    /\ (q[x].caps \/ q[x].test)
    /\ \E m \in Reply(x) :
          /\ m.question
          /\ q' = [q EXCEPT ![x] = @ @@ [m |-> m, saw |-> info.caps]]
    /\ info' = [info EXCEPT !.timeouts = 0]
    /\ mid' = [mid EXCEPT ![w] = x]
    /\ UNCHANGED <<nature, task, losses, mixed>>

\* Mutant: a plain answer is held against a server that has answered both.
Learned_Last(x) == IF q[x].caps THEN {"OK"} ELSE {"NO"}

\* What it makes of what it read, written to the entry as it is now.
Learned(x) ==
    IF q[x].caps THEN (info.caps \cup {"OK"}) \ (IF "NO" \in q[x].saw THEN {"NO"} ELSE {})
    ELSE IF q[x].saw = {} THEN info.caps \cup {"NO"}
    ELSE info.caps

\* History: an answer of the other kind was recorded between the two halves.
Crossed(x) == (IF q[x].caps THEN "NO" ELSE "OK") \in info.caps \ q[x].saw

Learned2(w) ==
    /\ mid[w] # 0 /\ mid' = [mid EXCEPT ![w] = 0]
    /\ LET x == mid[w] IN
          /\ mixed' = IF Crossed(x) THEN "crossed" ELSE IF q[x].caps THEN "yes" ELSE mixed
          /\ Rest(w, x, q[x].m, Learned(x))
    /\ UNCHANGED <<nature, losses>>

\* out_timeout(): the question is asked again, the query listened for a while.
Timeout(w, x) ==
    /\ q[x].w = w /\ Free(w) /\ ~q[x].late
    /\ IF Reply(x) = {} THEN losses' = losses ELSE losses < LOSSES /\ losses' = losses + 1
    /\ info' = [info EXCEPT !.timeouts = 1]
    /\ q' = [q EXCEPT ![x] = IF q[x].tcp THEN NoQuery ELSE [@ EXCEPT !.late = TRUE]]
    /\ task' = [task EXCEPT ![w].at = "send", ![w].again = 0]
    /\ UNCHANGED <<nature, mid, mixed>>

\* It was not coming.
Expire(w, x) ==
    /\ q[x].w = w /\ Free(w) /\ q[x].late
    /\ q' = [q EXCEPT ![x] = NoQuery]
    /\ UNCHANGED <<nature, info, task, mid, losses, mixed>>

Step(w) == Send(w) \/ Learned2(w) \/ \E x \in Query : Hear(w, x) \/ Learn(w, x) \/ Timeout(w, x) \/ Expire(w, x)

Next == \E w \in Worker : Begin(w) \/ Step(w)

\* The loop runs every worker; a reply or a timeout comes for every query.
Spec == Init /\ [][Next]_vars /\ \A w \in Worker : WF_vars(Step(w))

-----------------------------------------------------------------------------
\* "One randomised answer is proof enough that 0x20 is not the problem, and
\* overrides a lowercase one that happened to land first" (learn_0x20()),
\* whichever of the two arrives first and whoever hears it, unless two workers
\* judge one of each at the same time: learn_0x20() reads the entry and writes
\* it later, and then both flags may stand.
MixedIsProof == mixed = "yes" /\ (\A w \in Worker : Free(w)) => "NO" \notin info.caps

\* A server that tailors its answers to the subnet it is sent is never marked
\* as one to keep it from, nor is one that only says nothing of it when it is
\* the /0 of ecs-ip-type: none (ecs_answer()).
SubnetKept ==
    info.ecs_off =>
        /\ nature.ecs # "echoes"
        /\ nature.edns = "yes" /\ nature.ecs = "ignores" => nature.ecs_type # "none"

\* EDNS, and DNSSEC with it, is never given up for a server that speaks it,
\* whatever it thinks of the subnet, the cookie or the case of the name.
EdnsKept == nature.edns = "yes" => info.edns # "NO"

\* An answer made for another subnet than the one sent is never the task's.
OwnSubnet == \A w \in Worker : ~task[w].wrong

\* A server's complaints make a question go again at most three times between
\* two time-outs: without the subnet, without EDNS, with its cookie.
ThreeComplaints == \A w \in Worker : task[w].again <= 3

\* Every question is settled, by an answer or a failure the task takes to the
\* next server, once the losses are over, whatever the server's nature: it is
\* not asked for ever in a form that it drops or complains of.
Served == \A w \in Worker : []<>(task[w].at = "idle")
=============================================================================
