------------------------------- MODULE Answer -------------------------------
(***************************************************************************)
(* How an answer is put together, judged, kept and handed out: cache_try,  *)
(* what on_response keeps of a reply, the verdicts written back,           *)
(* task_finish and cache_store_answer (src/src/resolver/resolver.c), over  *)
(* the RRset cache and the message cache that all workers share.           *)
(*                                                                         *)
(* How a server is found and what it takes to check a signature are other  *)
(* modules (Iterate, Val).  Here a reply simply arrives, and a record      *)
(* carries what checking it would find: version 0 of an RRset is one whose *)
(* signature fails, 1 and 2 are two that stand, as a rotating RRset has    *)
(* them.  EDNS Client Subnet is on, with the client's own subnet.          *)
(***************************************************************************)
EXTENDS Naturals, FiniteSets

CONSTANTS Names, Above,         \* the names above each name
          Worlds,               \* what the zones hold: see Choose
          Subnets, Nil,         \* client subnets; Nil is no subnet
          Tasks,                \* resolutions that may run at once
          MAX_CHAIN,            \* ELPIS_MAX_CNAME_CHAIN
          MaxAsks, MaxLapses    \* bounds: questions asked, entries that age

VARIABLES world, rc, mc, task, asks, lapses
vars == <<world, rc, mc, task, asks, lapses>>

Keys == Names \X {"T", "CNAME", "NX"}
MKeys == Names \X BOOLEAN \X (Subnets \cup {"all"})

\* Records, what is cached of an RRset and of a message, and resolutions.
Versions3 == 0 .. 2
Ages == {"fresh", "old", "lapsed"}
Recs == [own : Names, typ : {"T", "CNAME", "SOA"}, ver : Versions3, age : Ages,
         view : Subnets \cup {"all", "here"}]
Secs == {"unchecked", "indeterminate", "insecure", "secure", "bogus"}
RcEntries == [neg : BOOLEAN, ver : Versions3, sec : {"unchecked", "insecure", "secure"},
              age : Ages, local : BOOLEAN, view : {"all", "here"}]
McEntries == [recs : SUBSET Recs, rcode : {"ok", "nx"}, ad : BOOLEAN, local : BOOLEAN,
              behind : BOOLEAN]
Resolutions ==
    [stage : {"look", "ask", "judge", "finish"}, orig : Names, qname : Names, cd : BOOLEAN,
     sub : Subnets \cup {Nil}, refresh : BOOLEAN, again : BOOLEAN, restarts : Nat,
     ans : SUBSET Recs, rcode : {"ok", "nx", "servfail"}, sec : Secs, tailored : BOOLEAN,
     local : BOOLEAN, lost : BOOLEAN, twice : BOOLEAN, behind : BOOLEAN]
Free == [stage |-> "free"]

\* Every world is one: aliases point at names, and a reply whose records depend
\* on the subnet says so, those it brings along for its target included.
ASSUME WorldsAssumption ==
    \A w \in Worlds :
        /\ w.has \in [Names -> {"alias", "data", "nodata", "nx"}] /\ w.to \in [Names -> Names]
        /\ w.signed \subseteq Names /\ w.tailors \subseteq Names
        /\ w.along \in BOOLEAN
        /\ w.asked \subseteq Names \X BOOLEAN \X (Subnets \cup {Nil})
        /\ w.along => \A n \in Names :
              w.has[n] = "alias" /\ w.to[n] \in w.tailors => n \in w.tailors
ASSUME AboveAssumption == Above \in [Names -> SUBSET Names]
ASSUME ChainAssumption == MAX_CHAIN \in Nat
\* Nil stands apart from all else, and "all" and "here" are no subnets.
ASSUME NilAssumption ==
    /\ Nil \notin Worlds /\ Nil \notin RcEntries /\ Nil \notin McEntries
    /\ Nil \notin Subnets \cup {"all", "here"}
    /\ "all" \notin Subnets /\ "here" \notin Subnets

Init ==
    /\ world = Nil
    /\ rc = [k \in Keys |-> Nil]
    /\ mc = [k \in MKeys |-> Nil]
    /\ task = [i \in Tasks |-> Free]
    /\ asks = 0 /\ lapses = 0

\* What the zones hold: for each name whether it is an alias, has the data, has
\* none, or does not exist; where an alias points; whether its zone is signed,
\* may hand out records that fail, hands out now one version and now another,
\* and answers each subnet differently; whether a reply with an alias also
\* brings the records of its target; and the questions clients ask (name, CD
\* and subnet).
Choose ==
    /\ world = Nil /\ world' \in Worlds
    /\ UNCHANGED <<rc, mc, task, asks, lapses>>
-----------------------------------------------------------------------------
(* The answer being assembled                                              *)

Tailored(r) == r.view \in Subnets
Has(ans, k) == \E r \in ans : <<r.own, r.typ>> = k

\* add_rrset(): not over a copy the answer already has.
Added(ans, r) == IF Has(ans, <<r.own, r.typ>>) THEN ans ELSE ans \cup {r}

\* elpis_sec_link() and chain_sec(): an answer is worth its weakest link.
Rank == [indeterminate |-> 1, insecure |-> 2, secure |-> 3]
Linked(a, b) ==
    IF "bogus" \in {a, b} THEN "bogus"
    ELSE IF "unchecked" \in {a, b} THEN "unchecked"
    ELSE IF Rank[b] < Rank[a] THEN b ELSE a

Chained(t, link) == IF t.restarts = 0 THEN link ELSE Linked(t.sec, link)
-----------------------------------------------------------------------------
(* From the cache                                                          *)

\* elpis_rcache_get(), stale_lapsed() and ecs_usable(): an entry past its TTL
\* is served until its signatures run out; one that is the view from here is
\* not for a client with a subnet of its own.
Usable(t, e) == e # Nil /\ e.age # "lapsed" /\ (e.local => t.sub = Nil)

Taken(t, k, e) ==
    [t EXCEPT !.ans = Added(@, [own |-> k[1], typ |-> IF e.neg THEN "SOA" ELSE k[2],
                                ver |-> e.ver, age |-> e.age, view |-> e.view]),
              !.sec = Chained(t, e.sec),
              !.local = @ \/ e.local]

\* What stands for the nonexistence of n: the name's own marker, then the one
\* of a name above it (RFC 8020).
Denials(t) ==
    {k \in {<<t.qname, "NX">>} : Usable(t, rc[k]) /\ rc[k].age = "fresh"}
        \cup {k \in Above[t.qname] \X {"NX"} : rc[k] # Nil /\ rc[k].age = "fresh"}

\* cache_try(), one link of it.  A refresh never looks here.
Exact(i) ==
    LET t == task[i]
        k == <<t.qname, "T">>
        u == Taken(t, k, rc[k])
    IN  /\ t.stage = "look" /\ ~t.refresh /\ Usable(t, rc[k])
        /\ task' = [task EXCEPT ![i] =
               [u EXCEPT !.stage = IF ~rc[k].neg /\ u.sec = "unchecked" THEN "judge"
                                   ELSE "finish"]]
        /\ UNCHANGED <<world, rc, mc, asks, lapses>>

Alias(i) ==
    LET t == task[i]
        k == <<t.qname, "CNAME">>
    IN  /\ t.stage = "look" /\ ~t.refresh /\ ~Usable(t, rc[<<t.qname, "T">>])
        /\ Usable(t, rc[k])
        /\ task' = [task EXCEPT ![i] =
               [Taken(t, k, rc[k]) EXCEPT
                   !.qname = world.to[t.qname], !.restarts = @ + 1,
                   !.stage = IF t.restarts < MAX_CHAIN THEN "look" ELSE "ask"]]
        /\ UNCHANGED <<world, rc, mc, asks, lapses>>

Gone(i) ==
    LET t == task[i]
    IN  /\ t.stage = "look" /\ ~t.refresh
        /\ ~Usable(t, rc[<<t.qname, "T">>]) /\ ~Usable(t, rc[<<t.qname, "CNAME">>])
        /\ \E k \in Denials(t) :
             /\ k[1] = t.qname \/ <<t.qname, "NX">> \notin Denials(t)
             /\ task' = [task EXCEPT ![i] =
                    [Taken(t, k, rc[k]) EXCEPT
                        !.rcode = "nx", !.stage = "finish",
                        !.local = IF k[1] = t.qname THEN @ ELSE t.local]]
        /\ UNCHANGED <<world, rc, mc, asks, lapses>>

Miss(i) ==
    LET t == task[i]
    IN  /\ t.stage = "look"
        /\ t.refresh \/ (/\ ~Usable(t, rc[<<t.qname, "T">>])
                         /\ ~Usable(t, rc[<<t.qname, "CNAME">>]) /\ Denials(t) = {})
        /\ task' = [task EXCEPT ![i].stage = "ask"]
        /\ UNCHANGED <<world, rc, mc, asks, lapses>>
-----------------------------------------------------------------------------
(* Off the wire                                                            *)

\* ecs_decide() and on_response(): a reply to a subnet that makes a difference
\* is tailored; one without a subnet is the view from here.
ViewOf(t, n) ==
    IF n \notin world.tailors THEN "all" ELSE IF t.sub = Nil THEN "here" ELSE t.sub
Versions(n) ==
    {1} \cup (IF n \in world.rotates THEN {2} ELSE {}) \cup (IF n \in world.faulty THEN {0} ELSE {})
TypeOf(n) == CASE world.has[n] = "alias" -> "CNAME"
               [] world.has[n] = "data" -> "T"
               [] OTHER -> "SOA"

\* The records of a reply to a question for n.
Replies(t, n) ==
    LET rec(m, w) == [own |-> m, typ |-> TypeOf(m), ver |-> w, age |-> "fresh",
                      view |-> ViewOf(t, n)]
    IN  {{rec(n, w)} : w \in Versions(n)}
          \cup (IF world.along /\ world.has[n] = "alias" /\ world.has[world.to[n]] = "data"
                THEN {{rec(n, w), rec(world.to[n], u)} :
                          w \in Versions(n), u \in Versions(world.to[n])}
                ELSE {})

\* cache_message_rrsets() and cache_negative(): as they arrive, unchecked, and
\* not what was tailored to one subnet; a denial as a marker under the name and
\* type asked for, or under the name alone.
Filed(t, n, R) ==
    LET at(r) == IF r.typ = "SOA" THEN <<n, IF world.has[n] = "nx" THEN "NX" ELSE "T">>
                 ELSE <<r.own, r.typ>>
    IN  [k \in Keys |->
            IF \E r \in R : at(r) = k /\ ~Tailored(r)
            THEN LET r == CHOOSE x \in R : at(x) = k
                 IN  [neg |-> r.typ = "SOA", ver |-> r.ver, sec |-> "unchecked",
                      age |-> "fresh", local |-> t.sub = Nil, view |-> r.view]
            ELSE rc[k]]

\* accept_rr(), which leaves out a record the answer has, and note_ecs().  `twice'
\* and `behind' are for the properties alone: an RRset came off the wire twice,
\* and records came off it behind a link the cache had a verdict on, which that
\* verdict goes on speaking for.
Kept(t, R) ==
    [t EXCEPT !.ans = @ \cup {r \in R : ~\E x \in t.ans :
                                 x.own = r.own /\ x.typ = r.typ /\ x.ver = r.ver},
              !.behind = @ \/ t.sec # "unchecked",
              !.twice = @ \/ (\E r \in R : Has(t.ans, <<r.own, r.typ>>)),
              !.tailored = @ \/ (\E r \in R : Tailored(r)),
              !.local = @ \/ t.sub = Nil]

\* on_response(): an answer or a denial goes to the validator, an alias is
\* followed, and looked for in the cache first.
Reply(i) ==
    LET t == task[i]
        n == t.qname
    IN  /\ t.stage = "ask"
        /\ \E R \in Replies(t, n) :
             /\ rc' = Filed(t, n, R)
             /\ task' = [task EXCEPT ![i] =
                    IF world.has[n] # "alias"
                    THEN [Kept(t, R) EXCEPT !.stage = "judge",
                              !.rcode = IF world.has[n] = "nx" THEN "nx" ELSE "ok"]
                    ELSE IF t.restarts < MAX_CHAIN
                    THEN [Kept(t, R) EXCEPT !.stage = "look",
                              !.qname = world.to[n], !.restarts = @ + 1]
                    ELSE [Kept(t, R) EXCEPT !.stage = "finish", !.rcode = "servfail"]]
        /\ UNCHANGED <<world, mc, asks, lapses>>

\* elpis_task_fail(): no server answered.
Fail(i) ==
    /\ task[i].stage = "ask"
    /\ task' = [task EXCEPT ![i].stage = "finish", ![i].rcode = "servfail"]
    /\ UNCHANGED <<world, rc, mc, asks, lapses>>
-----------------------------------------------------------------------------
(* The verdict                                                             *)

\* What checking the records of one owner and type finds (Val).
SetOf(t, r) == {x \in t.ans : x.own = r.own /\ x.typ = r.typ}
Stands(t, r) ==
    LET vs == {x.ver : x \in SetOf(t, r)}
    IN  IF r.own \notin world.signed THEN "insecure"
        ELSE IF vs \in {{1}, {2}} /\ \A x \in SetOf(t, r) : x.age # "lapsed"
        THEN "secure" ELSE "bogus"

\* put_verdict(): written back over whatever the cache holds by now, except for
\* what was never in it; the cache drops what has no TTL left.
Recorded(t) ==
    [k \in Keys |->
        IF Has(t.ans, k) /\ \A r \in t.ans : <<r.own, r.typ>> = k =>
               ~Tailored(r) /\ r.age = "fresh" /\ Stands(t, r) # "bogus"
        THEN LET r == CHOOSE x \in t.ans : <<x.own, x.typ>> = k
             IN  [neg |-> FALSE, ver |-> r.ver, sec |-> Stands(t, r), age |-> "fresh",
                  local |-> t.local, view |-> r.view]
        ELSE rc[k]]

\* elpis_val_start() and its end.  Not for a client that set CD.
Judge(i) ==
    LET t == task[i]
        S == {Stands(t, r) : r \in t.ans}
        sec == IF "bogus" \in S THEN "bogus"
               ELSE IF "insecure" \in S THEN "insecure" ELSE "secure"
    IN  /\ t.stage = "judge"
        /\ IF t.cd
           THEN /\ task' = [task EXCEPT ![i].stage = "finish", ![i].sec = "unchecked"]
                /\ rc' = rc
           ELSE \/ /\ task' = [task EXCEPT ![i].stage = "finish", ![i].sec = sec,
                                           ![i].behind = FALSE]
                   /\ rc' = Recorded(t)
                \/ /\ task' = [task EXCEPT ![i].stage = "finish", ![i].lost = TRUE,
                                           ![i].sec = "indeterminate"]
                   /\ rc' = rc
        /\ UNCHANGED <<world, mc, asks, lapses>>
-----------------------------------------------------------------------------
(* Handing it out                                                          *)

\* task_finish(): what failed validation, or could not be validated, is
\* refused, unless the client set CD.
\* Mutant: what could not be validated goes out.
Refused_Checked(t) == t.sec = "bogus" /\ ~t.cd
Refused(t) == (t.sec = "bogus" \/ t.lost) /\ ~t.cd

\* elpis_task_build_reply().
Answered(t) ==
    [recs |-> IF Refused(t) THEN {} ELSE t.ans,
     rcode |-> IF Refused(t) THEN "servfail" ELSE t.rcode,
     ad |-> t.sec = "secure" /\ ~t.cd]

\* What cache_store_answer() files, and elpis_mcache_serve() sends from it: the
\* AD bit is the verdict's, whoever asks.
Entry(t) ==
    [recs |-> t.ans, rcode |-> t.rcode, ad |-> t.sec = "secure", local |-> t.local,
     behind |-> t.behind]

\* task_mkey(): filed under the subnet when it was tailored to it.
MKey(t) == <<t.orig, t.cd, IF t.sub # Nil /\ (t.tailored \/ t.again) THEN t.sub ELSE "all">>

\* What may be cached: nothing refused, and no NXDOMAIN of a refresh whose
\* entry says otherwise (nxdomain_storable).
Fit(t) ==
    /\ ~Refused(t) /\ t.sec # "bogus"
    /\ \/ t.rcode = "ok"
       \/ t.rcode = "nx" /\ (t.refresh => mc[MKey(t)] # Nil /\ mc[MKey(t)].rcode = "nx")

\* cache_store_answer(): nothing a refresh left unjudged, and nothing without a
\* TTL.
Storable(t) ==
    /\ Fit(t) /\ t.ans # {}
    /\ ~(t.refresh /\ t.sec = "unchecked" /\ ~t.cd)
    /\ t.rcode = "nx" => \E r \in t.ans : r.typ = "SOA"
    /\ \A r \in t.ans : r.age = "fresh"

\* The records, and the marker of a denial, are taken back out of the cache.
TakenBack(t) ==
    {<<r.own, r.typ>> : r \in {x \in t.ans : ~Tailored(x)}}
      \cup (IF \E r \in t.ans : r.typ = "SOA" /\ ~Tailored(r)
            THEN {<<t.qname, IF t.rcode = "nx" THEN "NX" ELSE "T">>} ELSE {})

\* note_refresh_outcome(): a refresh that keeps hearing that the name is gone
\* drops the reply and what it was built from (MsgCache counts).
Forgotten(t) == {<<t.orig, "T">>, <<t.orig, "CNAME">>}

\* What a task starts with (elpis_task_new, handle_query, elpis_prefetch_start).
Started(q, cd, sub, refresh, again) ==
    [stage |-> "look", orig |-> q, qname |-> q, cd |-> cd, sub |-> sub,
     refresh |-> refresh, again |-> again, restarts |-> 0, ans |-> {}, rcode |-> "ok",
     sec |-> "unchecked", tailored |-> FALSE, local |-> FALSE, lost |-> FALSE,
     twice |-> FALSE, behind |-> FALSE]

\* stale_refresh(): an answer with an RRset past its TTL in it may set off a
\* refresh of its question (its slot decides when).
Slots(i) ==
    IF ~task[i].refresh /\ \E r \in task[i].ans : r.age = "old"
    THEN {j \in Tasks : j = i \/ task[j] = Free} ELSE {}

Finish(i) ==
    LET t == task[i]
        done == [task EXCEPT ![i] = Free]
        kept == [k \in Keys |-> IF Refused(t) /\ k \in TakenBack(t) THEN Nil ELSE rc[k]]
    IN  /\ t.stage = "finish"
        /\ \/ task' = done
           \/ \E j \in Slots(i) :
                task' = [done EXCEPT ![j] = Started(t.orig, t.cd, t.sub, TRUE, FALSE)]
        /\ \/ Storable(t) /\ mc' = [mc EXCEPT ![MKey(t)] = Entry(t)] /\ rc' = kept
           \/ ~Storable(t) /\ mc' = mc /\ rc' = kept
           \/ /\ ~Fit(t) /\ t.refresh /\ Answered(t).rcode = "nx"
              /\ mc' = [mc EXCEPT ![MKey(t)] = Nil]
              /\ rc' = [k \in Keys |-> IF k \in Forgotten(t) THEN Nil ELSE kept[k]]
        /\ UNCHANGED <<world, asks, lapses>>
-----------------------------------------------------------------------------
(* Questions                                                               *)

\* try_cache_fast(): the entry of the client's subnet, then the shared one,
\* unless that is the view from here and the client has a subnet.
Hit(q, cd, sub) ==
    LET own == {k \in {<<q, cd, sub>>} \cap MKeys : mc[k] # Nil}
        shared == {k \in {<<q, cd, "all">>} : mc[k] # Nil /\ ~(sub # Nil /\ mc[k].local)}
    IN  IF own # {} THEN own ELSE shared

\* handle_query(): a miss becomes a resolution.
Query(i, q, cd, sub) ==
    /\ asks < MaxAsks /\ task[i] = Free
    /\ Hit(q, cd, sub) = {}
    /\ task' = [task EXCEPT ![i] = Started(q, cd, sub, FALSE, FALSE)]
    /\ asks' = asks + 1
    /\ UNCHANGED <<world, rc, mc, lapses>>

\* elpis_prefetch_start(): a hit on an entry near its end sets off a refresh.
Prefetch(i, q, cd, sub) ==
    /\ asks < MaxAsks /\ task[i] = Free
    /\ \E k \in Hit(q, cd, sub) :
         task' = [task EXCEPT ![i] = Started(q, cd, sub, TRUE, k[3] # "all")]
    /\ asks' = asks + 1
    /\ UNCHANGED <<world, rc, mc, lapses>>

\* Entries outlive their TTL, then their signatures, and are evicted.
Lapse ==
    /\ lapses < MaxLapses /\ lapses' = lapses + 1
    /\ \/ \E k \in Keys :
            /\ rc[k] # Nil
            /\ \/ rc[k].age = "fresh" /\ rc' = [rc EXCEPT ![k].age = "old"]
               \/ /\ rc[k].age = "old" /\ ~rc[k].neg /\ k[1] \in world.signed
                  /\ rc' = [rc EXCEPT ![k].age = "lapsed"]
               \/ rc' = [rc EXCEPT ![k] = Nil]
            /\ mc' = mc
       \/ \E k \in MKeys : mc[k] # Nil /\ mc' = [mc EXCEPT ![k] = Nil] /\ rc' = rc
    /\ UNCHANGED <<world, task, asks>>

Next ==
    \/ Choose \/ Lapse
    \/ \E i \in Tasks : \/ Exact(i) \/ Alias(i) \/ Gone(i) \/ Miss(i) \/ Reply(i)
                        \/ Fail(i) \/ Judge(i) \/ Finish(i)
    \/ \E i \in Tasks : world # Nil /\ \E a \in world.asked :
         Query(i, a[1], a[2], a[3]) \/ Prefetch(i, a[1], a[2], a[3])

Spec == Init /\ [][Next]_vars
-----------------------------------------------------------------------------
(* Properties                                                              *)

\* The shape of the state: in particular no verdict of "bogus" is ever kept.
TypeOK ==
    /\ world \in Worlds \cup {Nil}
    /\ rc \in [Keys -> RcEntries \cup {Nil}]
    /\ mc \in [MKeys -> McEntries \cup {Nil}]
    /\ task \in [Tasks -> Resolutions \cup {Free}]

Fails(r) == r.ver = 0 /\ r.own \in world.signed
Proven(r) == r.ver # 0 /\ r.own \in world.signed

\* The replies that go out: what a finished resolution sends its client, and
\* what the message cache sends for it, to a client of that subnet.
Sent ==
    {[cd |-> task[i].cd, sub |-> task[i].sub, recs |-> Answered(task[i]).recs,
      rcode |-> Answered(task[i]).rcode, ad |-> Answered(task[i]).ad,
      behind |-> task[i].behind] :
         i \in {j \in Tasks : task[j].stage = "finish" /\ ~task[j].refresh}}
      \cup {[cd |-> p[1][2], sub |-> p[2], recs |-> mc[p[1]].recs,
             rcode |-> mc[p[1]].rcode, ad |-> mc[p[1]].ad, behind |-> mc[p[1]].behind] :
                p \in {x \in MKeys \X (Subnets \cup {Nil}) :
                       mc[x[1]] # Nil /\ x[1] \in Hit(x[1][1], x[1][2], x[2])}}
Positive(m) == m.rcode = "ok" /\ \E r \in m.recs : r.typ = "T"

\* Records that fail validation never reach a client that did not set CD, in an
\* answer that has the data asked for: not from the reply they came in, and not
\* from the cache they were put into before they were checked.  Records that came
\* off the wire behind a verdict of the cache are EveryLinkChecked's.
PositiveWithheld ==
    \A m \in Sent : ~m.cd /\ ~m.behind /\ Positive(m) => \A r \in m.recs : ~Fails(r)

\* The same of every answer, a denial and an alias to one included.
Withheld == \A m \in Sent : ~m.cd /\ m.rcode # "servfail" => \A r \in m.recs : ~Fails(r)

\* AD is set only on an answer each link of which is proven, however much of it
\* came from the cache and in whatever order its links were checked (the same
\* exception).
AdEarned == \A m \in Sent : m.ad /\ ~m.behind => \A r \in m.recs : Proven(r)

\* Without the exception, as the comment above elpis_sec_link() has it: "one
\* unchecked link makes the whole answer unchecked, and the caller has it
\* validated rather than letting a secure link further on speak for it".
EveryLinkChecked == \A m \in Sent : m.ad => \A r \in m.recs : Proven(r)

\* Records an authority gave one client subnet go to that subnet alone, and
\* records it gave this resolver for want of one to no client with a subnet.
OwnSubnet ==
    \A m \in Sent : \A r \in m.recs :
        /\ r.view \in Subnets => m.sub = r.view
        /\ r.view = "here" /\ r.typ # "SOA" => m.sub = Nil

\* An answer is called forged only when one of its records is, or when it asked
\* twice for an RRset and heard two versions: what it adds from the cache, while
\* other resolutions replace, refuse and expire what is there, never makes it so.
NoFalseAlarm ==
    \A i \in Tasks : task[i] # Free /\ task[i].sec = "bogus" =>
        task[i].twice \/ \E r \in task[i].ans : Fails(r)

\* No answer has two versions of an RRset, which no signature covers.
OneCopy ==
    \A i \in Tasks : task[i] # Free =>
        \A r, s \in task[i].ans : r.own = s.own /\ r.typ = s.typ => r.ver = s.ver

\* What a client is told, put together link by link from caches other
\* resolutions write to and from replies: records that fail validation are
\* withheld, AD is set only where every link was proved, an answer tailored to a
\* subnet goes to that subnet, and what is sound is not refused (cache_try(),
\* chain_sec(), task_finish()).
AnswerEarned == PositiveWithheld /\ AdEarned /\ OwnSubnet /\ NoFalseAlarm
=============================================================================
