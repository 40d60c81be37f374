------------------------------ MODULE Iterate ------------------------------
(***************************************************************************)
(* How a task finds its answer: from the closest delegation it knows down  *)
(* to the servers of the zone that holds the name (src/resolver/           *)
(* resolver.c: elpis_task_step, choose_server, next_round,                 *)
(* absorb_referral, elpis_resolver_on_response), with the forwarders and   *)
(* stubs of the configuration, QNAME minimisation, the lookups of          *)
(* nameservers' addresses, and the delegations it leaves in the cache      *)
(* (src/cache/delegation.c).                                               *)
(*                                                                         *)
(* A zone is its number of labels: those on the way to one name.  A        *)
(* nameserver has one address, and is asked there.  What a server says is  *)
(* any of the things on_response() tells apart; how a query gets to it is  *)
(* module Outbound, which server is preferred and held is module Infra,    *)
(* and here any choice.                                                    *)
(***************************************************************************)
EXTENDS Integers, FiniteSets

CONSTANTS
    QLabels,       \* the labels of the name asked about
    NS, NsOf,      \* nameservers, and those of each zone
    RouteZone, RouteNs, Routes,   \* a configured route: zone, servers, kinds
    Held,          \* servers held down
    MAX_TRIED, MaxRetries, MaxReferrals, MAX_CNAME_CHAIN

Zones == 0 .. QLabels - 1

VARIABLES
    conf,      \* route, qmin and strict, once chosen
    st,        \* the state of the task
    d,         \* its delegation: zone, and what it has of each nameserver
    fwd,       \* the delegation is a route: none, stub, forward or listed
    list_off,  \* the list's forwarders were of no use
    tried,     \* what came of asking each server: no, asked, answered
    rounds, referrals, restarts,
    qmin,      \* active, labels, and probe: the query out is a minimised one
    lame,      \* a server answered with nothing at all
    out,       \* the servers asked, one or two at once
    kids,      \* lookups of nameservers' addresses still out
    dcache,    \* the nameservers with an address cached for each zone
    asks,      \* how often each server was asked since the last fresh start
    said       \* the servers that have answered since then

task == <<st, d, fwd, list_off, tried, rounds, referrals, restarts, qmin, lame, out, asks, said>>
vars == <<conf, task, kids, dcache>>

Nobody == [n \in NS |-> "none"]
Fresh == [n \in NS |-> "no"]
NoAsks == [n \in NS |-> 0]

Init ==
    /\ conf = [route |-> "unset", qmin |-> FALSE, strict |-> FALSE]
    /\ st = "init" /\ d = [zone |-> 0, ns |-> Nobody]
    /\ fwd = "none" /\ list_off = FALSE
    /\ tried = Fresh /\ rounds = 0 /\ referrals = 0 /\ restarts = 0
    /\ qmin = [active |-> FALSE, labels |-> 0, probe |-> FALSE]
    /\ lame = FALSE /\ out = {} /\ kids = {} /\ asks = NoAsks
    /\ said = {} /\ dcache = [z \in Zones |-> {}]

Start ==
    /\ st = "init" /\ st' = "lookup"
    /\ \E r \in Routes, q \in BOOLEAN, s \in BOOLEAN :
           conf' = [route |-> r, qmin |-> q, strict |-> q /\ s]
    /\ UNCHANGED <<d, fwd, list_off, tried, rounds, referrals, restarts, qmin,
                   lame, out, asks, said, kids, dcache>>

\* ELPIS_TS_LOOKUP: answered from the cache, or a delegation is needed.
Lookup ==
    /\ st = "lookup" /\ st' \in {"validate", "deleg"}
    /\ UNCHANGED <<conf, d, fwd, list_off, tried, rounds, referrals, restarts,
                   qmin, lame, out, asks, said, kids, dcache>>

-----------------------------------------------------------------------------
(* Where to start                                                           *)

WithAddr(ns) == {n \in NS : ns[n] = "addr"}

\* The history counts as far as it takes to see AskedInTurn broken.
OneMore(n) == IF n > 1 + MaxRetries THEN n ELSE n + 1

\* Everybody may be asked again: ntried and rounds at zero.
Afresh == tried' = Fresh /\ rounds' = 0 /\ asks' = NoAsks /\ said' = {}

\* elpis_route_deleg(): a configured route, unless it is the list's and the
\* list was given up.
Route == IF conf.route = "listed" /\ list_off THEN "none" ELSE conf.route

DelegRoute ==
    /\ st = "deleg" /\ Route # "none"
    /\ d' = [zone |-> RouteZone,
             ns |-> [n \in NS |-> IF n \in RouteNs THEN "addr" ELSE "none"]]
    /\ fwd' = Route /\ lame' = FALSE /\ Afresh
    /\ qmin' = [qmin EXCEPT !.active = FALSE, !.labels = RouteZone]
    /\ st' = "send"
    /\ UNCHANGED <<conf, list_off, referrals, restarts, out, kids, dcache>>

\* elpis_dcache_closest(), or the root hints.
Closest == CHOOSE z \in {x \in Zones : dcache[x] # {}} \cup {0} :
               \A y \in Zones : dcache[y] # {} => y <= z

\* deleg_fill_nameless(): addresses that the cache has come to know are
\* taken over, and kept with the delegation.
Filled(z, known) ==
    [n \in NS |->
        IF n \in dcache[z] \cup known \/ (z = 0 /\ n \in NsOf[0]) THEN "addr"
        ELSE IF n \in NsOf[z] THEN "bare" ELSE "none"]

DelegCached ==
    /\ st = "deleg" /\ Route = "none"
    /\ \E known \in SUBSET NsOf[Closest] :
           /\ d' = [zone |-> Closest, ns |-> Filled(Closest, known)]
           /\ dcache' = [dcache EXCEPT ![Closest] = IF @ = {} THEN @ ELSE @ \cup known]
    /\ fwd' = "none" /\ lame' = FALSE /\ Afresh
    /\ qmin' = [active |-> conf.qmin /\ QLabels > Closest + 1, labels |-> Closest,
                probe |-> FALSE]
    /\ st' = "send"
    /\ UNCHANGED <<conf, list_off, referrals, restarts, out, kids>>

-----------------------------------------------------------------------------
(* Whom to ask                                                              *)

\* Mutant: the count is not moved on, and each entry overwrites the last.
Marked_Overwritten(tr, n) == [m \in NS |-> IF m = n THEN "asked" ELSE "no"]

\* mark_tried(), in a table of ELPIS_MAX_TRIED.
Marked(tr, n) ==
    IF Cardinality({m \in NS : tr[m] # "no"}) < MAX_TRIED
    THEN [tr EXCEPT ![n] = "asked"] ELSE tr

\* choose_server(): any address that was not tried and is not held.
Eligible == {n \in WithAddr(d.ns) : tried[n] = "no" /\ n \notin Held}
Bare == {n \in NS : d.ns[n] = "bare"}

\* Does the question go out minimised?  Not once the name is known to be
\* inside the zone.
Minimised == qmin.active /\ qmin.labels + 1 < QLabels

Sending == st = "send"
Resting == UNCHANGED <<conf, list_off, referrals, restarts, kids, dcache>>

\* send_query(): the one chosen and, unless the servers are configured, a
\* second one, unmeasured or next best; or the send fails.
Ask ==
    /\ Sending /\ Eligible # {}
    /\ \E n \in Eligible, m \in Eligible, probe \in {FALSE, Minimised} :
           LET sent == {n, m}
           IN  /\ fwd # "none" => m = n
               /\ tried' = IF m = n THEN Marked(tried, n)
                           ELSE Marked(Marked(tried, n), m)
               /\ asks' = [x \in NS |-> IF x \in sent THEN OneMore(asks[x]) ELSE asks[x]]
               /\ out' = sent
               /\ qmin' = [qmin EXCEPT !.active = probe, !.probe = probe]
    /\ st' = "wait"
    /\ UNCHANGED <<d, fwd, rounds, lame, said>> /\ Resting

AskFails ==
    /\ Sending
    /\ \E n \in Eligible :
           tried' = Marked(tried, n) /\ asks' = [asks EXCEPT ![n] = OneMore(@)]
    /\ UNCHANGED <<st, d, fwd, rounds, qmin, lame, out, said>> /\ Resting

\* Nobody to ask, but a nameserver without an address: ELPIS_TS_NSADDR looks
\* up both kinds of them, or neither when no more tasks can be made.
NsAddr ==
    /\ Sending /\ Eligible = {} /\ Bare # {}
    /\ \E n \in Bare, launched \in BOOLEAN :
           /\ d' = [d EXCEPT !.ns[n] = "noaddr"]
           /\ kids' = IF launched THEN kids \cup {[ns |-> n, fam |-> f, chain |-> restarts] : f \in {4, 6}}
                      ELSE kids
           /\ st' = IF launched THEN "nsaddr" ELSE "send"
    /\ UNCHANGED <<conf, fwd, list_off, tried, rounds, referrals, restarts, qmin,
                   lame, out, asks, said, dcache>>

Exhausted == Sending /\ Eligible = {} /\ Bare = {}

\* Every server of the zone says nothing: that is taken for "no data".
SynthNodata ==
    /\ Exhausted /\ lame
    /\ st' = "validate"
    /\ UNCHANGED <<d, fwd, tried, rounds, qmin, lame, out, asks, said>> /\ Resting

\* The list's forwarders failed: the zone's own servers, once and for all.
ListOff ==
    /\ Exhausted /\ ~lame /\ fwd = "listed"
    /\ list_off' = TRUE /\ st' = "deleg"
    /\ UNCHANGED <<conf, d, fwd, tried, rounds, referrals, restarts, qmin, lame,
                   out, asks, said, kids, dcache>>

Quiet == {n \in NS : tried[n] = "asked"}

\* next_round(): those that went quiet are forgotten, those that answered
\* stay marked.
Kept == [n \in NS |-> IF tried[n] = "answered" THEN "answered" ELSE "no"]

NextRound ==
    /\ Exhausted /\ ~lame /\ fwd # "listed"
    /\ Quiet # {} /\ rounds < MaxRetries
    /\ tried' = Kept /\ rounds' = rounds + 1
    /\ UNCHANGED <<st, d, fwd, qmin, lame, out, asks, said>> /\ Resting

GiveUp ==
    /\ Exhausted /\ ~lame /\ fwd # "listed"
    /\ Quiet = {} \/ rounds >= MaxRetries
    /\ st' = "servfail"
    /\ UNCHANGED <<d, fwd, tried, rounds, qmin, lame, out, asks, said>> /\ Resting

-----------------------------------------------------------------------------
(* What comes back                                                          *)

\* A server answers, with an rcode or a message that is of no use, and the
\* next is asked.  An empty answer is remembered.
Answered(n) ==
    /\ tried' = [tried EXCEPT ![n] = IF @ = "no" THEN @ ELSE "answered"]
    /\ said' = said \cup {n}

Useless(n) ==
    /\ st = "wait" /\ n \in out
    /\ Answered(n) /\ out' = {} /\ st' = "send"
    /\ lame' \in IF fwd = "none" /\ ~qmin.probe THEN {lame, TRUE} ELSE {lame}
    /\ UNCHANGED <<d, fwd, rounds, qmin, asks>> /\ Resting

\* A timeout or an error: of two that were asked the other is waited for.
Silent(n) ==
    /\ st = "wait" /\ n \in out
    /\ out' = out \ {n}
    /\ st' = IF out = {n} THEN "send" ELSE st
    /\ UNCHANGED <<d, fwd, tried, rounds, qmin, lame, asks, said>> /\ Resting

\* A cut that absorb_referral() accepts: below the zone that was asked.
Cut(z) == z \in Zones /\ z > d.zone

\* The nameservers of the new zone, those in `glue' with an address; it is
\* cached if there is any.
Absorb(z, glue) ==
    /\ d' = [zone |-> z,
             ns |-> [n \in NS |-> IF n \notin NsOf[z] THEN "none"
                                  ELSE IF n \in glue THEN "addr" ELSE "bare"]]
    /\ dcache' = IF glue = {} THEN dcache ELSE [dcache EXCEPT ![z] = glue]
    /\ Afresh /\ lame' = FALSE

Referral(n) ==
    /\ st = "wait" /\ n \in out /\ ~qmin.probe /\ fwd \in {"none", "stub"}
    /\ out' = {}
    /\ IF referrals >= MaxReferrals
       THEN /\ st' = "servfail" /\ referrals' = referrals + 1
            /\ UNCHANGED <<d, tried, rounds, asks, said, lame, dcache>>
       ELSE /\ referrals' = referrals + 1 /\ st' = "send"
            /\ \/ \E z \in {x \in Zones : Cut(x)} : \E glue \in SUBSET NsOf[z] :
                      Absorb(z, glue)
               \/ /\ Answered(n)
                  /\ UNCHANGED <<d, rounds, asks, lame, dcache>>
    /\ UNCHANGED <<conf, fwd, list_off, restarts, qmin, kids>>

\* The answer to a minimised question: down to the next zone, or the end of
\* the minimising.  Either way everybody may be asked again.
ProbeReply(n) ==
    /\ st = "wait" /\ n \in out /\ qmin.probe
    /\ out' = {} /\ st' = "send"
    /\ \/ /\ \E z \in {x \in Zones : Cut(x)} : \E glue \in SUBSET NsOf[z] :
                 Absorb(z, glue)
          /\ referrals' = referrals + 1
          /\ qmin' = [qmin EXCEPT !.labels = @ + 1, !.probe = FALSE]
       \/ /\ qmin' = [qmin EXCEPT !.active = FALSE, !.probe = FALSE]
          /\ Afresh /\ UNCHANGED <<d, lame, dcache, referrals>>
    /\ UNCHANGED <<conf, fwd, list_off, restarts, kids>>

\* "No such name" to a minimised question, taken at its word in strict mode.
ProbeStrict(n) ==
    /\ st = "wait" /\ n \in out /\ qmin.probe /\ conf.strict
    /\ out' = {} /\ st' = "validate"
    /\ Answered(n)
    /\ qmin' = [qmin EXCEPT !.probe = FALSE]
    /\ UNCHANGED <<d, fwd, rounds, lame, asks>> /\ Resting

\* An answer, "no such name" or "no data".
Answer(n) ==
    /\ st = "wait" /\ n \in out /\ ~qmin.probe
    /\ out' = {} /\ st' = "validate"
    /\ Answered(n)
    /\ UNCHANGED <<d, fwd, rounds, qmin, lame, asks>> /\ Resting

\* A CNAME or a DNAME: the same again for another name.
Alias(n) ==
    /\ st = "wait" /\ n \in out /\ ~qmin.probe
    /\ out' = {} /\ restarts' = restarts + 1
    /\ IF restarts >= MAX_CNAME_CHAIN
       THEN st' = "servfail" /\ UNCHANGED <<tried, rounds, referrals, qmin, asks, said>>
       ELSE /\ st' = "lookup" /\ Afresh /\ referrals' = 0
            /\ qmin' = [active |-> conf.qmin, labels |-> 0, probe |-> FALSE]
    /\ UNCHANGED <<conf, d, fwd, list_off, lame, kids, dcache>>

\* nsaddr_done(): what was found goes into the delegation in use, whichever
\* that is by now, and the one waited for is cached and used.
AddrDone(k, got) ==
    /\ st \in {"wait", "nsaddr"} /\ k \in kids /\ kids' = kids \ {k}
    /\ LET ns == [d.ns EXCEPT ![k.ns] = IF got THEN "addr"
                                        ELSE IF @ = "bare" THEN "noaddr" ELSE @]
           on == st = "nsaddr" /\ (kids' = {} \/ (got /\ WithAddr(ns) # {}))
       IN  /\ d' = [d EXCEPT !.ns = ns]
           /\ st' = IF on THEN "send" ELSE st
           /\ dcache' = IF on /\ fwd = "none" /\ WithAddr(ns) # {}
                        THEN [dcache EXCEPT ![d.zone] = WithAddr(ns)] ELSE dcache
    /\ UNCHANGED <<conf, fwd, list_off, tried, rounds, referrals, restarts, qmin,
                   lame, out, asks, said>>

ServerReplies == \E n \in NS : \/ Useless(n) \/ Silent(n) \/ Referral(n) \/ ProbeReply(n)
                         \/ ProbeStrict(n) \/ Answer(n) \/ Alias(n)
Steps == \/ Start \/ Lookup \/ DelegRoute \/ DelegCached \/ Ask \/ AskFails \/ NsAddr
         \/ SynthNodata \/ ListOff \/ NextRound \/ GiveUp

Next ==
    \/ Start \/ Lookup \/ DelegRoute \/ DelegCached \/ Ask \/ AskFails \/ NsAddr
    \/ SynthNodata \/ ListOff \/ NextRound \/ GiveUp
    \/ \E n \in NS : \/ Useless(n) \/ Silent(n) \/ Referral(n) \/ ProbeReply(n)
                     \/ ProbeStrict(n) \/ Answer(n) \/ Alias(n)
    \/ \E k \in kids, got \in BOOLEAN : AddrDone(k, got)

Spec == Init /\ [][Next]_vars

\* A task steps, a query is answered or times out, a lookup ends.
FairSpec ==
    /\ Spec /\ WF_vars(Steps) /\ WF_vars(ServerReplies)
    /\ WF_vars(\E k \in kids, got \in BOOLEAN : AddrDone(k, got))

-----------------------------------------------------------------------------
(* Properties                                                               *)

Done == st \in {"validate", "servfail"}

\* The shape of a task: it waits for a reply exactly while a query is out,
\* and for addresses only while a lookup is (elpis_task_t).
TypeOK ==
    /\ st \in {"init", "lookup", "deleg", "send", "wait", "nsaddr", "validate", "servfail"}
    /\ d.zone \in Zones /\ d.ns \in [NS -> {"none", "addr", "bare", "noaddr"}]
    /\ tried \in [NS -> {"no", "asked", "answered"}]
    /\ rounds \in 0 .. MaxRetries /\ restarts \in 0 .. MAX_CNAME_CHAIN + 1
    /\ out \subseteq NS /\ (st = "wait" <=> out # {})
    /\ (st = "nsaddr" => kids # {})

\* Between one fresh start and the next, a server is asked no more often
\* than once and then once per extra round (mark_tried, next_round).
AskedInTurn == \A n \in NS : asks[n] <= 1 + rounds

\* A server that has answered, however uselessly, is not asked the same
\* thing again (elpis_task_note_answered, next_round).
NotAskedAgain ==
    \A n \in said : asks'[n] <= asks[n]

\* A task gives up only when there is nobody left: every address it has is
\* held or was asked in the last round there may be, and no nameserver is
\* without a lookup (elpis_task_step, ELPIS_TS_SEND).
GivesUpLast ==
    (st = "send" /\ st' = "servfail") =>
        /\ Bare = {}
        /\ \A n \in WithAddr(d.ns) \ Held :
               tried[n] = "answered" \/ (tried[n] = "asked" /\ rounds = MaxRetries)

\* Towards one name the zones only get longer: a referral never leads back
\* up or sideways (absorb_referral), and only a new name or giving up the
\* list starts again.
OnlyDown == d'.zone < d.zone => st = "deleg"

\* Without the deadline's help, and whatever the servers say, a task comes
\* to an end: no chain of referrals, aliases, rounds and address lookups
\* goes on for ever.
Ends == []<>Done

\* "A delegation is everything needed to talk to a zone's authoritative
\* servers: the NS names, their addresses" (deleg.h): what is cached for a
\* zone are nameservers of that zone.
OwnServers == \A z \in Zones : dcache[z] \subseteq NsOf[z]
=============================================================================
