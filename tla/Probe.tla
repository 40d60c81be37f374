------------------------------- MODULE Probe -------------------------------
(***************************************************************************)
(* The root server probe (src/resolver/probe.c) and the thread that repeats *)
(* it (probe_main, src/main.c).  A probe opens a socket per enabled family, *)
(* asks every root address in several rounds, matches what comes back by    *)
(* transaction ID and address, feeds the infrastructure cache, and turns a  *)
(* family off whose every server was silent while the other family works.   *)
(*                                                                         *)
(* The network delays and loses replies, also past the round they belong to,*)
(* and a family's path may come and go.  A question is named by its round:  *)
(* the transaction IDs of two rounds are taken to differ.  Round trip times *)
(* are left out; what matters is that a reply is matched with the question  *)
(* whose time of sending it is measured from.                               *)
(***************************************************************************)
EXTENDS Naturals, FiniteSets

CONSTANTS Target,       \* the root addresses
          Inet6,        \* those of them that are IPv6
          ROUNDS,       \* probe_rounds
          MaxProbes     \* probes of one run of the process (bound)

VARIABLES on,           \* the families in use: conf.do_ipv4, conf.do_ipv6
          pc,           \* "sleep", "send", "wait", "feed"
          round, probes,
          fds,          \* the families this probe has a socket for
          t,            \* target_t
          net,          \* replies under way to the probe's sockets
          path,         \* per family: "up", "silent", "noroute"
          infra,        \* what the infrastructure cache was last told
          answered      \* history: targets that answered a question of this probe in time

vars == <<on, pc, round, probes, fds, t, net, path, infra, answered>>

Family == {"v4", "v6"}
FamilyOf(x) == IF x \in Inet6 THEN "v6" ELSE "v4"
Fresh == [sent |-> 0, replies |-> 0, asked |-> 0]   \* asked: the round outstanding, or 0

Init ==
    /\ on = Family /\ pc = "sleep" /\ round = 0 /\ probes = 0
    /\ fds = {} /\ net = {} /\ answered = {}
    /\ t = [x \in Target |-> Fresh]
    /\ path = [f \in Family |-> "up"]
    /\ infra = [x \in Target |-> "none"]

-----------------------------------------------------------------------------
\* collect_targets and the sockets: only for a family that is on, and one that
\* cannot be opened is done without.
Start ==
    /\ pc = "sleep" /\ probes < MaxProbes
    /\ probes' = probes + 1
    /\ t' = [x \in Target |-> Fresh]
    /\ \E s \in SUBSET on :
          /\ fds' = s
          /\ pc' = IF s = {} THEN "sleep" ELSE "send"
    /\ round' = 1 /\ net' = {} /\ answered' = {}
    /\ UNCHANGED <<on, path, infra>>

\* The first half of probe_round: one question to every target; the kernel
\* refuses those of a family without a route.
Goes(x) == FamilyOf(x) \in fds /\ path[FamilyOf(x)] # "noroute"

Send ==
    /\ pc = "send"
    /\ t' = [x \in Target |->
                IF Goes(x) THEN [t[x] EXCEPT !.sent = @ + 1, !.asked = round]
                ELSE [t[x] EXCEPT !.asked = 0]]
    /\ net' = net \cup {[from |-> x, txid |-> round] :
                           x \in {y \in Target : Goes(y) /\ path[FamilyOf(y)] = "up"}}
    /\ pc' = "wait"
    /\ UNCHANGED <<on, round, probes, fds, path, infra, answered>>

\* A reply counts for the target it came from if its question is outstanding.
Match(m) == t[m.from].asked # 0 /\ t[m.from].asked = m.txid

Receive(m) ==
    /\ pc = "wait" /\ m \in net
    /\ net' = net \ {m}
    /\ t' = IF Match(m) THEN [t EXCEPT ![m.from] = [@ EXCEPT !.replies = @ + 1, !.asked = 0]]
            ELSE t
    /\ answered' = IF m.txid = round THEN answered \cup {m.from} ELSE answered
    /\ UNCHANGED <<on, pc, round, probes, fds, path, infra>>

Lost(m) ==
    /\ m \in net
    /\ net' = net \ {m}
    /\ UNCHANGED <<on, pc, round, probes, fds, t, path, infra, answered>>

\* PROBE_WAIT_MS is over: the next round, after the gap, or the results.
RoundOver ==
    /\ pc = "wait"
    /\ IF round < ROUNDS THEN round' = round + 1 /\ pc' = "send"
       ELSE pc' = "feed" /\ UNCHANGED round
    /\ UNCHANGED <<on, probes, fds, t, net, path, infra, answered>>

Ok(f) == {x \in Target : FamilyOf(x) = f /\ t[x].replies > 0}

\* Mutant: a silent family is turned off whether or not the other works.
Silent_Alone == {f \in Family : Ok(f) = {}}

\* The families every server of which was silent while the other works.
Silent == {f \in Family : Ok(f) = {} /\ Ok(CHOOSE g \in Family : g # f) # {}}

Fed(x) ==
    IF t[x].replies > 0 THEN "ok" ELSE IF t[x].sent > 0 THEN "timeout" ELSE infra[x]

Feed ==
    /\ pc = "feed"
    /\ infra' = [x \in Target |-> Fed(x)]
    /\ on' = on \ Silent
    /\ pc' = "sleep" /\ round' = 0 /\ fds' = {} /\ net' = {} /\ answered' = {}
    /\ t' = [x \in Target |-> Fresh]
    /\ UNCHANGED <<probes, path>>

\* The world: a path breaks or comes back between the steps of a probe.
PathChange ==
    /\ pc \in {"sleep", "wait"} /\ probes < MaxProbes
    /\ \E f \in Family : \E p \in {"up", "silent", "noroute"} \ {path[f]} :
          path' = [path EXCEPT ![f] = p]
    /\ UNCHANGED <<on, pc, round, probes, fds, t, net, infra, answered>>

Next ==
    \/ Start \/ Send \/ RoundOver \/ Feed \/ PathChange
    \/ \E m \in net : Receive(m) \/ Lost(m)

Spec == Init /\ [][Next]_vars

-----------------------------------------------------------------------------
(* Properties.                                                              *)

\* However the two paths come and go over any number of probes, the resolver
\* is never left with both families turned off.
OneFamilyLeft == on # {}

\* A reply is measured only against the question it answers: the probe has
\* counted a reply of exactly those servers that answered the question of a
\* round before that round was over, and none twice for one round.
OwnQuestion ==
    /\ {x \in Target : t[x].replies > 0} = answered
    /\ \A x \in Target : t[x].replies <= t[x].sent

\* The infrastructure cache hears of a timeout only of a server that was sent
\* a question in this probe and answered none in time, and a family is turned
\* off only when a server of the other answered in the same probe.
BlamedForSilence ==
    /\ \A x \in Target : infra'[x] = "timeout" /\ infra[x] # "timeout" =>
           t[x].sent > 0 /\ x \notin answered
    /\ \A f \in on \ on' : \E x \in answered : FamilyOf(x) # f
=============================================================================
