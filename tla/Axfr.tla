------------------------------- MODULE Axfr -------------------------------
(***************************************************************************)
(* The root zone transfer (src/resolver/axfr.c): elpis_axfr_root asks the   *)
(* mirrors in turn, scan_message collects the TLDs' NS records and the      *)
(* glue out of every message, the second SOA ends the transfer, and install *)
(* pins one delegation after another in the shared delegation cache, where  *)
(* the workers see each as soon as it is put.                               *)
(*                                                                         *)
(* A mirror's zone is the sequence of records it sends; how it cuts them    *)
(* into messages, and where the connection, a message or the transfer       *)
(* breaks, is open.  Records the code passes over are of kind "other".      *)
(***************************************************************************)
EXTENDS Naturals, FiniteSets, SequencesExt, TLC

CONSTANTS Zones,        \* per mirror, the records it sends, SOA first and last
          MAX_RECORDS,  \* AXFR_MAX_BYTES, counted in records
          MAX_NS,       \* ELPIS_DELEG_MAX_NS
          MAX_A         \* ELPIS_NS_MAX_A4 (one family stands for both)

VARIABLES mirror,       \* the mirror in use, 0 before the first
          phase,        \* "next", "reading", "install", "done"
          pos,          \* records received from this mirror
          acc,          \* zone_acc_t: NS pairs, glue
          dcache        \* the pinned delegations, by zone

vars == <<mirror, phase, pos, acc, dcache>>

acc_init == [ns |-> <<>>, glue |-> <<>>]

Init ==
    /\ mirror = 0 /\ phase = "next" /\ pos = 0
    /\ acc = acc_init
    /\ dcache = <<>>

-----------------------------------------------------------------------------
(* Delegations under construction: elpis_deleg_add_ns and _add_addr.        *)

elpis_deleg_add_ns(d, host) ==
    IF host \in DOMAIN d \/ Cardinality(DOMAIN d) >= MAX_NS THEN d ELSE d @@ (host :> {})

\* An address for a host that has no room in the list is dropped with it.
elpis_deleg_add_addr(d0, host, ip) ==
    LET d == elpis_deleg_add_ns(d0, host) IN
    IF host \notin DOMAIN d \/ Cardinality(d[host]) >= MAX_A THEN d
    ELSE [d EXCEPT ![host] = @ \cup {ip}]

addr_count(d) == Cardinality(UNION {{<<h, ip>> : ip \in d[h]} : h \in DOMAIN d})

-----------------------------------------------------------------------------
(* axfr_from *)

scan(a, rr) ==
    CASE rr.kind = "ns"   -> [a EXCEPT !.ns = Append(@, [zone |-> rr.owner, ns |-> rr.data])]
      [] rr.kind = "glue" -> [a EXCEPT !.glue = Append(@, [name |-> rr.owner, ip |-> rr.data])]
      [] OTHER            -> a

scan_message(a, records) == FoldLeft(scan, a, records)

SoaCount(z, n) == Len(SelectSeq(SubSeq(z, 1, n), LAMBDA rr : rr.kind = "soa"))

\* The connection fails or times out, the stream ends early, a message is
\* malformed or carries an error: start clean before trying the next mirror.
Broken ==
    /\ phase = "reading"
    /\ phase' = "next"
    /\ pos' = 0
    /\ acc' = acc_init
    /\ UNCHANGED <<mirror, dcache>>

\* The loop of elpis_axfr_root: the next mirror, or none is left.
NextMirror ==
    /\ phase = "next"
    /\ IF mirror < Len(Zones)
       THEN mirror' = mirror + 1 /\ phase' = "reading"
       ELSE phase' = "done" /\ UNCHANGED mirror
    /\ UNCHANGED <<pos, acc, dcache>>

\* Mutant: the zone is taken to end with the first SOA.
Message_FirstSoa(k) ==
    /\ phase = "reading" /\ pos + k <= Len(Zones[mirror]) /\ pos + k <= MAX_RECORDS
    /\ pos' = pos + k
    /\ acc' = scan_message(acc, SubSeq(Zones[mirror], pos + 1, pos + k))
    /\ phase' = IF SoaCount(Zones[mirror], pos + k) >= 1 THEN "install" ELSE "reading"
    /\ UNCHANGED <<mirror, dcache>>

\* One message of k records.
Message(k) ==
    /\ phase = "reading" /\ pos + k <= Len(Zones[mirror]) /\ pos + k <= MAX_RECORDS
    /\ pos' = pos + k
    /\ acc' = scan_message(acc, SubSeq(Zones[mirror], pos + 1, pos + k))
    /\ phase' = IF SoaCount(Zones[mirror], pos + k) >= 2 THEN "install" ELSE "reading"
    /\ UNCHANGED <<mirror, dcache>>

-----------------------------------------------------------------------------
(* install: the pairs left, grouped by the zone of the first of them.       *)

acc_attach_glue(a, d, host) ==
    FoldRight(LAMBDA g, e : elpis_deleg_add_addr(e, host, g.ip),
              SelectSeq(a.glue, LAMBDA g : g.name = host), d)

Mine(ns) == SelectSeq(ns, LAMBDA p : p.zone = Head(ns).zone)

Delegation(a, pairs) ==
    FoldLeft(LAMBDA d, p : acc_attach_glue(a, elpis_deleg_add_ns(d, p.ns), p.ns), <<>>, pairs)

\* A delegation is pinned only if it came with an address.
Install ==
    /\ phase = "install" /\ acc.ns # <<>>
    /\ \E d \in {Delegation(acc, Mine(acc.ns))} :
           dcache' = IF addr_count(d) > 0 THEN (Head(acc.ns).zone :> d) @@ dcache ELSE dcache
    /\ acc' = [acc EXCEPT !.ns = SelectSeq(@, LAMBDA p : ~Contains(Mine(acc.ns), p))]
    /\ UNCHANGED <<mirror, phase, pos>>

Installed ==
    /\ phase = "install" /\ acc.ns = <<>>
    /\ phase' = "done"
    /\ UNCHANGED <<mirror, pos, acc, dcache>>

Step == Broken \/ NextMirror \/ (\E k \in 1 .. MAX_RECORDS : Message(k)) \/ Install \/ Installed

Next == Step

Spec == Init /\ [][Next]_vars /\ WF_vars(Step)

-----------------------------------------------------------------------------
(* Properties.                                                              *)

\* What a zone says about a TLD: its servers, each with its addresses, as far
\* as the limits allow.
Servers(z, tld) ==
    {rr.data : rr \in {r \in ToSet(z) : r.kind = "ns" /\ r.owner = tld}}
Addresses(z, host) ==
    {rr.data : rr \in {r \in ToSet(z) : r.kind = "glue" /\ r.owner = host}}

AtMost(S, n) == IF Cardinality(S) < n THEN Cardinality(S) ELSE n

Agrees(d, z, tld) ==
    /\ DOMAIN d \subseteq Servers(z, tld)
    /\ Cardinality(DOMAIN d) = AtMost(Servers(z, tld), MAX_NS)
    /\ \A h \in DOMAIN d :
          /\ d[h] \subseteq Addresses(z, h)
          /\ Cardinality(d[h]) = AtMost(Addresses(z, h), MAX_A)

\* Whatever a worker finds pinned was sent by one mirror that got to the end
\* of its transfer, and is all that mirror said about the zone: nothing of a
\* transfer that broke off, nothing of two mirrors mixed.
OneWholeZone ==
    \A tld \in DOMAIN dcache :
        /\ pos = Len(Zones[mirror])
        /\ Agrees(dcache[tld], Zones[mirror], tld)

\* When the thread ends, either every mirror failed and nothing is pinned, or
\* every TLD of the mirror's zone that has an address for a server is.
AllOrNothing ==
    phase = "done" =>
        LET tlds == IF pos = 0 THEN {}
                    ELSE {rr.owner : rr \in {r \in ToSet(Zones[mirror]) : r.kind = "ns"}}
        IN  \A tld \in tlds :
                tld \notin DOMAIN dcache <=>
                    \A host \in Servers(Zones[mirror], tld) : Addresses(Zones[mirror], host) = {}

\* The thread comes to an end, whatever the mirrors do.
Ends == []<>(phase = "done")
=============================================================================
