----------------------------- MODULE LocalZone -----------------------------
(***************************************************************************)
(* The names that are answered here and never asked of anybody             *)
(* (src/server/localzone.c): elpis_localzone_static for a client's          *)
(* question, before a task exists, and elpis_localzone_answer when a task   *)
(* is led to such a name by an alias.  A task that looks up the address of  *)
(* a name server (depth above 0) is not stopped.                            *)
(*                                                                         *)
(* A name is its labels from the left; the tables keep one or two entries   *)
(* of each shape.  Answers are reduced to the rcode and the record.         *)
(***************************************************************************)
EXTENDS Naturals, SequencesExt

CONSTANTS Names,        \* the names questions and aliases lead to
          Types,        \* the query types
          Identity,     \* identity-name
          MaxHops       \* aliases and server addresses followed (bound)

VARIABLES conf,         \* block_private_reverse, refuse_any
          q,            \* the question: name, type, class
          depth,        \* 0 for the client's task, 1 for a name server's address
          st,           \* "idle", "ask", "lookup", "upstream", "done"
          got,          \* the local answer
          sent,         \* names asked of another server, with the depth
          hops

vars == <<conf, q, depth, st, got, sent, hops>>

None == [rcode |-> "none", rr |-> "none"]
Reply(rcode, rr) == [rcode |-> rcode, rr |-> rr]

-----------------------------------------------------------------------------
(* The tables, and the tests that go by the last label first.               *)

k_nonexistent == {<<"invalid">>, <<"local">>, <<"localhost", "arpa">>}
k_private_reverse == {<<"10", "in-addr", "arpa">>, <<"d", "f", "ip6", "arpa">>}
g_localhost == <<"localhost">>

top_label(n) == IF n = <<>> THEN "" ELSE Last(n)

elpis_name_is_subdomain(n, zone) == IsSuffix(zone, n)

\* Mutant: a table entry was added whose last label the test does not let by.
is_nonexistent_Tld(n) ==
    /\ top_label(n) \in {"invalid", "local"}
    /\ \E z \in k_nonexistent : elpis_name_is_subdomain(n, z)

is_nonexistent(n) ==
    /\ top_label(n) \in {"invalid", "local", "arpa"}
    /\ \E z \in k_nonexistent : elpis_name_is_subdomain(n, z)

is_private_reverse(n) ==
    /\ top_label(n) = "arpa"
    /\ \E z \in k_private_reverse : elpis_name_is_subdomain(n, z)

is_localhost(n) == top_label(n) = "localhost" /\ elpis_name_is_subdomain(n, g_localhost)

Denied(n) == is_nonexistent(n) \/ (conf.block /\ is_private_reverse(n))

Loopback(type) ==
    CASE type = "A"    -> Reply("NOERROR", "127.0.0.1")
      [] type = "AAAA" -> Reply("NOERROR", "::1")
      [] OTHER         -> Reply("NOERROR", "none")

Chaos ==
    IF q.type = "TXT" /\ elpis_name_is_subdomain(q.name, <<"version", "bind">>)
    THEN Reply("NOERROR", "version") ELSE Reply("REFUSED", "none")

WhoAmI == Reply("NOERROR", IF q.type \in {"TXT", "ANY"} THEN "identity" ELSE "none")

\* elpis_localzone_static, in the order of its tests.
Static ==
    IF q.class = "CH" THEN Chaos
    ELSE IF q.name = Identity THEN WhoAmI
    ELSE IF q.type = "ANY" /\ conf.refuse_any THEN Reply("NOERROR", "HINFO")
    ELSE IF is_localhost(q.name) THEN Loopback(q.type)
    ELSE IF Denied(q.name) THEN Reply("NXDOMAIN", "none")
    ELSE None

\* elpis_localzone_answer.
Mid ==
    IF q.name = <<>> THEN None
    ELSE IF Denied(q.name) THEN Reply("NXDOMAIN", "none")
    ELSE IF is_localhost(q.name) THEN Loopback(q.type)
    ELSE None

-----------------------------------------------------------------------------
Blank == [name |-> <<>>, type |-> "A", class |-> "IN"]

Init ==
    /\ conf = [block |-> TRUE, refuse_any |-> TRUE]
    /\ q = Blank /\ depth = 0 /\ st = "idle" /\ got = None /\ sent = {} /\ hops = 0

\* handle_query, when no earlier test ended it.
Ask ==
    /\ st = "idle"
    /\ conf' \in [block : BOOLEAN, refuse_any : BOOLEAN]
    /\ q' \in [name : Names, type : Types, class : {"IN", "CH"}]
    /\ st' = "ask"
    /\ UNCHANGED <<depth, got, sent, hops>>

Answer ==
    /\ st = "ask"
    /\ got' = Static
    /\ st' = IF got' # None THEN "done" ELSE "lookup"
    /\ UNCHANGED <<conf, q, depth, sent, hops>>

\* ELPIS_TS_LOOKUP: the local answer comes first, in a task of depth 0.
Lookup ==
    /\ st = "lookup"
    /\ got' = IF depth = 0 THEN Mid ELSE None
    /\ IF got' # None THEN st' = "done" /\ UNCHANGED sent
       ELSE st' = "upstream" /\ sent' = sent \cup {[name |-> q.name, depth |-> depth]}
    /\ UNCHANGED <<conf, q, depth, hops>>

\* What another server says may be an alias, or servers without an address.
Alias ==
    /\ st = "upstream" /\ hops < MaxHops
    /\ \E n \in Names : q' = [q EXCEPT !.name = n]
    /\ st' = "lookup" /\ hops' = hops + 1
    /\ UNCHANGED <<conf, depth, got, sent>>

ServerAddress ==
    /\ st = "upstream" /\ hops < MaxHops /\ depth = 0
    /\ \E n \in Names : q' = [name |-> n, type |-> "A", class |-> "IN"]
    /\ depth' = 1 /\ st' = "lookup" /\ hops' = hops + 1
    /\ UNCHANGED <<conf, got, sent>>

Next == Ask \/ Answer \/ Lookup \/ Alias \/ ServerAddress

Spec == Init /\ [][Next]_vars

-----------------------------------------------------------------------------
(* Properties.                                                              *)

\* The names of RFC 6761 and RFC 6303, by their zones alone.
Reserved(n) ==
    \E z \in k_nonexistent \cup {g_localhost} \cup
             (IF conf.block THEN k_private_reverse ELSE {}) : IsSuffix(z, n)

\* A question of a client about a reserved name, and an alias into one, are
\* answered here: such a name is asked of no other server for the client.
Kept == \A s \in sent : s.depth = 0 => ~Reserved(s.name)

\* A name answers the same whether the client asks for it or an alias leads to
\* it (but for ANY, which static answers before it looks at the name).
SameAnswer ==
    st = "done" /\ hops > 0 /\ q.class = "IN" /\ q.type # "ANY" /\ q.name # Identity =>
        got = Static

\* A question about any other name is left to the zone's own servers (but for
\* CHAOS, ANY and the identity name).
OthersLeft ==
    st = "done" /\ q.class = "IN" /\ q.type # "ANY" /\ q.name # Identity => Reserved(q.name)

\* "names that must never reach the public DNS" (localzone.c:2): whatever the
\* reason they are looked up for.
NeverLeaves == \A s \in sent : ~Reserved(s.name)
=============================================================================
