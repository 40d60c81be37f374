------------------------------ MODULE MCAnswers ------------------------------
(***************************************************************************)
(* What an answer may say, side by side: each behaviour is one of a machine  *)
(* of its own while the others stand still in their first state. The         *)
(* machines are denial of existence, signatures, trust anchors, TLS to a     *)
(* server, the start-up probe, local zones, cookies, the rate limit and the  *)
(* queries out to servers.                                                   *)
(***************************************************************************)
EXTENDS Outbound, TLC

CONSTANTS t1, t2, s1, s2

VARIABLE which          \* the machine of this behaviour; the others stand still
VARIABLES neg_zone, neg_proof
VARIABLES sig_job
VARIABLES ta_ta, ta_read
VARIABLES tls_t, tls_p, tls_odd
VARIABLES probe_on, probe_pc, probe_round, probe_probes, probe_fds, probe_t,
          probe_net, probe_path, probe_infra, probe_answered
VARIABLES local_conf, local_q, local_depth, local_st, local_got, local_sent,
          local_hops
VARIABLES cookie_cur, cookie_old, cookie_now, cookie_addr, cookie_cookie,
          cookie_turned, cookie_since, cookie_moves, cookie_reply
VARIABLES rate_now, rate_e, rate_idle, rate_exact, rate_said

neg_vars == <<neg_zone, neg_proof>>
sig_vars == <<sig_job>>
ta_vars == <<ta_ta, ta_read>>
tls_vars == <<tls_t, tls_p, tls_odd>>
probe_vars == <<probe_on, probe_pc, probe_round, probe_probes, probe_fds,
                probe_t, probe_net, probe_path, probe_infra, probe_answered>>
local_vars == <<local_conf, local_q, local_depth, local_st, local_got,
                local_sent, local_hops>>
cookie_vars == <<cookie_cur, cookie_old, cookie_now, cookie_addr,
                 cookie_cookie, cookie_turned, cookie_since, cookie_moves,
                 cookie_reply>>
rate_vars == <<rate_now, rate_e, rate_idle, rate_exact, rate_said>>

\* Denials: labels from the top, 0 is the asterisk.
ZoneNames == {<< >>, <<0>>, <<1>>, <<2>>, <<1, 0>>, <<1, 1>>, <<1, 2>>}
Scramble == (<< >> :> 3) @@ (<<0>> :> 5) @@ (<<1>> :> 1) @@ (<<2>> :> 6)
            @@ (<<1, 0>> :> 4) @@ (<<1, 1>> :> 0) @@ (<<1, 2>> :> 2)

\* Signatures: three keys that share a tag, one of them revoked, a post-quantum
\* key and one of an old algorithm, with signatures forged or out of date.
Key(id, tag, alg, revoked) ==
    [id |-> id, tag |-> tag, alg |-> alg, zone |-> TRUE, revoked |-> revoked]
A == Key("a", 1, "ec", FALSE)
B == Key("b", 1, "ec", FALSE)
C == Key("c", 1, "ec", FALSE)
R == Key("r", 1, "ec", TRUE)
Q == Key("q", 2, "ml", FALSE)
O == Key("o", 2, "old", FALSE)
By(k, in) == [tag |-> k.tag, alg |-> k.alg, by |-> k, inwin |-> in]
Forged == [tag |-> 1, alg |-> "ec", by |-> Key("x", 1, "ec", FALSE), inwin |-> TRUE]
Sigs == {By(A, TRUE), By(C, TRUE), By(R, TRUE), By(Q, TRUE), By(O, TRUE), By(A, FALSE), Forged}
Ds(k, known) == [key |-> k, alg |-> k.alg, known |-> known]
SigLists == UNION {[1 .. k -> Sigs] : k \in 0 .. 2} \cup [1 .. 3 -> Sigs \ {By(C, TRUE), By(O, TRUE)}]
KeyLists == {<<A>>, <<A, B>>, <<B, A>>, <<A, B, C>>, <<R, A>>, <<A, Q>>, <<Q, B, A>>,
             <<A, R, C>>, <<O>>, <<O, A>>}
DsLists == {<<d>> : d \in {Ds(A, TRUE), Ds(B, TRUE), Ds(Q, TRUE), Ds(O, TRUE), Ds(A, FALSE)}}
           \cup {<<Ds(A, TRUE), Ds(Q, TRUE)>>, <<Ds(B, TRUE), Ds(A, TRUE)>>}

\* Anchor files: TTL and class in either order or absent, records good and bad.
ZoneOf == ("." :> << >>) @@ ("com." :> <<"com">>) @@ ("example.com." :> <<"com", "example">>)
NumOf == ("3600" :> 3600) @@ ("20326" :> 20326) @@ ("777" :> 777) @@ ("2" :> 2) @@ ("3" :> 3)
         @@ ("8" :> 8) @@ ("257" :> 257) @@ ("385" :> 385)
Builtin == <<[zone |-> << >>, tag |-> 20326, digest |-> "d1"],
             [zone |-> << >>, tag |-> 38696, digest |-> "d2"]>>
Heads == {<< >>, <<"IN">>, <<"3600">>, <<"IN", "3600">>, <<"3600", "IN">>}
Records == {<<"DS", "20326", "8", "2", "d1">>, <<"DS", "777", "8", "2", "d3">>,
            <<"DS", "777", "8", "2", "bad">>, <<"DNSKEY", "257", "3", "8", "k1">>,
            <<"DNSKEY", "257", "3", "8", "k2">>, <<"DNSKEY", "385", "3", "8", "k2">>,
            <<"RRSIG", "257", "3", "8", "k2">>}
Lines == {<<z>> \o h \o r : z \in DOMAIN ZoneOf, h \in Heads, r \in Records}

\* Reserved names, names that look like them, and public ones.
AskedNames ==
    { << >>, <<"com">>, <<"local", "com">>, <<"xlocal">>, <<"local">>, <<"a", "local">>,
      <<"localhost">>, <<"a", "localhost">>, <<"arpa">>, <<"localhost", "arpa">>,
      <<"b", "localhost", "arpa">>, <<"1", "10", "in-addr", "arpa">>, <<"in-addr", "arpa">>,
      <<"version", "bind">>, <<"id", "elpis">> }

Neg == INSTANCE Denial WITH
    Names <- ZoneNames, Star <- 0, MaxOwners <- 2, Scramble <- Scramble, Insists <- TRUE,
    zone <- neg_zone, proof <- neg_proof

Sig == INSTANCE Verify WITH
    KeyLists <- KeyLists, SigLists <- SigLists, DsLists <- DsLists,
    Supported <- {"ec", "ml"}, PQ <- {"ml"}, VAL_SIG_TRIES <- 3,
    VAL_TAG_COLLIDE <- 2, VAL_DS_TRIES <- 2, VAL_MAX_VERIFIES <- 5, W <- 4,
    SKEW <- 1,
    job <- sig_job

Ta == INSTANCE Anchors WITH
    Lines <- Lines, ZoneOf <- ZoneOf, NumOf <- NumOf, Builtin <- Builtin,
    TAG_OF <- [k1 |-> 20326, k2 |-> 777],
    HASH_OF <- [k1 |-> "d1", k2 |-> "d3"], TA_MAX_TOK <- 9, MAX_TAS <- 16,
    MaxLines <- 2,
    ta <- ta_ta, read <- ta_read

TLS == INSTANCE Tls WITH
    OUT_LIMIT <- 3, APP_LIMIT <- 1, MaxOut <- 4, MaxUpdates <- 2,
    MaxSeq <- 1,
    t <- tls_t, p <- tls_p, odd <- tls_odd

Prb == INSTANCE Probe WITH
    Target <- {"a4", "b4", "a6"}, Inet6 <- {"a6"}, ROUNDS <- 2,
    MaxProbes <- 2,
    on <- probe_on, pc <- probe_pc, round <- probe_round,
    probes <- probe_probes, fds <- probe_fds, t <- probe_t,
    net <- probe_net, path <- probe_path, infra <- probe_infra,
    answered <- probe_answered

Local == INSTANCE LocalZone WITH
    Names <- AskedNames, Identity <- <<"id", "elpis">>,
    Types <- {"A", "AAAA", "TXT", "ANY"}, MaxHops <- 2,
    conf <- local_conf, q <- local_q, depth <- local_depth, st <- local_st,
    got <- local_got, sent <- local_sent, hops <- local_hops

Ck == INSTANCE Cookies WITH
    MAX_AGE <- 2, MAX_SKEW <- 1, Addr <- {"home", "away"}, MaxTime <- 4, MaxRotations <- 3,
    MaxMoves <- 2,
    cur <- cookie_cur, old <- cookie_old, now <- cookie_now,
    addr <- cookie_addr, cookie <- cookie_cookie, turned <- cookie_turned,
    since <- cookie_since, moves <- cookie_moves, reply <- cookie_reply

Rate == INSTANCE RateLimit WITH
    Prefix <- {"p", "r"}, RATE <- 1, SCALE <- 3, MS <- 4, WRAP <- 8,
    now <- rate_now, e <- rate_e, idle <- rate_idle, exact <- rate_exact,
    said <- rate_said

allvars == <<which, vars, neg_vars, sig_vars, ta_vars, tls_vars,
            probe_vars, local_vars, cookie_vars, rate_vars>>

AnyInit ==
    /\ which \in {"out", "neg", "sig", "ta", "tls", "probe", "local",
                 "cookie", "rate"}
    /\ Init
    /\ Neg!Init
    /\ Sig!Init
    /\ Ta!Init
    /\ TLS!Init
    /\ Prb!Init
    /\ Local!Init
    /\ Ck!Init
    /\ Rate!Init

\* Two tasks share the memory of two queries; all of it is for one task alone.
Shared ==
    \/ \E x \in Queries : w.q[x].via = "none"
    \/ \E t \in Tasks : w.out[t] = 0 /\ w.race[t] = 0 /\ w.again[t] = 0

AnyNext ==
    /\ UNCHANGED which
    /\ IF which = "out" THEN Next /\ Shared' ELSE UNCHANGED vars
    /\ IF which = "neg" THEN Neg!Next ELSE UNCHANGED neg_vars
    /\ IF which = "sig" THEN Sig!Next ELSE UNCHANGED sig_vars
    /\ IF which = "ta" THEN Ta!Next ELSE UNCHANGED ta_vars
    /\ IF which = "tls" THEN TLS!Next ELSE UNCHANGED tls_vars
    /\ IF which = "probe" THEN Prb!Next ELSE UNCHANGED probe_vars
    /\ IF which = "local" THEN Local!Next ELSE UNCHANGED local_vars
    /\ IF which = "cookie" THEN Ck!Next ELSE UNCHANGED cookie_vars
    /\ IF which = "rate" THEN Rate!Next ELSE UNCHANGED rate_vars

AnySpec == AnyInit /\ [][AnyNext]_allvars

\* Only the queries tell the tasks and the servers apart by name.
Symmetric == Permutations({t1, t2}) \cup Permutations({s1, s2})

-----------------------------------------------------------------------------
\* Whatever genuine NSEC or NSEC3 records of a zone come with a reply, they
\* deny a name only where the zone does not have it, it is below a delegation,
\* or, with NSEC, it is an empty non-terminal; they deny a type only where the
\* name does not have it, and at a delegation, with NSEC, only DS; they show a
\* cut only where there is one or an opt-out span leaves room for one, and what
\* rests on such a span is not called proved; the records an honest server
\* sends do deny (nsec.c, nsec3.c, check_denial()).
DenialsTrue ==
    which = "neg" =>
        /\ Neg!DeniesOnlyAbsent
        /\ Neg!DeniesOnlyMissing
        /\ Neg!CutsAreCuts
        /\ Neg!OptoutIsNotProof
        /\ Neg!HonestDenials

\* What the comment at the end of elpis_nsec_proves_nodata() calls a valid
\* proof: the name is covered, the wildcard that stands in for it is shown,
\* and does not have the type.
WildcardNodata == which = "neg" => Neg!WildcardNodata

-----------------------------------------------------------------------------
\* TLS to a server, whatever messages are left out, repeated, reordered or
\* malformed: the connection opens only on a transcript both sides have
\* proved, an honest server is served, both ends change their keys at the
\* same record, and all the client has queued can be read at the other end
\* (tls.c).
ChannelSound ==
    which = "tls" =>
        /\ TLS!OpenIsProven
        /\ TLS!HonestServed
        /\ TLS!KeysAgree
        /\ TLS!Decipherable

-----------------------------------------------------------------------------
\* However probes are repeated and their replies delayed, at least one family
\* of addresses stays in use, and a reply counts only for the question it
\* answers (probe.c).
OneFamilyLeft ==
    which = "probe" =>
        /\ Prb!OneFamilyLeft
        /\ Prb!OwnQuestion

-----------------------------------------------------------------------------
\* A reserved name is answered here, the same whether it is asked for or
\* reached through an alias in the middle of a resolution, and a name that
\* only looks like one is not (localzone.c, resolver.c).
ReservedKept ==
    which = "local" =>
        /\ Local!Kept
        /\ Local!SameAnswer
        /\ Local!OthersLeft

-----------------------------------------------------------------------------
\* What the server promises about cookies, to a client that keeps asking.
CookieKept == which = "cookie" => Ck!CookieKept

-----------------------------------------------------------------------------
\* "the bucket holds one second's worth plus a small burst": the code's
\* bucket never holds more than the exact one, so a prefix gets no more than
\* its rate and one burst for as long as it keeps the slot, also when the clock
\* wraps (bucket_take()).
NeverMore == which = "rate" => Rate!NeverMore

-----------------------------------------------------------------------------
\* What is trusted: a signature is believed only if a key of the zone, in its
\* time and of a supported algorithm, made it, the work stays bounded and yet a
\* good signature is found (verify_rrset(), verify_dnskey()); an anchor is as its
\* line states it, and the nearest one is taken (trustanchor.c).
TrustEarned ==
    /\ which = "sig" => /\ Sig!Believed /\ Sig!Bounded /\ Sig!GoodIsFound
                        /\ Sig!ReasonsTrue /\ Sig!DatesWrap
    /\ which = "ta" => Ta!AnchorsAsStated /\ Ta!NearestAnchor

\* The queries of a worker and the connections some of them share: a task is
\* stepped only with nothing out; what nobody waits for can end by itself; a race
\* is UDP beside UDP;
\* connections' lists and counters agree with the queries; what waits has a
\* timer; a list that is walked holds nothing freed; a lost query goes over DoT
\* again once (outbound.c, dot.c).
OutSound ==
    which = "out" =>
        /\ TypeOK /\ SteppedIdle /\ NoOrphans /\ RacesOverUDP /\ Listed
        /\ Timed /\ WalkIsSafe /\ SentAgainOnce

\* What a step may not do: join part of a TLS message read in the clear, or under
\* the keys of the handshake, to bytes read under the keys that follow, say
\* anything on a connection after its failure (tls.c), or blame a server that was
\* not asked for its silence (probe.c).
AnswersStep ==
    [][/\ which = "tls" => TLS!NothingStraddles /\ TLS!FailedIsSilent
       /\ which = "probe" => Prb!BlamedForSilence]_allvars
=============================================================================
