-------------------------------- MODULE Val --------------------------------
(***************************************************************************)
(* The validator of one worker (src/src/dnssec/dnssec.c): how the chain of  *)
(* trust is walked from the anchor to every zone that signed something in   *)
(* an answer, or should have, over lookups that may fail and a cache that   *)
(* other workers write to.                                                  *)
(*                                                                          *)
(* The names are a tree.  What is really at each of them (`world') decides  *)
(* what an honest lookup can return; a lookup may also fail, and a record   *)
(* come damaged or without its proof.  An answer is a sequence of RRsets,   *)
(* each with a signature, good or damaged, or without one.  The signature   *)
(* names its signer: the zone of the set ("own") or any other name.         *)
(***************************************************************************)
EXTENDS Integers, Sequences, FiniteSets

CONSTANTS
    Names, Parent, Root,   \* the tree: Parent is a function on Names \ {Root}
    Kinds,                 \* what each name may really be
    Answers,               \* the answers to judge
    Routed,                \* zones configured as stub- or forward-zones
    FaultSets,             \* what may go wrong together: sets of "lost", "bad",
                           \* "trim", "ttl0", "evict" and "other"
    MAX_SIGNERS, MAX_STEPS, FAILED, FAIL_TRIES, KEPT, GUARD,
    MaxRounds              \* how often an answer is judged

VARIABLES
    world,    \* what is at each name, and what may go wrong
    ans,      \* the answer being judged
    v,        \* the validator's state (val_t)
    cache,    \* the RRset cache: entries for a DS and a DNSKEY of each name
    absent,   \* names whose delegation is marked ELPIS_DS_ABSENT
    sec,      \* the verdict, "none" while there is none
    harm,     \* a record came damaged or without its proof (history)
    rounds

vars == <<world, ans, v, cache, absent, sec, harm, rounds>>

-----------------------------------------------------------------------------
(* The tree, and what is true of it                                         *)

Labels[n \in Names] == IF n = Root THEN 0 ELSE 1 + Labels[Parent[n]]
Ups[n \in Names] == IF n = Root THEN {Root} ELSE {n} \cup Ups[Parent[n]]

\* elpis_name_suffix(): the ancestor of n, or n, with that many labels.
Suffix(n, k) == CHOOSE u \in Ups[n] : Labels[u] = k

Cuts == {n \in Names : world.kind[n] \in {"signed", "unsigned", "unsupported", "private"}}

\* The zone a name belongs to, and the one that delegates it.
Deepest(S) == CHOOSE n \in S : \A u \in S : Labels[u] <= Labels[n]
ZoneOf(n) == Deepest(Ups[n] \cap Cuts)
ZoneAbove(n) == Deepest((Ups[n] \ {n}) \cap Cuts)

\* Signed from the anchor down, by algorithms that are implemented.
Signed(n) == \A u \in Ups[n] \cap Cuts : world.kind[u] = "signed"
\* At or below a delegation without a DS, or with none that can be used.
Unsigned(n) == \E u \in Ups[n] : world.kind[u] \in {"unsigned", "unsupported"}
\* In a namespace that the signed tree does not know and the operator routes.
Private(n) == \E u \in Ups[n] : world.kind[u] = "private" /\ Ups[n] \cap Routed # {}

-----------------------------------------------------------------------------
(* Records                                                                  *)

None == [k |-> "none", good |-> FALSE, proves |-> "no", ref |-> FALSE, sec |-> "un"]
Entry(k, good, proves, ref) ==
    [k |-> k, good |-> good, proves |-> proves, ref |-> ref, sec |-> "un"]

Keys == {"DS", "DNSKEY"} \X Names
Goods == IF "bad" \in world.faults THEN {TRUE, FALSE} ELSE {TRUE}

\* What an authority returns for a DS or a DNSKEY.  A denial of a DS proves
\* an unsigned delegation, or that there is no such name, or nothing: the
\* name is no cut, or the proof was trimmed.
Returns(key) ==
    LET n == key[2] IN
    IF key[1] = "DNSKEY" THEN {Entry("keys", g, "no", FALSE) : g \in Goods}
    ELSE CASE world.kind[n] \in {"signed", "unsupported"} ->
                  {Entry("ds", g, "no", FALSE) : g \in Goods}
           [] world.kind[n] = "unsigned" ->
                  {Entry("denial", TRUE, p, FALSE) :
                      p \in {"cut"} \cup IF "trim" \in world.faults THEN {"no"} ELSE {}}
           [] world.kind[n] = "plain" -> {Entry("denial", TRUE, "no", FALSE)}
           [] world.kind[n] = "alias" -> {Entry("cname", TRUE, "no", FALSE)}
           [] world.kind[n] = "private" -> {Entry("denial", TRUE, "nx", FALSE)}

\* Verified against the keys in hand, those of zone `cur'.
Verifies(e, n, cur) == e.good /\ ZoneAbove(n) = cur
Proves(e, n, cur, what) == e.k = "denial" /\ e.proves = what /\ ZoneAbove(n) = cur

-----------------------------------------------------------------------------
(* The machine's state                                                      *)

Idle ==
    [stage |-> "idle", signers |-> <<>>, probe |-> {}, cut |-> FALSE, si |-> 1,
     cur |-> Root, walk |-> Root, keys |-> None, ds |-> None, want |-> <<"DS", Root>>,
     waiting |-> FALSE, steps |-> 0, guard |-> 0, keyed |-> FALSE, failed |-> <<>>,
     kept |-> {}, status |-> <<>>]

Init ==
    /\ world = [kind |-> [n \in Names |-> IF n = Root THEN "signed" ELSE "plain"], faults |-> {}]
    /\ ans = [sets |-> <<>>, neg |-> "no", zone |-> Root]
    /\ v = Idle /\ cache = [key \in Keys |-> None] /\ absent = {}
    /\ sec = "none" /\ harm = FALSE /\ rounds = 0

Running == v.stage # "idle" /\ ~v.waiting
Signer == v.signers[v.si]
\* set_signer(): what the set's first RRSIG names, whatever that is.
SignerOf(s) == IF s.by = "own" THEN ZoneOf(s.owner) ELSE s.by
SetsOf(sg) == {i \in DOMAIN ans.sets : ans.sets[i].sgn # "none" /\ SignerOf(ans.sets[i]) = sg}
Bare(n) == {i \in DOMAIN ans.sets : ans.sets[i].sgn = "none" /\ ans.sets[i].owner = n}
Unknown == {i \in DOMAIN v.status : v.status[i] = "unknown"}
Set(S, what) == [i \in DOMAIN v.status |-> IF i \in S \cap Unknown THEN what ELSE v.status[i]]

\* val_done(): the verdict, and the state is let go.
Verdict(what) == sec' = what /\ v' = Idle

\* val_step(): unless it has made too many lookups, a run takes less than
\* GUARD turns of the loop.
Go == Running /\ v.guard < GUARD /\ ~(v.guard = 1 /\ v.steps > MAX_STEPS)
Turn(w) == [w EXCEPT !.guard = @ + 1]
-----------------------------------------------------------------------------
(* What is in hand, and what must be fetched                                *)

InKept(key) == {p \in v.kept : p[1] = key}

\* val_cached(): the cache, then what this validation was handed.
Have(key) == cache[key].k # "none" \/ InKept(key) # {}
Copy(key) == IF cache[key].k # "none" THEN cache[key]
             ELSE (CHOOSE p \in InKept(key) : TRUE)[2]

\* fail_slot(): the count of a lookup, in a free place or the weakest.
Slot(f, key) ==
    IF \E i \in DOMAIN f : f[i].key = key THEN f
    ELSE IF Len(f) < FAILED THEN Append(f, [key |-> key, tries |-> 0])
    ELSE LET w == CHOOSE i \in DOMAIN f :
                      /\ \A j \in DOMAIN f : f[i].tries <= f[j].tries
                      /\ \A j \in 1 .. i - 1 : f[j].tries > f[i].tries
         IN  [f EXCEPT ![w] = [key |-> key, tries |-> 0]]

At(f, key) == CHOOSE i \in DOMAIN f : f[i].key = key
Tries(key) == LET f == Slot(v.failed, key) IN f[At(f, key)].tries
Counted(key, n) == LET f == Slot(v.failed, key)
                   IN  [f EXCEPT ![At(f, key)].tries = n]
Landed(key) == Counted(key, 0)

\* The lookup the machine wants next.
Wanted ==
    CASE v.stage = "anchor" -> <<"DNSKEY", v.cur>>
      [] v.stage = "descend" -> <<"DS", Suffix(Signer, Labels[v.walk] + 1)>>
      [] OTHER -> v.want
Descending == v.stage = "descend" /\ Labels[v.walk] < Labels[Signer]
Wanting == Go /\ (v.stage \in {"anchor", "keys"} \/ Descending)
GivesUp(key) == ~Have(key) /\ Tries(key) >= FAIL_TRIES

\* val_need(), when the record must be fetched: a child, or somebody's.
Launch ==
    /\ Wanting /\ ~Have(Wanted) /\ ~GivesUp(Wanted)
    /\ v' = [v EXCEPT !.want = Wanted, !.waiting = TRUE, !.steps = @ + 1,
                      !.failed = Counted(Wanted, Tries(Wanted) + 1)]
    /\ UNCHANGED <<world, ans, cache, absent, sec, harm, rounds>>

\* val_resume(): the machine runs again from the head of its stage.
Resumed(w) == [w EXCEPT !.waiting = FALSE, !.guard = 1,
                        !.stage = IF @ = "keys" THEN "descend" ELSE @]

\* The lookup is over (val_child_done).  What came with TTL 0 is handed to the
\* validation; the rest is in the cache by now, if anything came at all.
Whole(e, n) == e.good /\ (world.kind[n] = "unsigned" /\ e.k = "denial" => e.proves = "cut")
Land ==
    /\ v.waiting
    /\ \/ \E e \in Returns(v.want) :
             /\ \/ cache' = [cache EXCEPT ![v.want] = e] /\ v' = Resumed(v)
                \/ /\ "ttl0" \in world.faults /\ UNCHANGED cache
                   /\ v' = Resumed([v EXCEPT !.kept =
                                IF InKept(v.want) = {} /\ Cardinality(@) >= KEPT THEN @
                                ELSE (@ \ InKept(v.want)) \cup {<<v.want, e>>}])
             /\ harm' = (harm \/ ~Whole(e, v.want[2]))
       \/ "lost" \in world.faults /\ v' = Resumed(v) /\ UNCHANGED <<cache, harm>>
    /\ UNCHANGED <<world, ans, absent, sec, rounds>>

\* put_material(): the verdict on a record goes to the cache, unless it came
\* with TTL 0, and to the copy this validation holds.
Stamped(key, e, s) ==
    IF cache[key].k = "none" THEN cache ELSE [cache EXCEPT ![key] = [e EXCEPT !.sec = s]]
Restamped(key, e, s) ==
    {IF p = <<key, e>> THEN <<key, [e EXCEPT !.sec = s]>> ELSE p : p \in v.kept}

-----------------------------------------------------------------------------
(* The stages                                                               *)

\* below_unsigned_cut(): a delegation above is known to have no DS.
BelowCut(n) ==
    \E u \in Ups[n] \ {Root} :
        \/ u \in absent
        \/ cache[<<"DS", u>>].k = "denial" /\ cache[<<"DS", u>>].sec = "ins"

Listed(sq, n) == \E i \in DOMAIN sq : sq[i] = n
Added(sq, n) == IF Listed(sq, n) \/ Len(sq) >= MAX_SIGNERS THEN sq ELSE Append(sq, n)

\* collect_signers(): the names that the signatures give, each once.
SignersUpTo[i \in 0 .. Len(ans.sets)] ==
    IF i = 0 THEN <<>>
    ELSE IF ans.sets[i].sgn = "none" THEN SignersUpTo[i - 1]
    ELSE Added(SignersUpTo[i - 1], SignerOf(ans.sets[i]))

\* collect_unsigned_zones(): and the owners of what came without a signature,
\* unless they are below a known cut or nobody knows who served them.
Placed(i) == ans.sets[i].sgn = "none" /\ ans.sets[i].placed
ProbesUpTo[i \in 0 .. Len(ans.sets)] ==
    IF i = 0 THEN SignersUpTo[Len(ans.sets)]
    ELSE IF Placed(i) /\ ~BelowCut(ans.sets[i].owner)
    THEN Added(ProbesUpTo[i - 1], ans.sets[i].owner)
    ELSE ProbesUpTo[i - 1]

\* elpis_val_start().
Judge ==
    /\ v.stage = "idle" /\ rounds < MaxRounds /\ rounds' = rounds + 1
    /\ IF rounds = 0 THEN world' \in [kind : Kinds, faults : FaultSets] ELSE world' = world
    /\ ans' \in IF rounds = 0 THEN Answers ELSE {ans}
    /\ v' = [Idle EXCEPT !.stage = "start", !.guard = 1,
                         !.status = [i \in DOMAIN ans'.sets |-> "unknown"]]
    /\ sec' = "none" /\ UNCHANGED <<cache, absent, harm>>

\* VS_START.
Collect ==
    /\ Go /\ v.stage = "start"
    /\ LET probes == ProbesUpTo[Len(ans.sets)]
           known == {i \in DOMAIN ans.sets : Placed(i) /\ BelowCut(ans.sets[i].owner)}
           settled == Set(known, "insecure")
           done == probes = <<>> /\ ans.sets # <<>> /\ known = DOMAIN ans.sets
       IN  v' = Turn([v EXCEPT
                  !.status = settled,
                  !.signers = IF probes = <<>> THEN <<ans.zone>> ELSE probes,
                  !.probe = {n \in Names : \E i \in DOMAIN ans.sets :
                                 Placed(i) /\ i \notin known /\ ans.sets[i].owner = n},
                  !.stage = IF done THEN "tally" ELSE "anchor"])
    /\ UNCHANGED <<world, ans, cache, absent, sec, harm, rounds>>

\* Not to be had: unverifiable, which is neither insecure nor bogus.
Missing ==
    /\ Wanting /\ GivesUp(Wanted)
    /\ Verdict("indeterminate") /\ UNCHANGED <<world, ans, cache, absent, harm, rounds>>

\* VS_ANCHOR_KEYS: the anchor's own keys, checked once per copy.
AnchorKeys ==
    /\ Go /\ v.stage = "anchor" /\ Have(Wanted)
    /\ LET e == Copy(Wanted) IN
       IF e.sec # "sec" /\ ~e.good
       THEN Verdict("bogus") /\ UNCHANGED cache
       ELSE /\ v' = Turn([v EXCEPT !.keys = [e EXCEPT !.sec = "sec"], !.stage = "descend",
                                   !.failed = Landed(Wanted),
                                   !.kept = Restamped(Wanted, e, "sec")])
            /\ cache' = Stamped(Wanted, e, "sec") /\ UNCHANGED sec
    /\ UNCHANGED <<world, ans, absent, harm, rounds>>

Arrived ==
    /\ Go /\ v.stage = "descend" /\ ~Descending
    /\ v' = Turn([v EXCEPT !.stage = "verify"])
    /\ UNCHANGED <<world, ans, cache, absent, sec, harm, rounds>>

\* elpis_route_depth(): the longest zone configured at or above a name.
RouteDepth(n) == LET R == Ups[n] \cap Routed
                 IN  IF R = {} THEN -1 ELSE Labels[Deepest(R)]

\* A proven unsigned delegation: NS, no SOA and no DS.
CutProven(e, n) == Proves(e, n, v.cur, "cut")

\* VS_DESCEND, no DS at `next': an unsigned delegation, where that is proven;
\* no part of the signed tree; a referral's denial that proves nothing, which
\* is dropped and asked for; or no cut at all.
NoDs ==
    /\ Go /\ Descending /\ Have(Wanted)
    /\ LET next == Wanted[2]
           e == Copy(Wanted)
           w == [v EXCEPT !.failed = Landed(Wanted)]
       IN  /\ e.k \in {"denial", "cname"}
           /\ IF CutProven(e, next)
              THEN /\ v' = Turn([w EXCEPT !.cut = TRUE, !.stage = "verify",
                                          !.kept = Restamped(Wanted, e, "ins")])
                   /\ cache' = Stamped(Wanted, e, "ins")
                   /\ absent' \in {absent, absent \cup {next}}
              ELSE /\ UNCHANGED absent
                   /\ IF Proves(e, next, v.cur, "nx") /\ RouteDepth(Signer) >= Labels[next]
                      THEN v' = Turn([w EXCEPT !.cut = TRUE, !.stage = "verify"]) /\ UNCHANGED cache
                      ELSE IF e.ref
                      THEN v' = Turn(w) /\ cache' = [cache EXCEPT ![Wanted] = None]
                      ELSE v' = Turn([w EXCEPT !.walk = next]) /\ UNCHANGED cache
    /\ UNCHANGED <<world, ans, sec, harm, rounds>>

\* A DS, verified against the keys of the zone above once per copy.
Ds ==
    /\ Go /\ Descending /\ Have(Wanted)
    /\ LET next == Wanted[2]
           e == Copy(Wanted)
       IN  /\ e.k = "ds"
           /\ IF e.sec # "sec" /\ ~Verifies(e, next, v.cur)
              THEN Verdict("bogus") /\ UNCHANGED cache
              ELSE /\ v' = [v EXCEPT !.stage = "keys", !.want = <<"DNSKEY", next>>,
                                     !.ds = e, !.failed = Landed(Wanted),
                                     !.kept = Restamped(Wanted, e, "sec")]
                   /\ cache' = Stamped(Wanted, e, "sec") /\ UNCHANGED sec
    /\ UNCHANGED <<world, ans, absent, harm, rounds>>

\* And the keys it vouches for, unless it names only algorithms that are not
\* implemented: then what this zone signed is insecure.
DsKeys ==
    /\ Go /\ v.stage = "keys" /\ Have(Wanted)
    /\ LET next == Wanted[2]
           e == Copy(Wanted)
       IN  CASE e.sec # "sec" /\ world.kind[next] = "unsupported" ->
                   /\ v' = Turn([v EXCEPT !.stage = "verify", !.failed = Landed(Wanted),
                                          !.status = Set(SetsOf(Signer), "insecure")])
                   /\ UNCHANGED <<cache, sec>>
             [] e.sec # "sec" /\ world.kind[next] # "unsupported" /\ ~e.good ->
                   Verdict("bogus") /\ UNCHANGED cache
             [] OTHER ->
                   /\ v' = Turn([v EXCEPT !.stage = "descend", !.cur = next, !.walk = next,
                                          !.keys = [e EXCEPT !.sec = "sec"],
                                          !.failed = Landed(Wanted),
                                          !.kept = Restamped(Wanted, e, "sec")])
                   /\ cache' = Stamped(Wanted, e, "sec") /\ UNCHANGED sec
    /\ UNCHANGED <<world, ans, absent, harm, rounds>>

\* Mutant: what the zone signed is secure once its keys are.
Judged_Unchecked ==
    [i \in DOMAIN v.status |->
        IF i \in SetsOf(Signer) /\ v.cur = Signer THEN "secure" ELSE v.status[i]]

\* verify_for_current(): what the signer signed, against its keys, whichever zone
\* it is in; or, when the walk fell short of it, mark_insecure_for_current().
Judged ==
    [i \in DOMAIN v.status |->
        IF i \notin Unknown THEN v.status[i]
        ELSE IF i \in SetsOf(Signer)
        THEN IF v.cur # Signer THEN "insecure"
             ELSE IF ans.sets[i].sgn = "good" THEN "secure" ELSE "bogus"
        \* classify_unsigned_for_current(): only below a proven cut
        ELSE IF i \in Bare(Signer) /\ Signer \in v.probe
        THEN IF v.cut THEN "insecure" ELSE "bogus"
        ELSE "unknown"]

\* VS_VERIFY, and on to the next signer.
Verify ==
    /\ Go /\ v.stage = "verify"
    /\ v' = Turn([v EXCEPT
               !.status = Judged, !.cut = FALSE,
               !.keyed = @ \/ (v.cur = Signer /\ ~v.cut),
               !.si = IF @ < Len(v.signers) THEN @ + 1 ELSE @,
               !.cur = IF v.si < Len(v.signers) THEN Root ELSE @,
               !.walk = IF v.si < Len(v.signers) THEN Root ELSE @,
               !.stage = IF v.si < Len(v.signers) THEN "anchor" ELSE "tally"])
    /\ UNCHANGED <<world, ans, cache, absent, sec, harm, rounds>>

\* check_denial(): what a negative answer, all of it proven, says of the
\* question.
Denied == CASE ans.neg \in {"no", "proved"} -> "secure"
            [] ans.neg = "optout" -> "insecure"
            [] ans.neg = "unproved" -> "bogus"

\* tally().
Tallied ==
    LET S == {v.status[i] : i \in DOMAIN v.status}
    IN  IF "bogus" \in S \/ (S = {} /\ v.keyed) THEN "bogus"
        ELSE IF S # {"secure"} THEN "insecure"
        ELSE Denied

Tally ==
    /\ Go /\ v.stage = "tally"
    /\ Verdict(Tallied) /\ UNCHANGED <<world, ans, cache, absent, harm, rounds>>

\* The two ways in which a run ends without an end.
TooManyLookups ==
    /\ Running /\ v.guard = 1 /\ v.steps > MAX_STEPS
    /\ Verdict("indeterminate") /\ UNCHANGED <<world, ans, cache, absent, harm, rounds>>
TooManyTurns ==
    /\ Running /\ v.guard >= GUARD
    /\ Verdict("bogus") /\ UNCHANGED <<world, ans, cache, absent, harm, rounds>>

\* What the rest of the resolver does to the cache while a lookup is out or
\* between two answers: records expire, and a referral leaves what it said of
\* the DS (cache_referral_ds).
Evict ==
    /\ "evict" \in world.faults /\ ~Running
    /\ \E key \in Keys : cache[key].k # "none" /\ cache' = [cache EXCEPT ![key] = None]
    /\ UNCHANGED <<world, ans, v, absent, sec, harm, rounds>>
Referred ==
    /\ "other" \in world.faults /\ ~Running
    /\ \E n \in Names : /\ world.kind[n] = "unsigned" /\ cache[<<"DS", n>>].k = "none"
                        /\ \E e \in Returns(<<"DS", n>>) :
                              /\ cache' = [cache EXCEPT ![<<"DS", n>>] = [e EXCEPT !.ref = TRUE]]
                              /\ harm' = (harm \/ ~Whole(e, n))
    /\ UNCHANGED <<world, ans, v, absent, sec, rounds>>

Step ==
    \/ Collect \/ Launch \/ Missing \/ AnchorKeys \/ Arrived \/ NoDs \/ Ds \/ DsKeys
    \/ Verify \/ Tally \/ TooManyLookups \/ TooManyTurns
Next == Judge \/ Step \/ Land \/ Evict \/ Referred

Spec == Init /\ [][Next]_vars
FairSpec == Spec /\ WF_vars(Step \/ Land)
-----------------------------------------------------------------------------
(* Properties                                                               *)

\* The machine's state, and its tables within their bounds (val_t).
TypeOK ==
    /\ v.stage \in {"idle", "start", "anchor", "descend", "keys", "verify", "tally"}
    /\ Len(v.signers) <= MAX_SIGNERS /\ v.si \in 1 .. MAX_SIGNERS
    /\ v.walk \in Names /\ v.cur \in Ups[v.walk]
    /\ Len(v.failed) <= FAILED /\ Cardinality(v.kept) <= KEPT
    /\ v.steps <= MAX_STEPS + 1 /\ v.guard <= GUARD
    /\ sec \in {"none", "secure", "insecure", "bogus", "indeterminate"}

\* The name a chain is walked to for a set, and the walk's end there: a signer
\* is vouched for only where it is a zone; a set without a signature is of the
\* zone its own name is in.
Target(s) == IF s.sgn = "none" THEN s.owner ELSE SignerOf(s)
Astray(s) == s.sgn # "none" /\ Target(s) \notin Cuts

\* More names than signers[] has room for.
Crowded == Cardinality({Target(ans.sets[i]) : i \in DOMAIN ans.sets}) > MAX_SIGNERS

\* An answer is called secure only when every RRset of it carries a good
\* signature of the zone that its RRSIG names, and every zone from the anchor to
\* that one is signed; whatever failed, expired or was shared on the way (tally,
\* VS_DESCEND).  That the set is in that zone is nowhere compared.
SecureSound ==
    sec = "secure" =>
        /\ \A i \in DOMAIN ans.sets :
              LET s == ans.sets[i]
              IN  s.sgn = "good" /\ ~Astray(s) /\ Signed(Target(s))
        /\ ans.neg \in {"no", "proved"}

\* What is remembered so that it need not be checked again was checked: a
\* stamp on a DS or a DNSKEY, and the two marks of an unsigned delegation
\* (put_material, note_unsigned_zone, "Both marks ... are set in one place").
StampsEarned ==
    /\ \A n \in Names \ {Root} : cache[<<"DS", n>>].sec = "sec" =>
           cache[<<"DS", n>>].good /\ Signed(ZoneAbove(n))
    /\ \A n \in Names : cache[<<"DNSKEY", n>>].sec = "sec" =>
           cache[<<"DNSKEY", n>>].good /\ Signed(n)
    /\ \A n \in Names : n \in absent \/ cache[<<"DS", n>>].sec = "ins" =>
           world.kind[n] = "unsigned" /\ Signed(ZoneAbove(n))

\* "Unknown must fail closed": an RRset whose signature names a zone that is
\* signed all the way down, or that came without one from such a zone, is never
\* called insecure, whichever lookups failed, and an empty answer of such a zone
\* is not believed (VS_DESCEND, tally).  Insecure are those below an unsigned or
\* a private cut and, unlike what the words promise, those whose signature names
\* a signer that is no zone, where the walk ends short of it
\* (mark_insecure_for_current); and an answer with more signers than are walked.
FailsClosed ==
    /\ \A i \in DOMAIN v.status : v.status[i] = "insecure" =>
           LET s == ans.sets[i]
           IN  Unsigned(Target(s)) \/ Private(Target(s)) \/ Astray(s)
    /\ sec = "insecure" =>
           IF ans.sets = <<>> THEN ~Signed(ans.zone)
           ELSE \/ \E i \in DOMAIN ans.sets :
                      LET s == ans.sets[i] IN ~Signed(Target(s)) \/ Astray(s) \/ ~s.placed
                \/ ans.neg = "optout" \/ Crowded

\* No false alarm: where every record came whole and nothing in the answer is
\* amiss, the verdict is not bogus, however the walk was cut up by lookups,
\* expiry and referrals (classify_unsigned_for_current, VS_DESCEND).  Zones
\* with only unknown algorithms are left to UnsupportedUnsigned.
Amiss(s) == s.sgn = "bad" \/ (s.sgn = "none" /\ ~Unsigned(s.owner) /\ ~Private(s.owner))
NoFalseAlarm ==
    sec = "bogus" /\ ~harm /\ (\A n \in Names : world.kind[n] # "unsupported") =>
        \/ ans.neg = "unproved" \/ ans.sets = <<>>
        \/ \E i \in DOMAIN ans.sets : Amiss(ans.sets[i])

\* "Every DS uses an algorithm or digest we do not implement.  RFC 4035 says
\* treat the zone as unsigned rather than broken" (elpis_dnskey_validate_ds).
UnsupportedUnsigned ==
    sec = "bogus" /\ ~harm /\ ans.sets # <<>> =>
        ~\A i \in DOMAIN ans.sets :
            \E u \in Ups[Target(ans.sets[i])] : world.kind[u] = "unsupported"

\* Every validation comes to a verdict, although records may be lost and
\* expire for ever (VAL_FAIL_TRIES, VAL_MAX_STEPS).
Settles == []<>(v.stage = "idle")
=============================================================================
