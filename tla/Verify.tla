------------------------------- MODULE Verify -------------------------------
(***************************************************************************)
(* Checking signatures (src/src/dnssec/dnssec.c, up to the validation      *)
(* machine): which signatures of an RRset are tried against which keys, in *)
(* which order and how often, what authenticates a DNSKEY set, and the     *)
(* line that says why none did.  The arithmetic of the algorithms is a     *)
(* fact about a signature: the key that made it.                           *)
(***************************************************************************)
EXTENDS Integers, Sequences, FiniteSets, FiniteSetsExt, SequencesExt

CONSTANTS KeyLists,             \* lists of keys: tag, alg, zone, revoked
          SigLists,             \* of signatures: tag, alg, the key that made it, inwin
          DsLists,              \* of DS records or anchors: the key meant, alg, known
          Supported, PQ,        \* algorithms: implemented, post-quantum
          VAL_SIG_TRIES, VAL_TAG_COLLIDE, VAL_DS_TRIES, VAL_MAX_VERIFIES,
          W, SKEW               \* width of a date, signature-clock-skew

VARIABLE job                    \* what is being checked, and the verifications spent before
vars == <<job>>

\* verify_with_key(): one public-key operation, if the validation has any left.
Verifies(sig, key, spent) == spent < VAL_MAX_VERIFIES /\ sig.by = key

\* elpis_rrsig_verify(): "no" when the signature does not apply to this key.
Applies(sig, key) ==
    /\ sig.alg = key.alg /\ sig.tag = key.tag
    /\ key.zone /\ ~key.revoked /\ key.alg \in Supported
Attempt(sig, key, spent) ==
    CASE ~Applies(sig, key) -> [rc |-> "no", spent |-> spent]
      [] Applies(sig, key) /\ ~sig.inwin -> [rc |-> "bogus", spent |-> spent]
      [] OTHER -> [rc |-> IF Verifies(sig, key, spent) THEN "ok" ELSE "bogus",
                   spent |-> Min({spent + 1, VAL_MAX_VERIFIES})]

Done(r) == r.ok \/ r.fails >= VAL_SIG_TRIES

\* elpis_rrset_validate(), the body of the inner loop: one signature, one key.
TryKey(r, sig, key) ==
    LET a == Attempt(sig, key, r.spent)
    IN  IF Done(r) \/ key.alg # sig.alg \/ key.tag # sig.tag THEN r
        ELSE IF r.tagged >= VAL_TAG_COLLIDE THEN r
        ELSE [ok |-> a.rc = "ok", spent |-> a.spent, tagged |-> r.tagged + 1,
              fails |-> IF a.rc = "bogus" THEN r.fails + 1 ELSE r.fails]

TrySig(r, sig, keys) ==
    IF Done(r) THEN r
    ELSE FoldLeft(LAMBDA s, k : TryKey(s, sig, k), [r EXCEPT !.tagged = 0], keys)

Validated(sigs, keys, spent) ==
    FoldLeft(LAMBDA r, s : TrySig(r, s, keys),
             [ok |-> FALSE, fails |-> 0, tagged |-> 0, spent |-> spent], sigs)
Verdict(sigs, keys, spent) ==
    IF sigs = << >> THEN "unsigned" ELSE IF Validated(sigs, keys, spent).ok THEN "ok" ELSE "bogus"

\* ds_wants_pq(), with harden-pq-downgrade on.
WantsPQ(ds) == \E i \in DOMAIN ds : ds[i].known /\ ds[i].alg \in PQ \cap Supported

\* elpis_ds_matches().
DsMatches(d, key) == d.key = key /\ d.alg = key.alg /\ d.known

\* Mutant: a DS of any algorithm will do.
Counts_Any(ds, d) == d.known /\ d.alg \in Supported

\* elpis_dnskey_validate_ds() and, with anchors for DS, elpis_dnskey_validate_ta():
\* each DS that counts, against each key, which then has to sign the set.
Counts(ds, d) == d.known /\ d.alg \in Supported /\ (WantsPQ(ds) => d.alg \in PQ)

TryDs(r, ds, d, key, sigs) ==
    LET v == Validated(sigs, <<key>>, r.spent)
    IN  IF r.ok \/ r.tried >= VAL_DS_TRIES \/ ~Counts(ds, d) \/ ~DsMatches(d, key) THEN r
        ELSE [ok |-> v.ok, tried |-> r.tried + 1, spent |-> v.spent]

KeysValidated(ds, keys, sigs, spent) ==
    FoldLeft(LAMBDA r, d : FoldLeft(LAMBDA s, k : TryDs(s, ds, d, k, sigs), r, keys),
             [ok |-> FALSE, tried |-> 0, spent |-> spent], ds)
KeysVerdict(ds, keys, sigs, spent) ==
    CASE KeysValidated(ds, keys, sigs, spent).ok -> "ok"
      [] ~\E i \in DOMAIN ds : Counts(ds, ds[i]) -> "unsupported"
      [] OTHER -> "bogus"

\* elpis_dnskey_signers(): the keys that may sign once the set is believed.
Signers(ds, keys) == IF WantsPQ(ds) THEN SelectSeq(keys, LAMBDA k : k.alg \in PQ) ELSE keys

\* A date as a record holds it, and the difference of two read as signed.
Date(x) == x % (2 ^ W)
Signed(x) == IF Date(x) < 2 ^ (W - 1) THEN Date(x) ELSE Date(x) - 2 ^ W

\* sig_in_window(), and the same test in elpis_rrsig_verify(): by the
\* differences of the dates.
InWindow(now, inc, exp) == Signed(exp - now) + SKEW >= 0 /\ Signed(now - inc) + SKEW >= 0

\* elpis_rrset_sigs_lapsed().
Lapsed(sigs) == sigs # << >> /\ \A i \in DOMAIN sigs : ~sigs[i].inwin

\* elpis_rrset_why(): what it says stopped a signature, judged by the first key
\* with the signature's tag and algorithm.
Why(sig, keys) ==
    LET at == {i \in DOMAIN keys : keys[i].tag = sig.tag /\ keys[i].alg = sig.alg}
        key == keys[Min(at)]
    IN  CASE at = {} -> "no key with that tag"
          [] at # {} /\ ~key.zone -> "not a zone key"
          [] at # {} /\ key.zone /\ key.revoked -> "revoked"
          [] at # {} /\ key.zone /\ ~key.revoked /\ sig.alg \notin Supported -> "not supported"
          [] at # {} /\ Applies(sig, key) /\ ~sig.inwin -> "outside its dates"
          [] OTHER -> "failed the check"
-----------------------------------------------------------------------------
\* A job is picked: the keys, then the signatures; or a set of dates.
Idle == [what |-> "idle"]
Init == job = Idle

PickKeys ==
    /\ job = Idle
    /\ \E keys \in KeyLists, ds \in DsLists, spent \in {0, VAL_MAX_VERIFIES - 1} :
         job' = [what |-> "keys", keys |-> keys, ds |-> ds, spent |-> spent]
PickSigs ==
    /\ job.what = "keys"
    /\ \E sigs \in SigLists : job' = [job EXCEPT !.what = "set"] @@ [sigs |-> sigs]
PickDates ==
    /\ job = Idle
    /\ \E now, inc, exp \in 0 .. 2 ^ (W + 1) :
         /\ {now - exp, exp - now, now - inc, inc - now} \subseteq (-(2 ^ W)) .. 2 ^ (W - 1) - SKEW - 1
         /\ job' = [what |-> "dates", now |-> now, inc |-> inc, exp |-> exp]
Next == PickKeys \/ PickSigs \/ PickDates
Spec == Init /\ [][Next]_vars
-----------------------------------------------------------------------------
(* Properties                                                              *)

Good(sig, keys) == \E k \in ToSet(keys) : Applies(sig, k) /\ sig.by = k /\ sig.inwin
Cost(r) == r.spent - job.spent

\* An RRset is believed only for a signature that a key of the zone made, one
\* that may sign, within its dates; and a DNSKEY set only for one by a key that
\* a DS record vouches for, a post-quantum one if there is such a DS record.
Believed ==
    job.what = "set" =>
    LET keys == job.keys
        ok == KeysVerdict(job.ds, keys, job.sigs, job.spent) = "ok"
    IN  /\ Verdict(job.sigs, keys, job.spent) = "ok" => \E s \in ToSet(job.sigs) : Good(s, keys)
        /\ ok => \E s \in ToSet(job.sigs), d \in ToSet(job.ds), k \in ToSet(keys) :
                     /\ Good(s, <<k>>) /\ DsMatches(d, k)
                     /\ WantsPQ(job.ds) => k.alg \in PQ
        /\ ok /\ WantsPQ(job.ds)
           => \A k \in ToSet(Signers(job.ds, keys)) : k.alg \in PQ

\* The work is bounded however the tags collide: at most VAL_SIG_TRIES public-key
\* operations for an RRset, VAL_TAG_COLLIDE for one of its signatures,
\* VAL_DS_TRIES times as many for a DNSKEY set, VAL_MAX_VERIFIES in all.
Bounded ==
    job.what = "set" =>
    LET set == Validated(job.sigs, job.keys, job.spent)
        keys == KeysValidated(job.ds, job.keys, job.sigs, job.spent)
    IN  /\ Cost(set) <= VAL_SIG_TRIES
        /\ Len(job.sigs) = 1 => Cost(set) <= VAL_TAG_COLLIDE
        /\ Cost(keys) <= VAL_DS_TRIES * VAL_SIG_TRIES
        /\ {set.spent, keys.spent} \subseteq 0 .. VAL_MAX_VERIFIES

\* The bounds cost no honest zone its answer: a signature that is good is found
\* unless more than VAL_TAG_COLLIDE keys share a tag, VAL_SIG_TRIES checks have
\* failed before it or the validation has run out; and running out is never
\* taken for an RRset without signatures.
GoodIsFound ==
    job.what = "set" =>
    LET keys == job.keys
        bad(s) == {k \in ToSet(keys) : Applies(s, k) /\ s.by # k}
        fails == MapThenSumSet(LAMBDA i : Cardinality(bad(job.sigs[i])), DOMAIN job.sigs)
        alike(s) == {k \in ToSet(keys) : k.tag = s.tag /\ k.alg = s.alg}
        lapsed == {i \in DOMAIN job.sigs : ~job.sigs[i].inwin}
    IN  /\ /\ \E s \in ToSet(job.sigs) : Good(s, keys)
           /\ \A s \in ToSet(job.sigs) : Cardinality(alike(s)) <= VAL_TAG_COLLIDE
           /\ lapsed = {} /\ fails < VAL_SIG_TRIES /\ job.spent + fails < VAL_MAX_VERIFIES
           => Verdict(job.sigs, keys, job.spent) = "ok"
        /\ Verdict(job.sigs, keys, job.spent) = "unsigned" => job.sigs = << >>

\* What the cache drops because its signatures have lapsed could not have been
\* validated any more, and the line in the log names what stopped a signature:
\* "failed the check" only of one that got as far as the arithmetic (a tag that
\* several keys share aside, where the first of them speaks for all).
ReasonsTrue ==
    job.what = "set" =>
    /\ Lapsed(job.sigs) => Verdict(job.sigs, job.keys, job.spent) # "ok"
    /\ \A s \in ToSet(job.sigs) :
         LET alike == {i \in DOMAIN job.keys : /\ job.keys[i].tag = s.tag
                                               /\ job.keys[i].alg = s.alg}
             reason == Why(s, job.keys)
             applies == \E k \in ToSet(job.keys) : Applies(s, k)
         IN  Cardinality(alike) <= 1 =>
             /\ reason = "failed the check" <=> applies /\ s.inwin
             /\ reason = "outside its dates" <=> applies /\ ~s.inwin

\* Dates that have gone past the end of their W bits compare like the times they
\* stand for, as long as those are less than half the range apart.
DatesWrap ==
    job.what = "dates" =>
    (InWindow(job.now, job.inc, job.exp)
     <=> job.exp + SKEW >= job.now /\ job.now + SKEW >= job.inc)
=============================================================================
