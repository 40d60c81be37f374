------------------------------- MODULE Denial -------------------------------
(***************************************************************************)
(* The denial proofs (src/src/dnssec/nsec.c, nsec3.c and check_denial() of *)
(* dnssec.c) against the zones they are about.  A zone is a set of names   *)
(* with what is at each; from it follow the NSEC or NSEC3 records its      *)
(* owner signs.  A reply brings some of those records, and only those:     *)
(* their signatures have been checked (modules Val and Verify).            *)
(***************************************************************************)
EXTENDS Integers, Sequences, FiniteSets, FiniteSetsExt, SequencesExt

CONSTANTS Names,                \* names, each its labels from the apex of the zone
                                \* down, the labels numbers in canonical order
          Star,                 \* the label "*", the first of them
          MaxOwners,            \* how many names a zone has beside its apex
          Scramble,             \* what NSEC3 makes of the order of the names
          Insists               \* the reply is off the wire, and harden_dnssec_stripped

VARIABLE zone, proof
vars == <<zone, proof>>

Apex == << >>
Within(n, m) == IsPrefix(m, n)                  \* elpis_name_is_subdomain()
Below(n, m) == Within(n, m) /\ n # m

\* elpis_name_canon_cmp(): label by label from the root, and a name before the
\* names under it.
Before(a, b) ==
    \/ Below(b, a)
    \/ \E i \in 1 .. Min({Len(a), Len(b)}) :
         SubSeq(a, 1, i - 1) = SubSeq(b, 1, i - 1) /\ a[i] < b[i]

\* elpis_name_common_labels(), elpis_name_suffix() and elpis_name_prepend().
Common(a, b) == Len(LongestCommonPrefix({a, b}))
Suffix(n, k) == SubSeq(n, 1, k)
Wildcard(n) == Append(n, Star)
-----------------------------------------------------------------------------
(* Zones                                                                   *)

\* What may be at a name: the types its record lists.
Kinds == [data |-> {"A"}, alias |-> {"CNAME"}, cut |-> {"NS"}, signed |-> {"NS", "DS"},
          apex |-> {"SOA", "NS"}]
Cuts(z) == {n \in DOMAIN z.at : z.at[n] \in {"cut", "signed"}}
Zones ==
    {z \in [at : UNION {[D \cup {Apex} -> {"data", "alias", "cut", "signed", "apex"}] :
                          D \in UNION {kSubset(k, Names \ {Apex}) : k \in 0 .. MaxOwners}},
            nsec3 : BOOLEAN, optout : BOOLEAN] :
        /\ \A n \in DOMAIN z.at : z.at[n] = "apex" <=> n = Apex
        /\ \A n \in DOMAIN z.at, c \in Cuts(z) : ~Below(n, c)
        /\ \A n \in DOMAIN z.at : ~Below(n, <<Star>>)         \* none under a wildcard
        /\ z.optout => z.nsec3}

\* Names that exist: owners and the empty non-terminals above them.
Exists(z, n) == \E o \in DOMAIN z.at : Within(o, n)
Types(z, n) == IF n \in DOMAIN z.at THEN Kinds[z.at[n]] ELSE {}
\* Whether the zone, and not one delegated from it, speaks for a name.
Answers(z, n) == \A c \in Cuts(z) : ~Below(n, c)
Encloser(z, n) == Suffix(n, Max({k \in 0 .. Len(n) : Exists(z, Suffix(n, k))}))
\* The zone speaks for the name, it does not exist, and no wildcard stands in for it.
Absent(z, n) == Answers(z, n) /\ ~Exists(z, n) /\ ~Exists(z, Wildcard(Encloser(z, n)))

\* The names that get a record: with NSEC3 the empty non-terminals as well, and
\* with opt-out not the unsigned delegations.
Listed(z) ==
    LET owners == {n \in DOMAIN z.at : ~(z.optout /\ z.at[n] = "cut")}
    IN  IF z.nsec3 THEN {n \in Names : \E o \in owners : Within(o, n)} ELSE owners

\* The place of a name in the chain: its canonical order, or its hash.
Order(z, a, b) == IF z.nsec3 THEN Scramble[a] < Scramble[b] ELSE Before(a, b)
NextOf(z, n) ==
    LET after == {m \in Listed(z) : Order(z, n, m)}
        from == IF after = {} THEN Listed(z) ELSE after
    IN  CHOOSE m \in from : \A k \in from \ {m} : Order(z, m, k)
Record(z, n) == [owner |-> n, next |-> NextOf(z, n), types |-> Types(z, n)]
-----------------------------------------------------------------------------
(* nsec.c                                                                  *)

\* Mutant: the last record of the chain covers nothing.
Covers_Straight(z, r, n) == Order(z, r.owner, n) /\ Order(z, n, r.next)

\* elpis_nsec_covers() and n3_covers(): strictly between, round the end of the
\* chain for the last one.
Covers(z, r, n) ==
    IF Order(z, r.owner, r.next) THEN Order(z, r.owner, n) /\ Order(z, n, r.next)
    ELSE Order(z, r.owner, n) \/ Order(z, n, r.next)

Covered(z, P, n) == \E r \in P : Covers(z, r, n)
Matched(P, n) == \E r \in P : r.owner = n
At(P, n) == (CHOOSE r \in P : r.owner = n).types

\* elpis_nsec_proves_nxdomain(), with closest_encloser_labels().
NsecNxdomain(z, P, q) ==
    LET ce == Suffix(q, Max({0} \cup {Common(r.owner, q) : r \in P}
                                \cup {Common(r.next, q) : r \in P}))
    IN  /\ ~Matched(P, q) /\ Covered(z, P, q)
        /\ ~Matched(P, Wildcard(ce)) /\ Covered(z, P, Wildcard(ce))

\* elpis_nsec_proves_nodata().
NsecNodata(P, q, type) ==
    /\ Matched(P, q)
    /\ At(P, q) \cap {type, "CNAME"} = {}
    /\ "NS" \in At(P, q) => "SOA" \in At(P, q)

\* elpis_nsec_proves_insecure_deleg().
NsecInsecure(P, q) ==
    Matched(P, q) /\ At(P, q) \cap {"DS", "SOA"} = {} /\ "NS" \in At(P, q)

\* elpis_nsec_proves_no_ds().
NsecNoDs(z, P, q) ==
    IF Matched(P, q) THEN At(P, q) \cap {"DS", "SOA"} = {} ELSE NsecNxdomain(z, P, q)
-----------------------------------------------------------------------------
(* nsec3.c                                                                 *)

\* What a proof comes to: 0, 1 or ELPIS_NSEC3_OPTOUT_PROOF.
Proof(yes, optout) == IF ~yes THEN "none" ELSE IF optout THEN "optout" ELSE "proved"

\* find_closest_encloser(): walks up from the name to the first with a record.
Known(P, q) == {k \in 0 .. Len(q) : Matched(P, Suffix(q, k))}

\* elpis_nsec3_proves_nxdomain().
Nsec3Nxdomain(z, P, q) ==
    LET known == Known(P, q)
        ce == Suffix(q, Max(known))
    IN  Proof(/\ known # {} /\ Max(known) < Len(q)
              /\ Covered(z, P, Suffix(q, Max(known) + 1))
              /\ ~Matched(P, Wildcard(ce)) /\ Covered(z, P, Wildcard(ce)), z.optout)

\* elpis_nsec3_proves_no_ds().
Nsec3NoDs(z, P, q) ==
    IF Matched(P, q) THEN Proof(At(P, q) \cap {"DS", "SOA"} = {}, FALSE)
    ELSE Proof(Covered(z, P, q) /\ z.optout, TRUE)

\* elpis_nsec3_proves_nodata().
Nsec3Nodata(z, P, q, type) ==
    IF Matched(P, q) THEN Proof(At(P, q) \cap {type, "CNAME"} = {}, FALSE)
    ELSE IF type = "DS" THEN Nsec3NoDs(z, P, q) ELSE "none"

\* elpis_nsec3_proves_insecure_deleg().
Nsec3Insecure(z, P, q) ==
    IF Matched(P, q)
    THEN Proof(At(P, q) \cap {"DS", "SOA"} = {} /\ "NS" \in At(P, q), FALSE)
    ELSE Nsec3NoDs(z, P, q)
-----------------------------------------------------------------------------
(* dnssec.c                                                                *)

\* check_denial(), for a negative answer with its records, or with none.
CheckDenial(z, P, rcode, q, type) ==
    IF P = {} THEN Proof(~Insists, FALSE)
    ELSE CASE rcode = "nxdomain" /\ z.nsec3 -> Nsec3Nxdomain(z, P, q)
           [] rcode = "nxdomain" /\ ~z.nsec3 -> Proof(NsecNxdomain(z, P, q), FALSE)
           [] rcode = "noerror" /\ type = "DS" /\ z.nsec3 -> Nsec3NoDs(z, P, q)
           [] rcode = "noerror" /\ type = "DS" /\ ~z.nsec3 -> Proof(NsecNoDs(z, P, q), FALSE)
           [] rcode = "noerror" /\ type # "DS" /\ z.nsec3 -> Nsec3Nodata(z, P, q, type)
           [] rcode = "noerror" /\ type # "DS" /\ ~z.nsec3 -> Proof(NsecNodata(P, q, type), FALSE)

\* denial_proves(), asked about a delegation.
ProvesCut(z, P, q) == IF z.nsec3 THEN Nsec3Insecure(z, P, q) # "none" ELSE NsecInsecure(P, q)
-----------------------------------------------------------------------------
\* A zone, and then a reply with some of its records, are picked.
NoZone == [at |-> [n \in {Apex} |-> "apex"], nsec3 |-> FALSE, optout |-> FALSE]
Init == zone = NoZone /\ proof = {}

PickZone == zone = NoZone /\ proof = {} /\ zone' \in Zones /\ proof' = proof
PickProof ==
    /\ proof = {}
    /\ proof' \in {{Record(zone, n) : n \in S} : S \in SUBSET Listed(zone)}
    /\ zone' = zone
Next == PickZone \/ PickProof

Spec == Init /\ [][Next]_vars
-----------------------------------------------------------------------------
(* Properties                                                              *)

\* Names that have nothing of their own, only names below them.
Empty(z, n) == Exists(z, n) /\ n \notin DOMAIN z.at

\* Genuine records, in whatever selection they come, make check_denial() say
\* that a name does not exist only of one that does not exist and has no
\* wildcard to answer for it: not of one that is ordered last, not under a
\* wildcard of its closest encloser, not through a record of another part of the
\* zone.  Two kinds of names are excepted, which elpis_nsec_proves_nxdomain()
\* and elpis_nsec3_proves_nxdomain() do not tell from absent ones: those below a
\* delegation, whose record covers them, and with NSEC those that are empty.
DeniesOnlyAbsent ==
    \A q \in Names :
        CheckDenial(zone, proof, "nxdomain", q, "A") = "proved"
        => \/ Absent(zone, q)
           \/ ~Answers(zone, q)
           \/ ~zone.nsec3 /\ Empty(zone, q)

\* Nor does it call a type absent that is there, or an alias that leads on; and
\* nothing at a delegation but its DS, which elpis_nsec3_proves_nodata() does not
\* look at.  Below a delegation no type but DS is called absent.
DeniesOnlyMissing ==
    \A q \in Names, type \in {"A", "DS"} :
        CheckDenial(zone, proof, "noerror", q, type) = "proved"
        => /\ type \notin Types(zone, q)
           /\ type = "A" => "CNAME" \notin Types(zone, q) /\ Answers(zone, q)
           /\ type = "A" => q \notin Cuts(zone) \/ zone.nsec3

\* A name is taken for the top of an unsigned zone, below which nothing has to be
\* signed, only where the zone has no signed data and no signed delegation: with
\* a record of its own, only where it has an unsigned one.
CutsAreCuts ==
    \A q \in Names :
        ProvesCut(zone, proof, q)
        => \/ q \in Cuts(zone) /\ "DS" \notin Types(zone, q)
           \/ zone.optout /\ ~Matched(proof, q) /\ q \notin Listed(zone)

\* What rests on an opt-out span, where unsigned delegations may be, is never
\* passed on as proved, and so never carries AD.
OptoutIsNotProof ==
    \A q \in Names, type \in {"A", "DS"}, rcode \in {"nxdomain", "noerror"} :
        CheckDenial(zone, proof, rcode, q, type) = "proved"
        => Matched(proof, q) \/ ~zone.optout

\* The records an authority sends with a denial (RFC 4035, RFC 5155): the one at
\* the name, or those that cover the name and the wildcard.
Closer(z, q) == Suffix(q, Len(Encloser(z, q)) + 1)
CoverOf(z, n) ==
    LET below == {m \in Listed(z) : Order(z, m, n)}
        from == IF below = {} THEN Listed(z) ELSE below
    IN  CHOOSE m \in from : \A k \in from \ {m} : Order(z, k, m)
Sent(z, q) ==
    {Record(z, m) : m \in
        CASE q \in Listed(z) -> {q}
          [] z.nsec3 -> {Encloser(z, q), CoverOf(z, Closer(z, q)),
                         CoverOf(z, Wildcard(Encloser(z, q)))}
          [] OTHER -> {CoverOf(z, q), CoverOf(z, Wildcard(Encloser(z, q)))}}

\* An honest denial is never mistaken for a forged one: what an authority sends
\* with NXDOMAIN, or with an empty answer about a name that is in its chain, is
\* enough for check_denial() (checked when the reply is all of the zone's
\* records, from which the authority's own are taken).
HonestDenials ==
    proof = {Record(zone, n) : n \in Listed(zone)} =>
    \A q \in Names :
        Answers(zone, q) =>
        /\ Absent(zone, q) /\ (zone.nsec3 => Encloser(zone, q) \in Listed(zone))
           => CheckDenial(zone, Sent(zone, q), "nxdomain", q, "A") # "none"
        /\ q \in Listed(zone) /\ q \notin Cuts(zone) /\ Types(zone, q) \cap {"A", "CNAME"} = {}
           => CheckDenial(zone, Sent(zone, q), "noerror", q, "A") = "proved"
        /\ q \in Listed(zone) \ {Apex} /\ "DS" \notin Types(zone, q)
           => CheckDenial(zone, Sent(zone, q), "noerror", q, "DS") = "proved"

\* What the comment at the end of elpis_nsec_proves_nodata() calls a valid proof:
\* the name is covered, the wildcard that stands in for it is shown, and does not
\* have the type.
WildcardNodata ==
    ~zone.nsec3 =>
    \A q \in Names :
        LET wc == Wildcard(Encloser(zone, q))
        IN  /\ Answers(zone, q) /\ ~Exists(zone, q) /\ wc \in DOMAIN zone.at
            /\ zone.at[wc] \notin {"cut", "signed"} /\ Types(zone, wc) \cap {"AAAA", "CNAME"} = {}
            => CheckDenial(zone, {Record(zone, wc), Record(zone, CoverOf(zone, q))},
                           "noerror", q, "AAAA") = "proved"
=============================================================================
