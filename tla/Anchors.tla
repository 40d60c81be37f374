------------------------------ MODULE Anchors -------------------------------
(***************************************************************************)
(* The trust anchors (src/src/dnssec/trustanchor.c): the built-in root     *)
(* keys, the lines of trust-anchor-file, and what is asked of the store:   *)
(* the closest anchor above a name, the anchors of a zone, and the root    *)
(* key sentinel of dnssec.c.                                               *)
(***************************************************************************)
EXTENDS Integers, Sequences, FiniteSets, FiniteSetsExt, SequencesExt

CONSTANTS Lines,                \* lines of a file: sequences of tokens
          ZoneOf, NumOf,        \* the names and the numbers that tokens spell; a
                                \* name is its labels from the root down
          Builtin,              \* k_builtin
          TAG_OF, HASH_OF,      \* elpis_dnskey_tag() and SHA-256 of a key
          TA_MAX_TOK, MAX_TAS, MaxLines

VARIABLES ta,                   \* the store
          read                  \* the lines read so far
vars == <<ta, read>>

\* ta_push(): an anchor that is known already is not added again.
Push(s, a) == IF a \in ToSet(s) THEN s ELSE Append(s, a)

Init == ta = FoldLeft(Push, << >>, Builtin) /\ read = << >>

\* elpis_ta_load_file(): NAME, then up to two of a TTL and a class, then the type.
Skipped(tok) == tok \in {"IN", "CH"} \cup DOMAIN NumOf
TypeAt(line) ==
    Min({i \in 2 .. 4 : i = 4 \/ i + 1 > Len(line) \/ ~Skipped(line[i])})

NoAnchor == [zone |-> << >>, tag |-> -1, digest |-> "none"]

\* A line that is an anchor and can be read: not too few tokens nor too many, a
\* name, three numbers, and then a digest or a key.
Readable(line, ti) ==
    /\ Len(line) \in 5 .. TA_MAX_TOK /\ ti + 4 <= Len(line)
    /\ line[ti] \in {"DS", "DNSKEY"} /\ line[1] \in DOMAIN ZoneOf
    /\ \A i \in 1 .. 3 : line[ti + i] \in DOMAIN NumOf
    /\ line[ti + 4] # "bad"

\* The anchor of a line: a DS as it stands, a key by its SHA-256 DS, and none of a
\* key that is revoked.
AnchorOf(line) ==
    LET ti == TypeAt(line)
        revoked == (NumOf[line[ti + 1]] \div 128) % 2 = 1
        zone == ZoneOf[line[1]]
        data == line[ti + 4]
    IN  CASE ~Readable(line, ti) -> NoAnchor
          [] Readable(line, ti) /\ line[ti] = "DS" ->
                 [zone |-> zone, tag |-> NumOf[line[ti + 1]], digest |-> data]
          [] Readable(line, ti) /\ line[ti] = "DNSKEY" /\ ~revoked ->
                 [zone |-> zone, tag |-> TAG_OF[data], digest |-> HASH_OF[data]]
          [] OTHER -> NoAnchor

LoadLine ==
    /\ Len(read) < MaxLines
    /\ \E line \in Lines :
         LET a == AnchorOf(line)
         IN  /\ ta' = IF a = NoAnchor THEN ta ELSE Push(ta, a)
             /\ read' = Append(read, line)
Next == LoadLine
Spec == Init /\ [][Next]_vars

\* elpis_ta_closest(): the anchor with the most labels at or above a name.
Closest(name) ==
    LET above == {i \in DOMAIN ta : IsPrefix(ta[i].zone, name)}
    IN  IF above = {} THEN NoAnchor.digest
        ELSE ta[Min({i \in above : \A j \in above : Len(ta[i].zone) >= Len(ta[j].zone)})].zone

\* elpis_ta_for(): the anchors of a zone, as many as the caller has room for.
For(zone) ==
    LET all == SelectSeq(ta, LAMBDA a : a.zone = zone)
    IN  SubSeq(all, 1, Min({Len(all), MAX_TAS}))

\* elpis_root_sentinel(): 1 when the answer goes out, -1 when it is SERVFAIL.
Sentinel(is, tag) == IF is = (\E a \in ToSet(For(<< >>)) : a.tag = tag) THEN 1 ELSE -1
-----------------------------------------------------------------------------
(* Properties                                                              *)

\* The anchor a line states, in the forms of RFC 1035, TTL and class left out or in
\* either order: what a reader of the file takes from it.
Stated(line) ==
    LET n == Len(line)
        heads == {<< >>, <<"IN">>, <<"3600">>, <<"IN", "3600">>, <<"3600", "IN">>}
        form(kind) == n > 4 /\ SubSeq(line, 2, n - 4) \in {Append(h, kind) : h \in heads}
    IN  IF form("DS") /\ line[n] # "bad"
        THEN {[zone |-> ZoneOf[line[1]], tag |-> NumOf[line[n - 3]], digest |-> line[n]]}
        ELSE IF form("DNSKEY") /\ NumOf[line[n - 3]] < 384
        THEN {[zone |-> ZoneOf[line[1]], tag |-> TAG_OF[line[n]], digest |-> HASH_OF[line[n]]]}
        ELSE {}

\* The store is the built-in anchors and the ones the file states, each once,
\* whatever the order of TTL and class, and none that is unreadable or revoked.
AnchorsAsStated ==
    /\ IsInjective(ta)
    /\ ToSet(ta) = ToSet(Builtin) \cup UNION {Stated(l) : l \in ToSet(read)}

\* Validation starts at the nearest anchor, never above it: at or above the name,
\* with none in between; and the sentinel says of every root key whether the
\* store trusts it.
NearestAnchor ==
    /\ \A n \in Range(ZoneOf) : \A a \in ToSet(ta) :
         IsPrefix(a.zone, n) => IsPrefix(Closest(n), n) /\ Len(Closest(n)) >= Len(a.zone)
    /\ \A a \in ToSet(ta) :
         a.zone = << >> => Sentinel(TRUE, a.tag) = 1 /\ Sentinel(FALSE, a.tag) = -1
=============================================================================
