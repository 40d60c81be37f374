---------------------------- MODULE RRsetStore ----------------------------
(***************************************************************************)
(* How a response becomes entries of the RRset cache: the grouping of a      *)
(* section into sets and signatures (cache_message_rrsets() in              *)
(* src/resolver/resolver.c), the marker a denial leaves (cache_negative()),  *)
(* the bounded buffer both are built in and the entry it is filed as         *)
(* (src/cache/rcache.c), and what is held for a waiting validation when the  *)
(* TTL is 0 (cache_rrset(), val_cached() in src/dnssec/dnssec.c).            *)
(*                                                                         *)
(* All records have one owner, the name asked for.  A section is a sequence  *)
(* of records [type, id, ttl]; a signature has type "RRSIG" and says which   *)
(* type it covers.  A denial's section has its SOA, with `minimum', and the  *)
(* records that prove it.  Each entry carries the section it came from and   *)
(* its age in seconds as history, to compare what is kept with what was sent.*)
(***************************************************************************)
EXTENDS Naturals, Sequences, FiniteSets, Folds, SequencesExt

CONSTANTS Sections,     \* answer sections a zone may send (small inputs)
          Negatives,      \* authority sections of negative answers
          MAX_RR,       \* ELPIS_RRSET_MAX_RR
          DONE,         \* places in cache_message_rrsets()'s done[]
          MIN_TTL, MAX_TTL,     \* cache-min-ttl, cache-max-ttl (and -neg-)
          TOP,          \* a TTL with its top bit set (2^31 in the code)
          SERVE_STALE,
          RESPONSES     \* responses taken (a bound)

Types == {"A", "CNAME"}
Keys == Types \cup {"NXNAME"}
None == [kind |-> "none"]

\* The first n elements of a sequence, or all of it.
Prefix(s, n) == SubSeq(s, 1, IF Len(s) < n THEN Len(s) ELSE n)

VARIABLES store,        \* the RRset cache, by type
          held,         \* task.held: None or a buffer
          last,         \* the response taken last, and how
          taken         \* responses so far

vars == <<store, held, last, taken>>

Init == store = [k \in Keys |-> None] /\ held = None /\ last = None /\ taken = 0

(***************************************************************************)
(* The buffer.                                                               *)
(***************************************************************************)
\* elpis_clamp_ttl(), elpis_clamp_neg_ttl()
elpis_clamp_ttl(ttl) ==
    LET t == IF ttl >= TOP THEN 0 ELSE ttl
    IN  IF t < MIN_TTL THEN MIN_TTL ELSE IF t > MAX_TTL THEN MAX_TTL ELSE t

elpis_rrset_buf_init(type, ttl) ==
    [kind |-> "set", type |-> type, ttl |-> ttl, data |-> <<>>, sigs |-> <<>>]

\* Data stay ahead of the signatures; a full buffer takes no more.
elpis_rrset_buf_add(b, id) ==
    IF b.sigs # <<>> \/ Len(b.data) >= MAX_RR THEN b ELSE [b EXCEPT !.data = Append(@, id)]

elpis_rrset_buf_add_sig(b, id) ==
    IF Len(b.data) + Len(b.sigs) >= MAX_RR THEN b ELSE [b EXCEPT !.sigs = Append(@, id)]

(***************************************************************************)
(* elpis_rcache_put_buf(), elpis_rcache_get(), elpis_rcache_state().         *)
(***************************************************************************)
\* An empty set is an error, one with TTL 0 is not kept; either way what was
\* under the key stays.
rcache_put(cache, b, from) ==
    IF (b.data = <<>> /\ b.sigs = <<>>) \/ b.ttl = 0 THEN cache
    ELSE [cache EXCEPT ![b.type] =
             [kind |-> b.kind, type |-> b.type, ttl |-> b.ttl, age |-> 0,
              data |-> Prefix(b.data, MAX_RR),
              sigs |-> Prefix(b.sigs, MAX_RR - Len(b.data)), from |-> from]]

\* Found within the TTL and serve-stale beyond it, with the TTL it has left.
Found(k, stale) == store[k] # None /\ ~(store[k].age > store[k].ttl /\ store[k].age > store[k].ttl + stale)
Left(k) == IF store[k].age >= store[k].ttl THEN 0 ELSE store[k].ttl - store[k].age

(***************************************************************************)
(* cache_message_rrsets(): the set led by record i, and what it holds.       *)
(***************************************************************************)
IsData(r) == r.type # "RRSIG"

\* Mutant: a signature over another type at the name is taken in.
Gather_AnySig(m, i) ==
    LET lead == m[i]
        Data(b, r) == IF r.type # lead.type THEN b
                      ELSE [elpis_rrset_buf_add(b, r.id) EXCEPT
                               !.ttl = IF r.ttl < @ THEN elpis_clamp_ttl(r.ttl) ELSE @]
        Sigs(b, r) == IF r.type = "RRSIG" THEN elpis_rrset_buf_add_sig(b, r.id) ELSE b
        b0 == elpis_rrset_buf_init(lead.type, elpis_clamp_ttl(lead.ttl))
    IN  FoldLeft(Sigs, FoldLeft(Data, b0, m), m)

\* Two passes: every record of the type, then every signature over it.
Gather(m, i) ==
    LET lead == m[i]
        Data(b, r) == IF r.type # lead.type THEN b
                      ELSE [elpis_rrset_buf_add(b, r.id) EXCEPT
                               !.ttl = IF r.ttl < @ THEN elpis_clamp_ttl(r.ttl) ELSE @]
        Sigs(b, r) == IF r.type = "RRSIG" /\ r.covers = lead.type THEN elpis_rrset_buf_add_sig(b, r.id) ELSE b
        b0 == elpis_rrset_buf_init(lead.type, elpis_clamp_ttl(lead.ttl))
    IN  FoldLeft(Sigs, FoldLeft(Data, b0, m), m)

\* Records of sets already gathered, as far as done[] has room for them; a
\* record it had none for leads its set again, to the same effect.
DoneBefore(m, i) ==
    LET Lead(done, j) ==
            IF j \in done \/ m[j].type = "RRSIG" THEN done
            ELSE LET more == {n \in 1..Len(m) : m[n].type = m[j].type}
                     room == DONE - Cardinality(done)
                 IN  done \cup {n \in more : Cardinality({o \in more : o <= n}) <= room}
    IN  FoldLeft(Lead, {}, [j \in 1..(i - 1) |-> j])

Leads(m) == SelectSeq([i \in 1..Len(m) |-> i], LAMBDA i : IsData(m[i]) /\ i \notin DoneBefore(m, i))

\* cache_rrset(): filed, and held as well if it came with TTL 0, is what was
\* asked for (or an alias or denial of it), and a validation waits.
Holds(b, q, hold) == b.ttl = 0 /\ hold /\ b.type \in {q, "CNAME", "NXNAME"}

cache_rrset(w, b, q, hold, from) ==
    [store |-> rcache_put(w.store, b, from),
     held |-> IF Holds(b, q, hold) THEN b ELSE w.held]

cache_message_rrsets(w, m, q, hold) ==
    LET One(w0, i) == LET b == Gather(m, i)
                      IN  IF b.data = <<>> THEN w0 ELSE cache_rrset(w0, b, q, hold, m)
    IN  FoldLeft(One, w, Leads(m))

(***************************************************************************)
(* cache_negative(): the marker of the first SOA, with its proof.            *)
(***************************************************************************)
NegTtl(soa) == elpis_clamp_ttl(IF soa.ttl < soa.minimum THEN soa.ttl ELSE soa.minimum)

Skipped(ttl, hold, tailored) == (ttl = 0 /\ ~hold) \/ tailored

\* The SOA in the first place, the proof and its signatures behind it.
Marker(m, soa, key, nx) ==
    LET b0 == [elpis_rrset_buf_init(key, NegTtl(soa)) EXCEPT !.kind = IF nx THEN "nx" ELSE "nodata"]
        Proof(b, r) == IF r.type \in {"NSEC", "RRSIG"} THEN elpis_rrset_buf_add(b, r.id) ELSE b
    IN  FoldLeft(Proof, elpis_rrset_buf_add(b0, soa.id), m)

\* The SOAs whose owner encloses the name asked for.
Soas(m) == {i \in 1..Len(m) : m[i].type = "SOA" /\ m[i].above}

cache_negative(w, m, q, nx, hold, tailored) ==
    IF Soas(m) = {} THEN w
    ELSE LET soa == m[CHOOSE i \in Soas(m) : \A j \in Soas(m) : i <= j]
         IN  IF Skipped(NegTtl(soa), hold, tailored) THEN w
             ELSE cache_rrset(w, Marker(m, soa, IF nx THEN "NXNAME" ELSE q, nx), q, hold, m)

(***************************************************************************)
(* Responses, lookups' time, and deletion (elpis_rcache_del(), eviction).    *)
(***************************************************************************)
Take(w, q, m, hold, tailored) ==
    /\ taken' = taken + 1
    /\ store' = w.store /\ held' = w.held
    /\ last' = [kind |-> "response", q |-> q, m |-> m, hold |-> hold, tailored |-> tailored]

\* A task takes a positive answer; `held' belongs to it and starts empty.
Positive(q, m, hold, tailored) ==
    /\ taken < RESPONSES
    /\ \E w \in {IF tailored THEN [store |-> store, held |-> None]
              ELSE cache_message_rrsets([store |-> store, held |-> None], m, q, hold)} :
          Take(w, q, m, hold, tailored)

Negative(q, m, nx, hold, tailored) ==
    /\ taken < RESPONSES
    /\ \E w \in {cache_negative([store |-> store, held |-> None], m, q, nx, hold, tailored)} :
          Take(w, q, m, hold, tailored)

Tick ==
    /\ \E k \in Keys : store[k] # None
    /\ store' = [k \in Keys |-> IF store[k] = None THEN None
                                ELSE IF store[k].age > store[k].ttl + SERVE_STALE THEN None
                                ELSE [store[k] EXCEPT !.age = @ + 1]]
    /\ held' = None /\ last' = None /\ taken' = taken

elpis_rcache_del(k) ==
    /\ store[k] # None
    /\ store' = [store EXCEPT ![k] = None] /\ held' = None /\ last' = None /\ taken' = taken

Next ==
    \/ Tick
    \/ \E k \in Keys : elpis_rcache_del(k)
    \/ \E q \in Types, hold, tailored \in BOOLEAN :
          \/ \E m \in Sections : Positive(q, m, hold, tailored)
          \/ \E m \in Negatives, nx \in BOOLEAN : Negative(q, m, nx, hold, tailored)

Spec == Init /\ [][Next]_vars

-----------------------------------------------------------------------------
Ids(m, P(_)) == LET hits == SelectSeq(m, P) IN [i \in 1..Len(hits) |-> hits[i].id]

\* An entry is one response's set, whole and unmixed: every record of its type
\* and every signature over it, in whatever order the section had them, cut
\* only where the buffer is full, and the data before the signatures.
WholeSets ==
    \A k \in Types : store[k].kind = "set" =>
       LET m == store[k].from
           data == Ids(m, LAMBDA r : r.type = k)
           sigs == Ids(m, LAMBDA r : r.type = "RRSIG" /\ r.covers = k)
       IN  /\ store[k].data = Prefix(data, MAX_RR)
           /\ store[k].sigs = Prefix(sigs, MAX_RR - Len(store[k].data))

\* A marker keeps what proves it: the SOA of the zone the name is in, then the
\* records of the denial, so that the validator reads a cached denial as it
\* would have read the response.
ProofKept ==
    \A k \in Keys : store[k].kind \in {"nx", "nodata"} =>
       LET m == store[k].from
       IN  /\ store[k].kind = "nx" <=> k = "NXNAME"
           /\ \E i \in Soas(m) : store[k].data =
                 Prefix(<<m[i].id>> \o Ids(m, LAMBDA r : r.type \in {"NSEC", "RRSIG"}), MAX_RR)

\* No entry is handed out as fresh for longer than any of its records allows,
\* after the configured limits: a set lives as long as its shortest TTL, a
\* denial as long as the SOA's TTL and minimum both let it.  (A TTL with its
\* top bit set counts only on the record that leads the set.)
NoLongerThanAny ==
    \A k \in Keys : store[k] # None /\ Left(k) > 0 =>
       \A i \in 1..Len(store[k].from) :
          LET r == store[k].from[i] IN
          /\ r.type = k /\ r.ttl < TOP => store[k].age + Left(k) <= elpis_clamp_ttl(r.ttl)
          /\ store[k].kind # "set" /\ Soas(store[k].from) = {i}
                => store[k].age + Left(k) <= elpis_clamp_ttl(r.ttl) /\ store[k].age + Left(k) <= elpis_clamp_ttl(r.minimum)

\* A validation that waited for the lookup finds its answer, cached or held
\* back for it, even if it came with TTL 0 and no cache keeps it (val_cached());
\* only a tailored answer is kept from it.
WaitedForIsFound ==
    last # None /\ last.hold /\ ~last.tailored
       /\ (\/ \E i \in 1..Len(last.m) : last.m[i].type = last.q
           \/ Soas(last.m) # {})
    => \/ held # None
       \/ \E k \in {last.q, "NXNAME"} : Found(k, SERVE_STALE)
=============================================================================
