------------------------------- MODULE Infra -------------------------------
(***************************************************************************)
(* The infrastructure cache's entry for ONE nameserver address             *)
(* (src/cache/infra.c) and the workers that share it.                      *)
(*                                                                         *)
(* Every update is the read-modify-write of infra_update(): the entry is   *)
(* copied out under the shard's shared lock, the lock is released, the     *)
(* copy is changed, and the whole record is inserted back under the        *)
(* exclusive lock.  A worker therefore has a Begin step and a Commit step, *)
(* and other workers run in between.  A missing entry reads as             *)
(* info_defaults(), so "no entry" is the state entry = Defaults.           *)
(*                                                                         *)
(* Abstractions: queries is only ever compared with zero (asked);          *)
(* edns_max and the cookie's bytes are left out; time is in seconds.       *)
(***************************************************************************)
EXTENDS Integers

CONSTANTS
    Workers,         \* the worker threads
    Classes,         \* ELPIS_QC_*: the classes of question a hold is kept for
    Flags,           \* ELPIS_INF_*, "LAME" among them
    EdnsStates,      \* ELPIS_EDNS_*, "UNKNOWN" among them
    Ops,             \* the operations a run exercises
    RTTs,            \* measured round trips, milliseconds
    RTT_INITIAL, RTT_MAX, RTT_BAN,
    INFRA_TTL,       \* how long everything but the DoT fields is believed
    TIMEOUTS_MAX,    \* where the timeout counter stops (1000)
    HOLD_AFTER, HOLD_SILENT_S,
    HoldS,           \* server-hold-down, 0 = off
    DOT_CLAIM_S, GIVE_UP_KEEP_S,
    FAILED_KEEP_S,   \* 86400
    RENEW_S,         \* 60: an answer renews DoT at most this often
    ECS_OFF_S,
    TRIES_MAX,       \* where the uint8_t dot_tries stops (255)
    DotTtl, DotRetry,
    MaxTry,          \* authoritative-dot-max-try, 0 = never give up
    CachePressure,   \* TRUE when CLOCK may evict the entry at any time
    MaxNow           \* bound: the last second a behaviour reaches

ASSUME InfraAssumption ==
    /\ RTT_INITIAL \in Nat /\ RTT_MAX \in Nat /\ RTT_INITIAL <= RTT_MAX
    /\ RTT_BAN \in Nat /\ 2 * RTT_MAX + 1000 * HOLD_AFTER < RTT_BAN
    /\ RTTs \subseteq Nat
    /\ INFRA_TTL \in Nat \ {0} /\ MaxNow \in Nat
    /\ HOLD_AFTER \in Nat \ {0} /\ TIMEOUTS_MAX \in Nat
    /\ HOLD_AFTER <= TIMEOUTS_MAX
    /\ HOLD_SILENT_S \in Nat /\ HoldS \in Nat
    /\ DOT_CLAIM_S \in Nat \ {0} /\ GIVE_UP_KEEP_S \in Nat
    /\ FAILED_KEEP_S \in Nat /\ RENEW_S \in Nat
    /\ ECS_OFF_S \in Nat
    /\ TRIES_MAX \in Nat \ {0} /\ MaxTry \in 0..TRIES_MAX
    /\ DotTtl \in Nat /\ DotRetry \in Nat
    /\ CachePressure \in BOOLEAN
    /\ "LAME" \in Flags /\ "UNKNOWN" \in EdnsStates

DotStates == {"UNKNOWN", "AVAILABLE", "FAILED", "UNAVAILABLE"}

OpNames == {"rtt_ok", "timeout", "hold", "edns", "flag", "ecs_off",
            "dot_claim", "dot_ok", "dot_fail"}

Info == [srtt : 0..RTT_MAX, rttvar : 0..RTT_MAX, timeouts : 0..TIMEOUTS_MAX,
         asked : BOOLEAN, edns : EdnsStates, flags : SUBSET Flags,
         silent_types : SUBSET Classes, silent_since : Nat, hold_until : Nat,
         last_used : Nat, ecs_off_until : Nat,
         dot_state : DotStates, dot_tries : 0..TRIES_MAX, dot_until : Nat,
         dot_claim : Nat, dot_keep : Nat]

Least(a, b) == IF a < b THEN a ELSE b
Greatest(a, b) == IF a < b THEN b ELSE a

-----------------------------------------------------------------------------
(* The record: defaults, ageing, and one operator per fn_*().               *)

Defaults ==
    [srtt |-> RTT_INITIAL, rttvar |-> RTT_INITIAL \div 2, timeouts |-> 0,
     asked |-> FALSE, edns |-> "UNKNOWN", flags |-> {},
     silent_types |-> {}, silent_since |-> 0, hold_until |-> 0,
     last_used |-> 0, ecs_off_until |-> 0,
     dot_state |-> "UNKNOWN", dot_tries |-> 0, dot_until |-> 0,
     dot_claim |-> 0, dot_keep |-> 0]

Freshen_KeepsNothing(i, t) ==
    IF i.last_used = 0 \/ t < i.last_used + INFRA_TTL THEN i
    ELSE [Defaults EXCEPT !.last_used = i.last_used]

Freshen(i, t) ==
    IF i.last_used = 0 \/ t < i.last_used + INFRA_TTL THEN i
    ELSE [Defaults EXCEPT !.dot_state = i.dot_state, !.dot_tries = i.dot_tries,
                          !.dot_until = i.dot_until, !.dot_keep = i.dot_keep,
                          !.last_used = i.last_used]

\* err >> 3 and >> 2 on a negative int32_t round down, as \div does.
RttSample(i, rtt) ==
    LET err == rtt - i.srtt
        abs == Greatest(err, -err)
        smooth == IF i.asked THEN i.srtt + (err \div 8) ELSE rtt
        var == IF i.asked THEN i.rttvar + ((abs - i.rttvar) \div 4)
               ELSE rtt \div 2
    IN  [i EXCEPT !.srtt = Least(smooth, RTT_MAX), !.rttvar = var,
                  !.timeouts = 0, !.silent_types = {}, !.silent_since = 0,
                  !.hold_until = 0, !.asked = TRUE]

FnRttOk(i, sample) == RttSample(i, Least(sample, RTT_MAX))

Missed(i, c, t) ==
    [i EXCEPT !.silent_since = IF i.timeouts = 0 \/ @ = 0
                               THEN Greatest(t, 1) ELSE @,
              !.timeouts = Least(@ + 1, TIMEOUTS_MAX),
              !.silent_types = @ \cup {c},
              !.srtt = Least(2 * @, RTT_MAX), !.asked = TRUE]

FnTimeout_EitherCondition(i, c, t, hold_s) ==
    LET m == Missed(i, c, t)
    IN  [m EXCEPT !.hold_until =
            IF /\ hold_s # 0
               /\ m.timeouts >= HOLD_AFTER \/ t >= m.silent_since + HOLD_SILENT_S
            THEN t + hold_s ELSE @]

FnTimeout(i, c, t, hold_s) ==
    LET m == Missed(i, c, t)
    IN  [m EXCEPT !.hold_until =
            IF /\ hold_s # 0 /\ m.timeouts >= HOLD_AFTER
               /\ t >= m.silent_since + HOLD_SILENT_S
            THEN t + hold_s ELSE @]

FnHold(i, until) == [i EXCEPT !.hold_until = IF @ # 0 THEN until ELSE @]

FnDotClaim(i, t) ==
    IF i.dot_claim # 0 /\ t < i.dot_claim THEN i
    ELSE [i EXCEPT !.dot_claim = t + DOT_CLAIM_S]

Available(i, t, tries, keep) ==
    [i EXCEPT !.dot_state = "AVAILABLE", !.dot_tries = tries,
              !.dot_until = t + DotTtl, !.dot_claim = 0, !.dot_keep = keep]

FnDotOk_StaleKeep(i, t) == Available(i, t, 0, i.dot_keep)

FnDotOk(i, t) == Available(i, t, 0, t + DotTtl)

\* The callers pass retry_s = MIN(adot_retry_s, adot_ttl_s).
DotRetryS == Least(DotRetry, DotTtl)

Failed(i, t, tries, givenUp) ==
    [i EXCEPT !.dot_tries = tries, !.dot_claim = 0,
              !.dot_state = IF givenUp THEN "UNAVAILABLE" ELSE "FAILED",
              !.dot_until = IF givenUp THEN 0 ELSE t + DotRetryS,
              !.dot_keep = IF givenUp THEN t + GIVE_UP_KEEP_S
                           ELSE t + DotRetryS + FAILED_KEEP_S]

FnDotFail_GivesUpLate(i, t) ==
    Failed(i, t, Least(i.dot_tries + 1, TRIES_MAX),
           MaxTry # 0 /\ i.dot_tries > MaxTry)

FnDotFail(i, t) ==
    LET tries == Least(i.dot_tries + 1, TRIES_MAX)
    IN  Failed(i, t, tries, MaxTry # 0 /\ tries > MaxTry)

-----------------------------------------------------------------------------
(* What the callers read out of it.                                         *)

Held(i, c, t) == i.hold_until # 0 /\ t < i.hold_until /\ c \in i.silent_types

ProbeDue(i, c, t) ==
    i.hold_until # 0 /\ t >= i.hold_until /\ c \in i.silent_types

Cost(i) ==
    IF "LAME" \in i.flags \/ i.timeouts >= HOLD_AFTER THEN RTT_BAN
    ELSE Least(i.srtt + i.rttvar + 1000 * i.timeouts, RTT_BAN)

DotMode(i, t) ==
    LET claimed == i.dot_claim # 0 /\ t < i.dot_claim
        test == IF claimed THEN "PLAIN" ELSE "TEST"
    IN  CASE i.dot_state = "AVAILABLE" -> IF t < i.dot_until THEN "USE" ELSE test
          [] i.dot_state = "FAILED" -> IF t < i.dot_until THEN "PLAIN" ELSE test
          [] i.dot_state = "UNAVAILABLE" -> "PLAIN"
          [] OTHER -> test

-----------------------------------------------------------------------------
VARIABLES
    entry,   \* the record in the cache; Defaults when there is none
    expiry,  \* hdr.expiry of that record, 0 when there is none
    now,     \* elpis_cached_now_s()
    wk,      \* per worker: where it is in out_start() or infra_update()
    dotq,    \* per worker: its DoT query to this server, and when it was sent
    fails    \* history: DoT failures recorded since the last DoT answer, or
             \* since an update that overwrote what it had not read

vars == <<entry, expiry, now, wk, dotq, fails>>

\* What a record says of DoT.
DotOf(i) == <<i.dot_state, i.dot_tries>>

\* read is history: what the entry said of DoT when it was copied.
Idle == [pc |-> "idle", op |-> "none", seen |-> Defaults, info |-> Defaults,
         at |-> 0, read |-> DotOf(Defaults)]
NoQuery == [kind |-> "none", at |-> 0]

TypeOK ==
    /\ entry \in Info /\ expiry \in Nat /\ now \in Nat
    /\ wk \in [Workers -> [pc : {"idle", "looked", "tested", "update"},
                           op : OpNames \cup {"none"},
                           seen : Info, info : Info, at : Nat,
                           read : DotStates \X (0..TRIES_MAX)]]
    /\ dotq \in [Workers -> [kind : {"none", "test", "use"}, at : Nat]]
    /\ fails \in 0..(TRIES_MAX + 1)

Init ==
    /\ entry = Defaults /\ expiry = 0 /\ now = 1
    /\ wk = [w \in Workers |-> Idle]
    /\ dotq = [w \in Workers |-> NoQuery]
    /\ fails = 0

Get(t) == Freshen(entry, t)

\* infra_update() up to the release of the shared lock.
Begin(w, op) ==
    wk' = [wk EXCEPT ![w] = [pc |-> "update", op |-> op, seen |-> @.seen,
                             info |-> Get(now), at |-> now,
                             read |-> DotOf(entry)]]

\* The entry says something else of DoT than it did when w copied it: what was
\* recorded in between is lost when w inserts its copy.
Loses(w) == wk[w].read # DotOf(entry)

\* The failures still on record when w inserts its copy.
OnRecord(w) == IF Loses(w) THEN 0 ELSE fails

\* The rest of infra_update(): the changed copy replaces the entry.
Commit(w, op, i, next) ==
    /\ wk[w].pc = "update" /\ wk[w].op = op
    /\ entry' = [i EXCEPT !.last_used = wk[w].at]
    /\ expiry' = LET plain == wk[w].at + INFRA_TTL
                 IN  IF i.dot_state # "UNKNOWN" THEN Greatest(plain, i.dot_keep)
                     ELSE plain
    /\ wk' = [wk EXCEPT ![w] =
                IF next = "idle" THEN Idle
                ELSE [Idle EXCEPT !.pc = next, !.seen = wk[w].seen]]
    /\ UNCHANGED now

\* out_start(): the snapshot that decides DoT and, further down, the probe.
OutStart(w) ==
    /\ wk[w].pc = "idle" /\ {"hold", "dot_claim"} \cap Ops # {}
    /\ wk' = [wk EXCEPT ![w].pc = "looked", ![w].seen = Get(now)]
    /\ UNCHANGED <<entry, expiry, now, dotq, fails>>

\* Mode USE: the query goes over DoT.
UseDot(w) ==
    /\ wk[w].pc = "looked" /\ DotMode(wk[w].seen, now) = "USE"
    /\ dotq[w].kind = "none"
    /\ dotq' = [dotq EXCEPT ![w] = [kind |-> "use", at |-> now]]
    /\ wk' = [wk EXCEPT ![w].pc = "tested"]
    /\ UNCHANGED <<entry, expiry, now, fails>>

\* dot_test(): mode TEST and no connection of this worker's there yet.
DotTest(w) ==
    /\ wk[w].pc = "looked" /\ "dot_claim" \in Ops
    /\ DotMode(wk[w].seen, now) = "TEST" /\ dotq[w].kind = "none"
    /\ Begin(w, "dot_claim")
    /\ UNCHANGED <<entry, expiry, now, dotq, fails>>

\* The query that finds the hold run out is the probe and takes the next hold.
TakeProbe(w) ==
    /\ wk[w].pc \in {"looked", "tested"} /\ "hold" \in Ops /\ HoldS # 0
    /\ \E c \in Classes : ProbeDue(wk[w].seen, c, now)
    /\ Begin(w, "hold")
    /\ UNCHANGED <<entry, expiry, now, dotq, fails>>

OutStarted(w) ==
    /\ wk[w].pc \in {"looked", "tested"}
    /\ wk' = [wk EXCEPT ![w] = Idle]
    /\ UNCHANGED <<entry, expiry, now, dotq, fails>>

\* An answer, a timeout or what an answer taught: handle_message(),
\* out_timeout(), elpis_resolver_on_response() and the root probe.
Observe(w) ==
    /\ wk[w].pc = "idle"
    /\ \E op \in Ops \cap {"rtt_ok", "timeout", "edns", "flag", "ecs_off"} :
         Begin(w, op)
    /\ UNCHANGED <<entry, expiry, now, dotq, fails>>

\* elpis_out_dot_message(): an answer renews DoT, at most once a RENEW_S.
DotAnswer(w) ==
    /\ wk[w].pc = "idle" /\ dotq[w].kind # "none"
    /\ dotq' = [dotq EXCEPT ![w] = NoQuery]
    /\ IF \/ Get(now).dot_state # "AVAILABLE"
          \/ Get(now).dot_until < now + DotTtl - RENEW_S
       THEN Begin(w, "dot_ok")
       ELSE UNCHANGED wk
    /\ UNCHANGED <<entry, expiry, now, fails>>

\* conn_fail() without an answer, a test's timer, or a safety query answered.
DotFailed(w) ==
    /\ wk[w].pc = "idle" /\ dotq[w].kind # "none"
    /\ dotq' = [dotq EXCEPT ![w] = NoQuery]
    /\ Begin(w, "dot_fail")
    /\ UNCHANGED <<entry, expiry, now, fails>>

\* conn_fail() of a connection that had answered, or a send that did not go.
DotLost(w) ==
    /\ wk[w].pc = "idle" /\ dotq[w].kind # "none"
    /\ dotq' = [dotq EXCEPT ![w] = NoQuery]
    /\ UNCHANGED <<entry, expiry, now, wk, fails>>

RttOk(w) ==
    /\ \E sample \in RTTs :
         Commit(w, "rtt_ok", FnRttOk(wk[w].info, sample), "idle")
    /\ fails' = OnRecord(w) /\ UNCHANGED dotq

\* hold_for(): no hold when nothing else has answered since the query went.
Timeout(w) ==
    /\ \E c \in Classes, hold_s \in {0, HoldS} :
         Commit(w, "timeout", FnTimeout(wk[w].info, c, wk[w].at, hold_s), "idle")
    /\ fails' = OnRecord(w) /\ UNCHANGED dotq

Hold(w) ==
    /\ Commit(w, "hold", FnHold(wk[w].info, wk[w].at + HoldS), "idle")
    /\ fails' = OnRecord(w) /\ UNCHANGED dotq

SetEdns(w) ==
    /\ \E e \in EdnsStates :
         Commit(w, "edns", [wk[w].info EXCEPT !.edns = e], "idle")
    /\ fails' = OnRecord(w) /\ UNCHANGED dotq

SetFlag(w) ==
    /\ \E f \in Flags, on \in BOOLEAN :
         Commit(w, "flag", [wk[w].info EXCEPT
                   !.flags = IF on THEN @ \cup {f} ELSE @ \ {f}], "idle")
    /\ fails' = OnRecord(w) /\ UNCHANGED dotq

EcsOff(w) ==
    /\ Commit(w, "ecs_off",
              [wk[w].info EXCEPT !.ecs_off_until = wk[w].at + ECS_OFF_S], "idle")
    /\ fails' = OnRecord(w) /\ UNCHANGED dotq

\* A claim that was free is ours, and the DoT copy of the query is sent.
DotClaim(w) ==
    LET i == FnDotClaim(wk[w].info, wk[w].at)
    IN  /\ Commit(w, "dot_claim", i, "tested")
        /\ dotq' = IF i = wk[w].info THEN dotq
                   ELSE [dotq EXCEPT ![w] = [kind |-> "test", at |-> wk[w].at]]
        /\ fails' = OnRecord(w)

DotOk(w) ==
    /\ Commit(w, "dot_ok", FnDotOk(wk[w].info, wk[w].at), "idle")
    /\ fails' = 0
    /\ UNCHANGED dotq

DotFail(w) ==
    /\ Commit(w, "dot_fail", FnDotFail(wk[w].info, wk[w].at), "idle")
    /\ fails' = Least(OnRecord(w) + 1, TRIES_MAX + 1)
    /\ UNCHANGED dotq

\* elpis_cache_expire(), or CLOCK under memory pressure, drops the entry.
Forget ==
    /\ expiry # 0 /\ (now >= expiry \/ CachePressure)
    /\ entry' = Defaults /\ expiry' = 0 /\ fails' = 0
    /\ UNCHANGED <<now, wk, dotq>>

Tick ==
    /\ now < MaxNow
    /\ now' = now + 1
    /\ UNCHANGED <<entry, expiry, wk, dotq, fails>>

Update(w) ==
    \/ RttOk(w) \/ Timeout(w) \/ Hold(w) \/ SetEdns(w) \/ SetFlag(w)
    \/ EcsOff(w) \/ DotClaim(w) \/ DotOk(w) \/ DotFail(w)

Next ==
    \/ \E w \in Workers :
         \/ OutStart(w) \/ UseDot(w) \/ DotTest(w) \/ TakeProbe(w)
         \/ OutStarted(w) \/ Observe(w) \/ DotAnswer(w) \/ DotFailed(w)
         \/ DotLost(w) \/ Update(w)
    \/ Forget
    \/ Tick

Spec == Init /\ [][Next]_vars

-----------------------------------------------------------------------------
(* Properties.  A copy being updated is as good as the entry: it is about   *)
(* to become it.                                                            *)

Records == {entry} \cup {wk[w].info : w \in {v \in Workers : wk[v].pc = "update"}}

\* docs/troubleshooting.md, "A server silent for 10 seconds and three queries
\* ... is held": whatever updates were lost on the way, a record with a hold
\* set has HOLD_AFTER timeouts in a row behind it, a class of question to be
\* held for, and a silence that has lasted HOLD_SILENT_S; and the hold ends
\* within server-hold-down of now, so a probe is never far away.
HeldFairly(i, t) ==
    i.hold_until # 0 =>
        /\ i.timeouts >= HOLD_AFTER /\ i.silent_types # {}
        /\ i.silent_since # 0 /\ t >= i.silent_since + HOLD_SILENT_S
        /\ i.hold_until <= t + HoldS

HoldEarned == \A i \in Records : HeldFairly(i, now)

\* A server is ranked as banned exactly when it is lame or has timed out as
\* often as a hold needs: the penalties of elpis_infra_cost() never add up to
\* the ban, and a banned server never ranks among the usable ones.
BanIsEarned ==
    Cost(entry) = RTT_BAN <=>
        ("LAME" \in entry.flags \/ entry.timeouts >= HOLD_AFTER)

\* No server is held or ranked out that has not earned it.
Earned == HoldEarned /\ BanIsEarned

\* infra.h, "dot_tries counts failed tests since DoT last worked": the state
\* and the count always agree, across lost updates and across the hour.
Counted(i) ==
    /\ i.dot_state \in {"UNKNOWN", "AVAILABLE"} <=> i.dot_tries = 0
    /\ i.dot_state = "UNAVAILABLE" => MaxTry # 0 /\ i.dot_tries > MaxTry
    /\ i.dot_state = "FAILED" /\ MaxTry # 0 => i.dot_tries <= MaxTry

DotCounted == \A i \in Records : Counted(i)

\* infra.c, "a server that failed DoT has to stay failed between its hourly
\* tests, and one that gave up has to stay given up": an entry does not expire
\* before the DoT state in it has had its time.
DotRemembered ==
    entry.dot_state # "UNKNOWN" =>
        /\ expiry >= entry.dot_keep
        /\ entry.dot_state = "FAILED" => expiry >= entry.dot_until + FAILED_KEEP_S
        /\ entry.dot_state = "AVAILABLE" => expiry >= entry.dot_until

\* What is known of DoT agrees with itself and is kept for as long as it counts.
DotKept == DotCounted /\ DotRemembered

\* docs/configuration.md, "failed authoritative-dot-max-try retries: plain,
\* for good": once the first test and max-try retries have been recorded as
\* failed, with no DoT answer between them and no update that overwrote one of
\* them unread, the server is given up, whatever the workers do at the same time.
GivesUp == MaxTry # 0 /\ fails > MaxTry => entry.dot_state = "UNAVAILABLE"

\* A server leaves UNAVAILABLE, while its entry is kept, only by a DoT answer or
\* by an update of a worker that had copied the entry while it was not given up.
StaysGivenUp ==
    entry.dot_state = "UNAVAILABLE" /\ expiry' # 0
        => \/ entry'.dot_state = "UNAVAILABLE"
           \/ \E w \in Workers :
                 /\ wk[w].pc = "update" /\ wk'[w].pc # "update"
                 /\ wk[w].op = "dot_ok" \/ wk[w].read[1] # "UNAVAILABLE"

\* infra.c, "one that gave up has to stay given up": no step of any worker takes
\* a server back, except for the lost update StaysGivenUp names.
GaveUpStays == [][StaysGivenUp]_vars

\* outbound.c, "One test per server at a time, across the workers (the
\* claim)": no two workers test the server within one claim's time.
OneTest ==
    \A v, w \in Workers :
        v # w /\ dotq[v].kind = "test" /\ dotq[w].kind = "test"
            => dotq[v].at + DOT_CLAIM_S <= dotq[w].at
               \/ dotq[w].at + DOT_CLAIM_S <= dotq[v].at

=============================================================================
