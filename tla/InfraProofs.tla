---------------------------- MODULE InfraProofs ----------------------------
(***************************************************************************)
(* Proofs about the infrastructure cache's entry, for any number of        *)
(* workers, any bound on time and any of the constants the configuration   *)
(* allows.                                                                 *)
(*                                                                         *)
(* The invariants speak of the entry and of the copies being updated.      *)
(* They are inductive once they are stated of EVERY worker's copy, with    *)
(* the time it was taken not in the future: a Commit makes a copy, changed *)
(* by one fn_*(), the entry, so it is enough that each fn_*() takes a      *)
(* sound record to a sound record, however old the copy.                   *)
(*                                                                         *)
(* What max-try promises rests on a second inductive fact, Counts(entry):  *)
(* the entry has counted every failure still on record.  Two workers that  *)
(* read the same count and both write it back lose a failure; fails is the *)
(* history that forgets what such an update overwrites.                    *)
(***************************************************************************)
EXTENDS Infra, TLAPS

\* What is known of DoT is to be kept for at least as long as it counts.
Kept(i) ==
    /\ i.dot_state = "FAILED" => i.dot_keep >= i.dot_until + FAILED_KEEP_S
    /\ i.dot_state = "AVAILABLE" => i.dot_keep >= i.dot_until

\* What is true of every record, wherever it is, at time t.
Sound(i, t) == i \in Info /\ HeldFairly(i, t) /\ Counted(i) /\ Kept(i)

\* Ageing a copy leaves what it says of DoT as it was read.
Copied(j) == j.read = DotOf(j.info)

IInv ==
    /\ TypeOK
    /\ Sound(entry, now)
    /\ entry.dot_state # "UNKNOWN" => expiry >= entry.dot_keep
    /\ \A w \in Workers : /\ Sound(wk[w].info, now) /\ wk[w].at <= now
                          /\ Copied(wk[w])

-----------------------------------------------------------------------------
(* The record operators.                                                    *)

\* Setting one field of a record to a value of its type: the longer updates
\* below are chains of these.
LEMMA SetField ==
    ASSUME NEW i \in Info
    PROVE  /\ \A v \in 0..RTT_MAX : [i EXCEPT !.srtt = v] \in Info
           /\ \A v \in 0..RTT_MAX : [i EXCEPT !.rttvar = v] \in Info
           /\ \A v \in 0..TIMEOUTS_MAX : [i EXCEPT !.timeouts = v] \in Info
           /\ [i EXCEPT !.asked = TRUE] \in Info
           /\ \A v \in EdnsStates : [i EXCEPT !.edns = v] \in Info
           /\ \A v \in SUBSET Flags : [i EXCEPT !.flags = v] \in Info
           /\ \A v \in Nat : [i EXCEPT !.ecs_off_until = v] \in Info
           /\ \A v \in SUBSET Classes : [i EXCEPT !.silent_types = v] \in Info
           /\ \A v \in Nat : [i EXCEPT !.silent_since = v] \in Info
           /\ \A v \in Nat : [i EXCEPT !.hold_until = v] \in Info
           /\ \A v \in Nat : [i EXCEPT !.last_used = v] \in Info
           /\ \A v \in DotStates : [i EXCEPT !.dot_state = v] \in Info
           /\ \A v \in 0..TRIES_MAX : [i EXCEPT !.dot_tries = v] \in Info
           /\ \A v \in Nat : [i EXCEPT !.dot_until = v] \in Info
           /\ \A v \in Nat : [i EXCEPT !.dot_claim = v] \in Info
           /\ \A v \in Nat : [i EXCEPT !.dot_keep = v] \in Info
BY DEF Info

\* info_defaults() is a sound record: nothing held, nothing counted.
LEMMA DefaultsSound == ASSUME NEW t \in Nat PROVE Sound(Defaults, t)
BY InfraAssumption DEF Sound, Info, HeldFairly, Counted, Kept, Defaults, DotStates

\* Time only makes a hold better earned.
LEMMA SoundLater ==
    ASSUME NEW i, NEW t \in Nat, NEW u \in Nat, t <= u, Sound(i, t)
    PROVE  Sound(i, u)
BY InfraAssumption DEF Sound, HeldFairly, Info

\* freshen() keeps a record sound: what it drops it drops together.
LEMMA FreshenSound ==
    ASSUME NEW i, NEW t \in Nat, Sound(i, t)
    PROVE  Sound(Freshen(i, t), t)
<1>1. CASE i.last_used = 0 \/ t < i.last_used + INFRA_TTL
  BY <1>1 DEF Freshen
<1>2. CASE ~(i.last_used = 0 \/ t < i.last_used + INFRA_TTL)
  <2> DEFINE r1 == [Defaults EXCEPT !.dot_state = i.dot_state]
             r2 == [r1 EXCEPT !.dot_tries = i.dot_tries]
             r3 == [r2 EXCEPT !.dot_until = i.dot_until]
             r4 == [r3 EXCEPT !.dot_keep = i.dot_keep]
             r5 == [r4 EXCEPT !.last_used = i.last_used]
  <2> HIDE DEF r1, r2, r3, r4, r5
  <2>1. /\ i.dot_state \in DotStates /\ i.dot_tries \in 0..TRIES_MAX
        /\ i.dot_until \in Nat /\ i.dot_keep \in Nat /\ i.last_used \in Nat
    BY DEF Sound, Info
  <2>2. Defaults \in Info
    BY DefaultsSound DEF Sound
  <2>3. r1 \in Info BY <2>1, <2>2, SetField DEF r1
  <2>4. r2 \in Info BY <2>1, <2>3, SetField DEF r2
  <2>5. r3 \in Info BY <2>1, <2>4, SetField DEF r3
  <2>6. r4 \in Info BY <2>1, <2>5, SetField DEF r4
  <2>7. r5 \in Info BY <2>1, <2>6, SetField DEF r5
  <2>8. /\ r5.hold_until = 0 /\ r5.dot_state = i.dot_state
        /\ r5.dot_tries = i.dot_tries /\ r5.dot_until = i.dot_until
        /\ r5.dot_keep = i.dot_keep
    BY DEF Defaults, r1, r2, r3, r4, r5
  <2>9. Freshen(i, t) = r5
    BY <1>2 DEF Freshen, r1, r2, r3, r4, r5
  <2> QED BY <2>7, <2>8, <2>9 DEF Sound, HeldFairly, Counted, Kept
<1> QED BY <1>1, <1>2

\* fn_rtt_ok(): the Jacobson/Karels update stays within 0..RTT_MAX for every
\* sample, so the int32_t arithmetic neither overflows nor wraps.
LEMMA RttOkSound ==
    ASSUME NEW i, NEW t \in Nat, NEW s \in RTTs, Sound(i, t)
    PROVE  Sound(FnRttOk(i, s), t)
<1> DEFINE rtt == Least(s, RTT_MAX)
           err == rtt - i.srtt
           abs == Greatest(err, -err)
           smooth == IF i.asked THEN i.srtt + (err \div 8) ELSE rtt
           var == IF i.asked THEN i.rttvar + ((abs - i.rttvar) \div 4)
                  ELSE rtt \div 2
<1>1. rtt \in 0..RTT_MAX
  BY InfraAssumption DEF Least
<1>2. i.srtt \in 0..RTT_MAX /\ i.rttvar \in 0..RTT_MAX
  BY DEF Sound, Info
<1>3. abs \in 0..RTT_MAX
  BY <1>1, <1>2, InfraAssumption DEF Greatest
<1>4. smooth \in 0..RTT_MAX
  BY <1>1, <1>2, InfraAssumption
<1>5. var \in 0..RTT_MAX
  BY <1>1, <1>2, <1>3, InfraAssumption
<1>6. FnRttOk(i, s) = [i EXCEPT !.srtt = Least(smooth, RTT_MAX), !.rttvar = var,
          !.timeouts = 0, !.silent_types = {}, !.silent_since = 0,
          !.hold_until = 0, !.asked = TRUE]
  BY DEF FnRttOk, RttSample
<1>7. Least(smooth, RTT_MAX) \in 0..RTT_MAX
  BY <1>4, InfraAssumption DEF Least
<1> HIDE DEF smooth, var
<1> DEFINE r1 == [i EXCEPT !.srtt = Least(smooth, RTT_MAX)]
           r2 == [r1 EXCEPT !.rttvar = var]
           r3 == [r2 EXCEPT !.timeouts = 0]
           r4 == [r3 EXCEPT !.silent_types = {}]
           r5 == [r4 EXCEPT !.silent_since = 0]
           r6 == [r5 EXCEPT !.hold_until = 0]
           r7 == [r6 EXCEPT !.asked = TRUE]
<1> HIDE DEF r1, r2, r3, r4, r5, r6, r7
<1>8. 0 \in 0..TIMEOUTS_MAX
  BY InfraAssumption
<1>9. r3 \in Info
  <2>1. r1 \in Info BY <1>7, SetField DEF r1, Sound
  <2>2. r2 \in Info BY <1>5, <2>1, SetField DEF r2
  <2> QED BY <1>8, <2>2, SetField DEF r3
<1>10. r5 \in Info
  <2>1. r4 \in Info BY <1>9, SetField DEF r4
  <2> QED BY <2>1, SetField DEF r5
<1>11. r7 \in Info
  <2>1. r6 \in Info BY <1>10, SetField DEF r6
  <2> QED BY <2>1, SetField DEF r7
<1>12. /\ r7.hold_until = 0 /\ r7.dot_state = i.dot_state
       /\ r7.dot_tries = i.dot_tries /\ r7.dot_until = i.dot_until
       /\ r7.dot_keep = i.dot_keep
  BY DEF Sound, Info, r1, r2, r3, r4, r5, r6, r7
<1>13. FnRttOk(i, s) = r7
  BY <1>6 DEF r1, r2, r3, r4, r5, r6, r7
<1> QED BY <1>11, <1>12, <1>13 DEF Sound, HeldFairly, Counted, Kept

\* fn_timeout(): a hold it sets is earned, and one that stands stays earned.
LEMMA TimeoutSound ==
    ASSUME NEW i, NEW t \in Nat, NEW u \in Nat, NEW c \in Classes,
           NEW h \in {0, HoldS}, t <= u, Sound(i, u)
    PROVE  Sound(FnTimeout(i, c, t, h), u)
<1> DEFINE m == Missed(i, c, t)
<1>1. m \in Info
  <2> DEFINE since == IF i.timeouts = 0 \/ i.silent_since = 0
                      THEN Greatest(t, 1) ELSE i.silent_since
             r1 == [i EXCEPT !.silent_since = since]
             r2 == [r1 EXCEPT !.timeouts = Least(@ + 1, TIMEOUTS_MAX)]
             r3 == [r2 EXCEPT !.silent_types = @ \cup {c}]
             r4 == [r3 EXCEPT !.srtt = Least(2 * @, RTT_MAX)]
  <2>1. since \in Nat
    BY DEF Sound, Info, Greatest
  <2> HIDE DEF since, r1, r2, r3, r4
  <2>2. r1 \in Info
    BY <2>1, SetField DEF Sound, r1
  <2>3. Least(r1.timeouts + 1, TIMEOUTS_MAX) \in 0..TIMEOUTS_MAX
    BY <2>2, InfraAssumption DEF Info, Least
  <2>4. r2 \in Info
    BY <2>2, <2>3, SetField DEF r2
  <2>5. r2.silent_types \cup {c} \in SUBSET Classes
    BY <2>4 DEF Info
  <2>6. r3 \in Info
    BY <2>4, <2>5, SetField DEF r3
  <2>7. Least(2 * r3.srtt, RTT_MAX) \in 0..RTT_MAX
    BY <2>6, InfraAssumption DEF Info, Least
  <2>8. r4 \in Info
    BY <2>6, <2>7, SetField DEF r4
  <2>9. m = [r4 EXCEPT !.asked = TRUE]
    BY DEF Missed, since, r1, r2, r3, r4
  <2> QED BY <2>8, <2>9, SetField
<1>2. Counted(m) /\ Kept(m)
  BY DEF Sound, Counted, Kept, Missed, Info
<1>3. /\ m.silent_types # {} /\ m.silent_since # 0
      /\ m.hold_until = i.hold_until
  BY InfraAssumption DEF Sound, Info, Missed, Greatest
<1>4. HeldFairly(m, u)
  BY <1>3, InfraAssumption DEF Sound, Info, Missed, HeldFairly, Least
<1> HIDE DEF m
<1>5. FnTimeout(i, c, t, h) = [m EXCEPT !.hold_until =
          IF /\ h # 0 /\ m.timeouts >= HOLD_AFTER
             /\ t >= m.silent_since + HOLD_SILENT_S
          THEN t + h ELSE @]
  BY DEF FnTimeout, m
<1> QED BY <1>1, <1>2, <1>3, <1>4, <1>5, InfraAssumption
        DEF Sound, Info, HeldFairly, Counted, Kept

\* fn_hold(): moves a hold on, never makes one.
LEMMA HoldSound ==
    ASSUME NEW i, NEW t \in Nat, NEW u \in Nat, t <= u, Sound(i, u)
    PROVE  Sound(FnHold(i, t + HoldS), u)
BY InfraAssumption DEF Sound, Info, HeldFairly, Counted, Kept, FnHold

\* fn_dot_claim(): touches the claim and nothing a hold or a count rests on.
LEMMA DotClaimSound ==
    ASSUME NEW i, NEW t \in Nat, NEW u \in Nat, Sound(i, u)
    PROVE  Sound(FnDotClaim(i, t), u)
BY InfraAssumption DEF Sound, Info, HeldFairly, Counted, Kept, FnDotClaim

\* fn_dot_ok(): available, with the count of failures at zero.
LEMMA DotOkSound ==
    ASSUME NEW i, NEW t \in Nat, NEW u \in Nat, Sound(i, u)
    PROVE  Sound(FnDotOk(i, t), u)
<1> DEFINE r1 == [i EXCEPT !.dot_state = "AVAILABLE"]
           r2 == [r1 EXCEPT !.dot_tries = 0]
           r3 == [r2 EXCEPT !.dot_until = t + DotTtl]
           r4 == [r3 EXCEPT !.dot_claim = 0]
           r5 == [r4 EXCEPT !.dot_keep = t + DotTtl]
<1> HIDE DEF r1, r2, r3, r4, r5
<1>1. /\ "AVAILABLE" \in DotStates /\ 0 \in 0..TRIES_MAX
      /\ t + DotTtl \in Nat
  BY InfraAssumption DEF DotStates
<1>2. r1 \in Info BY <1>1, SetField DEF r1, Sound
<1>3. r2 \in Info BY <1>1, <1>2, SetField DEF r2
<1>4. r3 \in Info BY <1>1, <1>3, SetField DEF r3
<1>5. r4 \in Info BY <1>4, SetField DEF r4
<1>6. r5 \in Info BY <1>1, <1>5, SetField DEF r5
<1>7. /\ r5.hold_until = i.hold_until /\ r5.timeouts = i.timeouts
      /\ r5.silent_types = i.silent_types /\ r5.silent_since = i.silent_since
      /\ r5.dot_state = "AVAILABLE" /\ r5.dot_tries = 0
      /\ r5.dot_until = t + DotTtl /\ r5.dot_keep = t + DotTtl
  BY DEF Sound, Info, r1, r2, r3, r4, r5
<1>8. FnDotOk(i, t) = r5
  BY DEF FnDotOk, Available, r1, r2, r3, r4, r5
<1> QED BY <1>1, <1>6, <1>7, <1>8 DEF Sound, HeldFairly, Counted, Kept

\* fn_dot_fail(): one more failure counted, and given up exactly past MaxTry.
LEMMA DotFailSound ==
    ASSUME NEW i, NEW t \in Nat, NEW u \in Nat, Sound(i, u)
    PROVE  Sound(FnDotFail(i, t), u)
<1> DEFINE tries == Least(i.dot_tries + 1, TRIES_MAX)
<1>1. tries \in 1..TRIES_MAX
  BY InfraAssumption DEF Sound, Info, Least
<1>2. DotRetryS \in Nat
  BY InfraAssumption DEF DotRetryS, Least
<1> DEFINE givenUp == MaxTry # 0 /\ tries > MaxTry
           state == IF givenUp THEN "UNAVAILABLE" ELSE "FAILED"
           until == IF givenUp THEN 0 ELSE t + DotRetryS
           keep == IF givenUp THEN t + GIVE_UP_KEEP_S
                   ELSE t + DotRetryS + FAILED_KEEP_S
           r1 == [i EXCEPT !.dot_tries = tries]
           r2 == [r1 EXCEPT !.dot_claim = 0]
           r3 == [r2 EXCEPT !.dot_state = state]
           r4 == [r3 EXCEPT !.dot_until = until]
           r5 == [r4 EXCEPT !.dot_keep = keep]
<1>3. FnDotFail(i, t) = r5
  BY DEF FnDotFail, Failed
<1> HIDE DEF tries, state, until, keep, r1, r2, r3, r4, r5
<1>4. state \in DotStates /\ until \in Nat /\ keep \in Nat
  BY <1>2, InfraAssumption DEF DotStates, state, until, keep
<1>5. r1 \in Info
  <2>1. tries \in 0..TRIES_MAX BY <1>1
  <2> QED BY <2>1, SetField DEF r1, Sound
<1>6. r2 \in Info BY <1>5, SetField DEF r2
<1>7. r3 \in Info BY <1>4, <1>6, SetField DEF r3
<1>8. r4 \in Info BY <1>4, <1>7, SetField DEF r4
<1>9. r5 \in Info BY <1>4, <1>8, SetField DEF r5
<1>10. /\ r5.hold_until = i.hold_until /\ r5.timeouts = i.timeouts
       /\ r5.silent_types = i.silent_types /\ r5.silent_since = i.silent_since
       /\ r5.dot_state = state /\ r5.dot_tries = tries
       /\ r5.dot_until = until /\ r5.dot_keep = keep
  BY DEF Sound, Info, r1, r2, r3, r4, r5
<1>11. Counted(r5)
  BY <1>1, <1>10, InfraAssumption DEF Counted, state
<1>12. Kept(r5)
  BY <1>2, <1>4, <1>10, InfraAssumption DEF Kept, state, until, keep
<1> QED BY <1>3, <1>9, <1>10, <1>11, <1>12 DEF Sound, HeldFairly

-----------------------------------------------------------------------------
(* The steps.                                                               *)

Job == [pc : {"idle", "looked", "tested", "update"},
        op : OpNames \cup {"none"}, seen : Info, info : Info, at : Nat,
        read : DotStates \X (0..TRIES_MAX)]
DotQ == [kind : {"none", "test", "use"}, at : Nat]

\* What every step leaves typed, whatever else it does.
Typed == /\ dotq \in [Workers -> DotQ] /\ fails \in 0..(TRIES_MAX + 1)

\* elpis_infra_get() and the read half of infra_update() give a sound copy.
LEMMA GetSound == ASSUME IInv PROVE Sound(Get(now), now)
BY FreshenSound DEF IInv, TypeOK, Get

\* An idle worker's job is typed and its copy is the defaults.
LEMMA IdleSound ==
    ASSUME NEW t \in Nat
    PROVE  Idle \in Job /\ Sound(Idle.info, t) /\ Idle.at <= t /\ Copied(Idle)
<1>1. Sound(Defaults, t) BY DefaultsSound
<1>2. Defaults \in Info /\ DotOf(Defaults) \in DotStates \X (0..TRIES_MAX)
  BY <1>1 DEF Sound, Info, DotOf
<1> QED BY <1>1, <1>2 DEF Idle, Job, Copied

\* One worker's job changing to a sound one, the entry and the time standing.
LEMMA JobKeeps ==
    ASSUME IInv, NEW w \in Workers, NEW j \in Job,
           Sound(j.info, now), j.at <= now, Copied(j), wk' = [wk EXCEPT ![w] = j],
           UNCHANGED <<entry, expiry, now>>, Typed'
    PROVE  IInv'
<1>1. wk' \in [Workers -> Job]
  BY DEF IInv, TypeOK, Job
<1>2. \A v \in Workers : wk'[v] = IF v = w THEN j ELSE wk[v]
  BY DEF IInv, TypeOK
<1>3. \A v \in Workers : /\ Sound(wk'[v].info, now) /\ wk'[v].at <= now
                        /\ Copied(wk'[v])
  BY <1>2 DEF IInv
<1>4. TypeOK'
  BY <1>1 DEF IInv, TypeOK, Typed, Job, DotQ
<1>5. Sound(entry', now')
  BY DEF IInv
<1> QED BY <1>3, <1>4, <1>5 DEF IInv

\* The read half of an update.
LEMMA BeginKeeps ==
    ASSUME IInv, NEW w \in Workers, NEW op \in OpNames, Begin(w, op),
           UNCHANGED <<entry, expiry, now>>, Typed'
    PROVE  IInv'
<1> DEFINE j == [pc |-> "update", op |-> op, seen |-> wk[w].seen,
                 info |-> Get(now), at |-> now, read |-> DotOf(entry)]
<1>1. /\ Sound(Get(now), now) /\ Get(now) \in Info
      /\ DotOf(entry) = DotOf(Get(now)) /\ DotOf(entry) \in DotStates \X (0..TRIES_MAX)
  BY GetSound DEF Sound, IInv, Info, Get, Freshen, Defaults, DotOf
<1>2. j \in Job
  BY <1>1 DEF IInv, TypeOK, Job
<1>3. wk' = [wk EXCEPT ![w] = j]
  BY DEF Begin, IInv, TypeOK
<1>4. Sound(j.info, now) /\ j.at <= now /\ Copied(j)
  BY <1>1 DEF IInv, TypeOK, Copied
<1> HIDE DEF j
<1> QED BY <1>2, <1>3, <1>4, JobKeeps

\* The write half, of any update that takes its copy to a sound record.
LEMMA CommitKeeps ==
    ASSUME IInv, NEW w \in Workers, NEW op, NEW i, NEW next \in {"idle", "tested"},
           Commit(w, op, i, next), Sound(i, now), Typed'
    PROVE  IInv'
<1> DEFINE j == IF next = "idle" THEN Idle
                ELSE [Idle EXCEPT !.pc = next, !.seen = wk[w].seen]
<1>0. now \in Nat /\ wk[w] \in Job /\ i \in Info /\ now' = now
  BY DEF IInv, TypeOK, Job, Sound, Commit
<1>1. j \in Job /\ Sound(j.info, now) /\ j.at <= now /\ Copied(j)
  <2>1. Idle \in Job /\ Sound(Idle.info, now) /\ Idle.at <= now /\ Copied(Idle)
    BY <1>0, IdleSound
  <2> QED BY <1>0, <2>1 DEF Job, Copied
<1>2. wk' = [wk EXCEPT ![w] = j]
  BY DEF Commit
<1> HIDE DEF j
<1>3. wk' \in [Workers -> Job]
  BY <1>1, <1>2 DEF IInv, TypeOK, Job
<1>4. \A v \in Workers : /\ Sound(wk'[v].info, now) /\ wk'[v].at <= now
                        /\ Copied(wk'[v])
  <2>1. \A v \in Workers : wk'[v] = IF v = w THEN j ELSE wk[v]
    BY <1>2 DEF IInv, TypeOK
  <2> QED BY <1>1, <2>1 DEF IInv
<1>5. entry' = [i EXCEPT !.last_used = wk[w].at] /\ wk[w].at \in Nat
  BY <1>0 DEF Commit, Job
<1>6. entry' \in Info
  BY <1>0, <1>5, SetField
<1>7. Sound(entry', now')
  BY <1>0, <1>5, <1>6 DEF Sound, HeldFairly, Counted, Kept, Info
<1>8. expiry' \in Nat
  <2>1. i.dot_keep \in Nat /\ wk[w].at + INFRA_TTL \in Nat
    BY <1>0, <1>5, InfraAssumption DEF Info
  <2> QED BY <2>1 DEF Commit, Greatest
<1>9. TypeOK'
  BY <1>0, <1>3, <1>6, <1>8 DEF TypeOK, Typed, Job, DotQ
<1>10. entry'.dot_state # "UNKNOWN" => expiry' >= entry'.dot_keep
  <2>1. i.dot_keep \in Nat /\ wk[w].at + INFRA_TTL \in Nat
    BY <1>0, <1>5, InfraAssumption DEF Info
  <2>2. entry'.dot_state = i.dot_state /\ entry'.dot_keep = i.dot_keep
    BY <1>0, <1>5 DEF Info
  <2> QED BY <2>1, <2>2 DEF Commit, Greatest
<1> QED BY <1>0, <1>4, <1>7, <1>9, <1>10 DEF IInv

\* Every step of every worker, an eviction and a tick keep IInv.
LEMMA StepKeeps == IInv /\ [Next]_vars => IInv'
<1> SUFFICES ASSUME IInv, [Next]_vars PROVE IInv'
  OBVIOUS
<1>1. /\ now \in Nat /\ Typed
      /\ \A w \in Workers : /\ wk[w] \in Job /\ Sound(wk[w].info, now)
                            /\ wk[w].at \in Nat /\ wk[w].at <= now
                            /\ Copied(wk[w])
  BY DEF IInv, TypeOK, Typed, Job, DotQ
<1>2. ASSUME UNCHANGED <<dotq, fails>> PROVE Typed'
  BY <1>1, <1>2 DEF Typed
<1>0. ASSUME NEW w \in Workers
      PROVE  /\ OnRecord(w) \in 0..(TRIES_MAX + 1)
             /\ Least(OnRecord(w) + 1, TRIES_MAX + 1) \in 0..(TRIES_MAX + 1)
  BY <1>1, InfraAssumption DEF OnRecord, Typed, Least
<1>16. ASSUME NEW w \in Workers, fails' = OnRecord(w), UNCHANGED dotq PROVE Typed'
  BY <1>0, <1>1, <1>16 DEF Typed
<1>3. ASSUME NEW w \in Workers, OutStart(w) PROVE IInv'
  <2> DEFINE j == [wk[w] EXCEPT !.pc = "looked", !.seen = Get(now)]
  <2>1. Get(now) \in Info BY GetSound DEF Sound
  <2>2. j \in Job /\ j.info = wk[w].info /\ j.at = wk[w].at /\ Copied(j)
    BY <1>1, <2>1 DEF Job, Copied
  <2>3. wk' = [wk EXCEPT ![w] = j]
    BY <1>3 DEF OutStart, IInv, TypeOK
  <2> HIDE DEF j
  <2> QED BY <1>1, <1>2, <1>3, <2>2, <2>3, JobKeeps DEF OutStart
<1>4. ASSUME NEW w \in Workers, UseDot(w) PROVE IInv'
  <2> DEFINE j == [wk[w] EXCEPT !.pc = "tested"]
  <2>1. j \in Job /\ j.info = wk[w].info /\ j.at = wk[w].at /\ Copied(j)
    BY <1>1 DEF Job, Copied
  <2>2. wk' = [wk EXCEPT ![w] = j]
    BY <1>4 DEF UseDot, IInv, TypeOK
  <2>3. Typed'
    BY <1>1, <1>4 DEF UseDot, Typed, DotQ
  <2> HIDE DEF j
  <2> QED BY <1>1, <1>4, <2>1, <2>2, <2>3, JobKeeps DEF UseDot
<1>5. ASSUME NEW w \in Workers, DotTest(w) \/ TakeProbe(w) \/ Observe(w)
      PROVE  IInv'
  <2>1. UNCHANGED <<entry, expiry, now, dotq, fails>>
    BY <1>5 DEF DotTest, TakeProbe, Observe
  <2>2. \E op \in OpNames : Begin(w, op)
    BY <1>5 DEF DotTest, TakeProbe, Observe, OpNames
  <2> QED BY <1>2, <2>1, <2>2, BeginKeeps
<1>6. ASSUME NEW w \in Workers, OutStarted(w) PROVE IInv'
  <2>1. Idle \in Job /\ Sound(Idle.info, now) /\ Idle.at <= now /\ Copied(Idle)
    BY <1>1, IdleSound
  <2> QED BY <1>2, <1>6, <2>1, JobKeeps DEF OutStarted
<1>7. ASSUME NEW w \in Workers, DotAnswer(w) \/ DotFailed(w) \/ DotLost(w)
      PROVE  IInv'
  <2>1. /\ UNCHANGED <<entry, expiry, now, fails>>
        /\ dotq' = [dotq EXCEPT ![w] = NoQuery]
        /\ wk' = wk \/ \E op \in OpNames : Begin(w, op)
    BY <1>7 DEF DotAnswer, DotFailed, DotLost, OpNames
  <2>2. Typed'
    BY <1>1, <2>1 DEF Typed, DotQ, NoQuery
  <2>3. CASE wk' = wk
    BY <2>1, <2>2, <2>3 DEF IInv, TypeOK, Typed, DotQ
  <2>4. CASE \E op \in OpNames : Begin(w, op)
    BY <2>1, <2>2, <2>4, BeginKeeps
  <2> QED BY <2>1, <2>3, <2>4
<1>8. ASSUME NEW w \in Workers, RttOk(w) \/ Timeout(w) \/ Hold(w) PROVE IInv'
  <2>1. Typed' BY <1>16, <1>8 DEF RttOk, Timeout, Hold
  <2>2. CASE RttOk(w)
    <3>1. PICK s \in RTTs : Commit(w, "rtt_ok", FnRttOk(wk[w].info, s), "idle")
      BY <2>2 DEF RttOk
    <3>2. Sound(FnRttOk(wk[w].info, s), now)
      BY <1>1, RttOkSound
    <3> QED BY <2>1, <3>1, <3>2, CommitKeeps
  <2>3. CASE Timeout(w)
    <3>1. PICK c \in Classes, h \in {0, HoldS} :
             Commit(w, "timeout", FnTimeout(wk[w].info, c, wk[w].at, h), "idle")
      BY <2>3 DEF Timeout
    <3>2. Sound(FnTimeout(wk[w].info, c, wk[w].at, h), now)
      BY <1>1, TimeoutSound
    <3> QED BY <2>1, <3>1, <3>2, CommitKeeps
  <2>4. CASE Hold(w)
    <3>1. Sound(FnHold(wk[w].info, wk[w].at + HoldS), now)
      BY <1>1, HoldSound
    <3> QED BY <2>1, <2>4, <3>1, CommitKeeps DEF Hold
  <2> QED BY <1>8, <2>2, <2>3, <2>4
<1>9. ASSUME NEW w \in Workers, SetEdns(w) \/ SetFlag(w) \/ EcsOff(w)
      PROVE  IInv'
  <2>1. Typed' BY <1>16, <1>9 DEF SetEdns, SetFlag, EcsOff
  <2>2. wk[w].info \in Info BY <1>1 DEF Sound
  <2>3. ASSUME NEW i \in Info, i.hold_until = wk[w].info.hold_until,
               i.timeouts = wk[w].info.timeouts,
               i.silent_types = wk[w].info.silent_types,
               i.silent_since = wk[w].info.silent_since,
               i.dot_state = wk[w].info.dot_state,
               i.dot_tries = wk[w].info.dot_tries,
               i.dot_until = wk[w].info.dot_until,
               i.dot_keep = wk[w].info.dot_keep
        PROVE  Sound(i, now)
    BY <1>1, <2>3 DEF Sound, HeldFairly, Counted, Kept
  <2>4. CASE SetEdns(w)
    <3>1. PICK e \in EdnsStates :
             Commit(w, "edns", [wk[w].info EXCEPT !.edns = e], "idle")
      BY <2>4 DEF SetEdns
    <3>2. Sound([wk[w].info EXCEPT !.edns = e], now)
      <4>1. [wk[w].info EXCEPT !.edns = e] \in Info BY <2>2, SetField
      <4> QED BY <2>2, <2>3, <4>1 DEF Info
    <3> QED BY <2>1, <3>1, <3>2, CommitKeeps
  <2>5. CASE SetFlag(w)
    <3>1. PICK f \in Flags, on \in BOOLEAN :
             Commit(w, "flag", [wk[w].info EXCEPT
                   !.flags = IF on THEN @ \cup {f} ELSE @ \ {f}], "idle")
      BY <2>5 DEF SetFlag
    <3> DEFINE i == [wk[w].info EXCEPT
                       !.flags = IF on THEN @ \cup {f} ELSE @ \ {f}]
    <3>2. Sound(i, now)
      <4>1. (IF on THEN wk[w].info.flags \cup {f} ELSE wk[w].info.flags \ {f})
              \in SUBSET Flags
        BY <2>2 DEF Info
      <4>2. i \in Info BY <2>2, <4>1, SetField
      <4> QED BY <2>2, <2>3, <4>2 DEF Info
    <3> QED BY <2>1, <3>1, <3>2, CommitKeeps
  <2>6. CASE EcsOff(w)
    <3>1. Sound([wk[w].info EXCEPT !.ecs_off_until = wk[w].at + ECS_OFF_S], now)
      <4>1. wk[w].at + ECS_OFF_S \in Nat BY <1>1, InfraAssumption
      <4>2. [wk[w].info EXCEPT !.ecs_off_until = wk[w].at + ECS_OFF_S] \in Info
        BY <2>2, <4>1, SetField
      <4> QED BY <2>2, <2>3, <4>2 DEF Info
    <3> QED BY <2>1, <2>6, <3>1, CommitKeeps DEF EcsOff
  <2> QED BY <1>9, <2>4, <2>5, <2>6
<1>10. ASSUME NEW w \in Workers, DotClaim(w) PROVE IInv'
  <2>1. Sound(FnDotClaim(wk[w].info, wk[w].at), now)
    BY <1>1, DotClaimSound
  <2>2. Typed'
    BY <1>0, <1>1, <1>10 DEF DotClaim, Typed, DotQ
  <2> QED BY <1>10, <2>1, <2>2, CommitKeeps DEF DotClaim
<1>11. ASSUME NEW w \in Workers, DotOk(w) PROVE IInv'
  <2>1. Sound(FnDotOk(wk[w].info, wk[w].at), now)
    BY <1>1, DotOkSound
  <2>2. Typed'
    BY <1>1, <1>11, InfraAssumption DEF DotOk, Typed
  <2> QED BY <1>11, <2>1, <2>2, CommitKeeps DEF DotOk
<1>12. ASSUME NEW w \in Workers, DotFail(w) PROVE IInv'
  <2>1. Sound(FnDotFail(wk[w].info, wk[w].at), now)
    BY <1>1, DotFailSound
  <2>2. Typed'
    BY <1>0, <1>1, <1>12 DEF DotFail, Typed
  <2> QED BY <1>12, <2>1, <2>2, CommitKeeps DEF DotFail
<1>13. ASSUME Forget PROVE IInv'
  <2>1. /\ Sound(Defaults, now) /\ Defaults \in Info
        /\ Defaults.dot_state = "UNKNOWN"
    BY <1>1, DefaultsSound DEF Sound, Defaults
  <2> QED BY <1>13, <2>1, InfraAssumption DEF Forget, IInv, TypeOK
<1>14. ASSUME Tick PROVE IInv'
  <2>1. now' \in Nat /\ now <= now' /\ UNCHANGED <<entry, expiry, wk, dotq, fails>>
    BY <1>1, <1>14 DEF Tick
  <2>2. Sound(entry', now')
    BY <1>1, <2>1, SoundLater DEF IInv
  <2>3. \A w \in Workers : /\ Sound(wk'[w].info, now') /\ wk'[w].at <= now'
                            /\ Copied(wk'[w])
    BY <1>1, <2>1, SoundLater
  <2>4. TypeOK'
    BY <2>1 DEF IInv, TypeOK
  <2> QED BY <2>1, <2>2, <2>3, <2>4 DEF IInv
<1>15. CASE UNCHANGED vars
  BY <1>15 DEF vars, IInv, TypeOK, Sound, HeldFairly, Counted, Kept
<1> QED BY <1>3, <1>4, <1>5, <1>6, <1>7, <1>8, <1>9, <1>10, <1>11, <1>12,
           <1>13, <1>14, <1>15 DEF Next, Update

\* IInv holds in every state of the system.
LEMMA Invariance == Spec => []IInv
<1>1. Init => IInv
  <2> SUFFICES ASSUME Init PROVE IInv
    OBVIOUS
  <2>1. /\ Sound(Defaults, 1) /\ Defaults \in Info
        /\ Defaults.dot_state = "UNKNOWN"
    BY DefaultsSound DEF Sound, Defaults
  <2>2. Idle \in Job /\ Sound(Idle.info, 1) /\ Idle.at <= 1 /\ Copied(Idle)
    BY IdleSound
  <2> QED BY <2>1, <2>2, InfraAssumption DEF Init, IInv, TypeOK, Job, NoQuery
<1> QED BY <1>1, StepKeeps, PTL DEF Spec

-----------------------------------------------------------------------------
(* The theorems.                                                            *)

\* Every field of the entry and of every worker's copy stays in the range its
\* C type and the clamps of infra.c give it: no smoothed round trip, variance
\* or counter ever wraps, whatever the workers measure.
THEOREM TypeCorrect == Spec => []TypeOK
<1>1. IInv => TypeOK BY DEF IInv
<1> QED BY <1>1, Invariance, PTL

\* A server is held down only after HOLD_AFTER timeouts in a row and
\* HOLD_SILENT_S of silence, and never for longer than server-hold-down from
\* now, although the workers' read-modify-writes overwrite one another.
THEOREM HoldsAreEarned == Spec => []HoldEarned
<1>1. IInv => HoldEarned BY DEF IInv, HoldEarned, Records, Sound
<1> QED BY <1>1, Invariance, PTL

\* The DoT state and the count of failed tests agree in every record, although
\* the workers' read-modify-writes overwrite one another.
THEOREM DotIsCounted == Spec => []DotCounted
<1>1. IInv => DotCounted BY DEF IInv, DotCounted, Records, Sound
<1> QED BY <1>1, Invariance, PTL

\* elpis_infra_cost() reaches the ban for a banned server and for no other.
THEOREM BansAreEarned == Spec => []BanIsEarned
<1>1. IInv => BanIsEarned
  BY InfraAssumption DEF IInv, TypeOK, Info, BanIsEarned, Cost, Least
<1> QED BY <1>1, Invariance, PTL

\* A server is held, or ranked out, only when it has earned it.
THEOREM EarnedAlways == Spec => []Earned
<1>1. HoldEarned /\ BanIsEarned => Earned BY DEF Earned
<1> QED BY <1>1, HoldsAreEarned, BansAreEarned, PTL

\* What is known of DoT agrees with itself, and the entry does not expire before
\* its time: infra_update() extends the expiry by dot_keep of the very record it
\* inserts.
THEOREM DotIsKept == Spec => []DotKept
<1>1. IInv => DotRemembered
  <2> SUFFICES ASSUME IInv, entry.dot_state # "UNKNOWN"
               PROVE  /\ expiry >= entry.dot_keep
                      /\ entry.dot_state = "FAILED" =>
                            expiry >= entry.dot_until + FAILED_KEEP_S
                      /\ entry.dot_state = "AVAILABLE" => expiry >= entry.dot_until
    BY DEF DotRemembered
  <2>1. /\ entry \in Info /\ Kept(entry) /\ expiry \in Nat
        /\ expiry >= entry.dot_keep
    BY DEF IInv, TypeOK, Sound
  <2> QED BY <2>1, InfraAssumption DEF Kept, Info
<1>2. DotCounted /\ DotRemembered => DotKept BY DEF DotKept
<1> QED BY <1>1, <1>2, DotIsCounted, Invariance, PTL

-----------------------------------------------------------------------------
(* Giving up, with the updates that overwrite what they have not read taken  *)
(* into account: Counts(entry) is inductive beside IInv.                     *)

\* The DoT half of a record, which most updates leave alone.
SameDot(i, j) == j.dot_state = i.dot_state /\ j.dot_tries = i.dot_tries

\* A record has counted every failure still on record, as far as it can count.
Counts(i) == Least(fails, TRIES_MAX) <= i.dot_tries

\* Everything but the outcome of a DoT query leaves the DoT state as it is.
LEMMA DotUntouched ==
    ASSUME NEW i \in Info, NEW t, NEW u, NEW v
    PROVE  /\ SameDot(i, Freshen(i, t)) /\ SameDot(i, FnRttOk(i, v))
           /\ SameDot(i, FnTimeout(i, u, t, v)) /\ SameDot(i, FnHold(i, u))
           /\ SameDot(i, FnDotClaim(i, t)) /\ SameDot(i, [i EXCEPT !.edns = u])
           /\ SameDot(i, [i EXCEPT !.flags = u])
           /\ SameDot(i, [i EXCEPT !.ecs_off_until = u])
           /\ SameDot(i, [i EXCEPT !.last_used = u])
<1>1. SameDot(i, Freshen(i, t))
  BY DEF SameDot, Info, Freshen, Defaults
<1>2. SameDot(i, FnRttOk(i, v))
  BY DEF SameDot, Info, FnRttOk, RttSample
<1>3. SameDot(i, FnTimeout(i, u, t, v))
  BY DEF SameDot, Info, FnTimeout, Missed
<1>4. SameDot(i, FnHold(i, u)) /\ SameDot(i, FnDotClaim(i, t))
  BY DEF SameDot, Info, FnHold, FnDotClaim
<1>5. /\ SameDot(i, [i EXCEPT !.edns = u]) /\ SameDot(i, [i EXCEPT !.flags = u])
      /\ SameDot(i, [i EXCEPT !.ecs_off_until = u])
      /\ SameDot(i, [i EXCEPT !.last_used = u])
  BY DEF SameDot, Info
<1> QED BY <1>1, <1>2, <1>3, <1>4, <1>5

\* The write half: the new entry has counted what is still on record, and stays
\* given up when its copy was.
LEMMA CommitCounts ==
    ASSUME IInv, NEW w \in Workers, NEW op, NEW i \in Info,
           NEW next \in {"idle", "tested"},
           Commit(w, op, i, next), Least(fails', TRIES_MAX) <= i.dot_tries,
           \/ op = "dot_ok"
           \/ wk[w].info.dot_state = "UNAVAILABLE" => i.dot_state = "UNAVAILABLE"
    PROVE  Counts(entry)' /\ StaysGivenUp
<1>1. /\ entry' = [i EXCEPT !.last_used = wk[w].at]
      /\ wk[w].pc = "update" /\ wk[w].op = op
  BY DEF Commit
<1>2. SameDot(i, entry')
  BY <1>1, DotUntouched
<1>3. wk'[w].pc = next
  BY DEF Commit, Idle, IInv, TypeOK
<1>4. Counts(entry)'
  BY <1>2 DEF Counts, SameDot
<1>5. wk[w].read[1] = wk[w].info.dot_state
  BY DEF IInv, Copied, DotOf
<1> QED BY <1>1, <1>2, <1>3, <1>4, <1>5 DEF SameDot, StaysGivenUp

\* What is still on record when w inserts its copy, the copy has counted.
LEMMA CopyCounts ==
    ASSUME IInv, Counts(entry), NEW w \in Workers
    PROVE  /\ OnRecord(w) \in 0..(TRIES_MAX + 1)
           /\ Least(OnRecord(w), TRIES_MAX) <= wk[w].info.dot_tries
<1>1. /\ fails \in 0..(TRIES_MAX + 1) /\ TRIES_MAX \in Nat \ {0}
      /\ wk[w].info.dot_tries \in Nat
  BY InfraAssumption DEF IInv, TypeOK, Sound, Info
<1>2. CASE Loses(w)
  BY <1>1, <1>2 DEF OnRecord, Least
<1>3. CASE ~Loses(w)
  <2>1. wk[w].info.dot_tries = entry.dot_tries
    BY <1>3 DEF Loses, IInv, Copied, DotOf
  <2> QED BY <1>1, <1>3, <2>1 DEF OnRecord, Counts
<1> QED BY <1>2, <1>3

\* Every step keeps count, and leaves a server given up that was.
LEMMA CountStep ==
    ASSUME IInv, Counts(entry), [Next]_vars
    PROVE  Counts(entry)' /\ StaysGivenUp
<1>1. /\ fails \in 0..(TRIES_MAX + 1) /\ TRIES_MAX \in Nat \ {0}
      /\ \A w \in Workers : wk[w] \in Job /\ Sound(wk[w].info, now)
  BY InfraAssumption DEF IInv, TypeOK, Job
<1>2. ASSUME UNCHANGED <<entry, fails>> PROVE Counts(entry)' /\ StaysGivenUp
  BY <1>2 DEF Counts, StaysGivenUp
<1>3. ASSUME NEW w \in Workers,
             \/ OutStart(w) \/ UseDot(w) \/ OutStarted(w) \/ DotLost(w)
             \/ DotTest(w) \/ TakeProbe(w) \/ Observe(w) \/ DotAnswer(w)
             \/ DotFailed(w)
      PROVE  Counts(entry)' /\ StaysGivenUp
  BY <1>2, <1>3 DEF OutStart, UseDot, OutStarted, DotLost, DotTest, TakeProbe,
                    Observe, DotAnswer, DotFailed
<1>5. ASSUME NEW w \in Workers, NEW op, NEW i \in Info,
             NEW next \in {"idle", "tested"}, Commit(w, op, i, next),
             SameDot(wk[w].info, i), fails' = OnRecord(w)
      PROVE  Counts(entry)' /\ StaysGivenUp
  <2>1. Least(fails', TRIES_MAX) <= i.dot_tries
    BY <1>5, CopyCounts DEF SameDot
  <2> QED BY <1>5, <2>1, CommitCounts DEF SameDot
<1>6. ASSUME NEW w \in Workers, \/ RttOk(w) \/ Timeout(w) \/ Hold(w) \/ SetEdns(w)
                                \/ SetFlag(w) \/ EcsOff(w) \/ DotClaim(w)
      PROVE  Counts(entry)' /\ StaysGivenUp
  <2>1. wk[w].info \in Info /\ Sound(wk[w].info, now) /\ now \in Nat /\ wk[w].at \in Nat
        /\ wk[w].at <= now /\ fails' = OnRecord(w)
    BY <1>1, <1>6 DEF Sound, IInv, TypeOK, Job, RttOk, Timeout, Hold, SetEdns,
                      SetFlag, EcsOff, DotClaim
  <2>2. CASE RttOk(w)
    <3>1. PICK s \in RTTs : Commit(w, "rtt_ok", FnRttOk(wk[w].info, s), "idle")
      BY <2>2 DEF RttOk
    <3>2. FnRttOk(wk[w].info, s) \in Info
      BY <2>1, RttOkSound DEF Sound
    <3> QED BY <1>5, <2>1, <3>1, <3>2, DotUntouched
  <2>3. CASE Timeout(w)
    <3>1. PICK c \in Classes, h \in {0, HoldS} :
            Commit(w, "timeout", FnTimeout(wk[w].info, c, wk[w].at, h), "idle")
      BY <2>3 DEF Timeout
    <3>2. FnTimeout(wk[w].info, c, wk[w].at, h) \in Info
      BY <2>1, TimeoutSound DEF Sound
    <3> QED BY <1>5, <2>1, <3>1, <3>2, DotUntouched
  <2>4. CASE Hold(w)
    <3>1. Commit(w, "hold", FnHold(wk[w].info, wk[w].at + HoldS), "idle")
      BY <2>4 DEF Hold
    <3>2. FnHold(wk[w].info, wk[w].at + HoldS) \in Info
      BY <2>1, HoldSound, InfraAssumption DEF Sound
    <3> QED BY <1>5, <2>1, <3>1, <3>2, DotUntouched
  <2>5. CASE SetEdns(w)
    <3>1. PICK e \in EdnsStates :
            Commit(w, "edns", [wk[w].info EXCEPT !.edns = e], "idle")
      BY <2>5 DEF SetEdns
    <3>2. [wk[w].info EXCEPT !.edns = e] \in Info
      BY <2>1, SetField
    <3> QED BY <1>5, <2>1, <3>1, <3>2, DotUntouched
  <2>6. CASE SetFlag(w)
    <3>1. PICK f \in Flags, on \in BOOLEAN :
            Commit(w, "flag", [wk[w].info EXCEPT
                 !.flags = IF on THEN @ \cup {f} ELSE @ \ {f}], "idle")
      BY <2>6 DEF SetFlag
    <3> DEFINE fs == IF on THEN wk[w].info.flags \cup {f} ELSE wk[w].info.flags \ {f}
    <3>2. fs \in SUBSET Flags
      BY <2>1 DEF Info
    <3>3. Commit(w, "flag", [wk[w].info EXCEPT !.flags = fs], "idle")
      BY <3>1
    <3> HIDE DEF fs
    <3>4. [wk[w].info EXCEPT !.flags = fs] \in Info
      BY <2>1, <3>2, SetField
    <3> QED BY <1>5, <2>1, <3>3, <3>4, DotUntouched
  <2>7. CASE EcsOff(w)
    <3>1. Commit(w, "ecs_off",
                 [wk[w].info EXCEPT !.ecs_off_until = wk[w].at + ECS_OFF_S], "idle")
      BY <2>7 DEF EcsOff
    <3>2. wk[w].at + ECS_OFF_S \in Nat
      BY <2>1, InfraAssumption
    <3>3. [wk[w].info EXCEPT !.ecs_off_until = wk[w].at + ECS_OFF_S] \in Info
      BY <2>1, <3>2, SetField
    <3> QED BY <1>5, <2>1, <3>1, <3>3, DotUntouched
  <2>8. CASE DotClaim(w)
    <3>1. Commit(w, "dot_claim", FnDotClaim(wk[w].info, wk[w].at), "tested")
      BY <2>8 DEF DotClaim
    <3>2. FnDotClaim(wk[w].info, wk[w].at) \in Info
      BY <2>1, DotClaimSound DEF Sound
    <3> QED BY <1>5, <2>1, <3>1, <3>2, DotUntouched
  <2> QED BY <1>6, <2>2, <2>3, <2>4, <2>5, <2>6, <2>7, <2>8
<1>7. ASSUME NEW w \in Workers, DotOk(w) PROVE Counts(entry)' /\ StaysGivenUp
  <2> DEFINE i == FnDotOk(wk[w].info, wk[w].at)
  <2>1. Commit(w, "dot_ok", i, "idle") /\ fails' = 0
    BY <1>7 DEF DotOk
  <2>2. Sound(i, now)
    BY <1>1, DotOkSound DEF IInv, TypeOK, Job
  <2>3. i.dot_tries = 0
    BY <1>1 DEF FnDotOk, Available, Sound, Info
  <2> HIDE DEF i
  <2>4. Least(fails', TRIES_MAX) = 0
    BY <1>1, <2>1 DEF Least
  <2> QED BY <2>1, <2>2, <2>3, <2>4, CommitCounts DEF Sound
<1>8. ASSUME NEW w \in Workers, DotFail(w) PROVE Counts(entry)' /\ StaysGivenUp
  <2> DEFINE m == wk[w].info
             i == FnDotFail(m, wk[w].at)
             tries == Least(m.dot_tries + 1, TRIES_MAX)
             kept == OnRecord(w)
  <2>1. /\ Commit(w, "dot_fail", i, "idle") /\ fails' = Least(kept + 1, TRIES_MAX + 1)
        /\ wk[w].pc = "update"
    BY <1>8 DEF DotFail, Commit
  <2>2. Sound(i, now) /\ Sound(m, now)
    BY <1>1, DotFailSound DEF IInv, TypeOK, Job
  <2>3. /\ i.dot_tries = tries
        /\ i.dot_state = IF MaxTry # 0 /\ tries > MaxTry THEN "UNAVAILABLE" ELSE "FAILED"
    BY <2>2 DEF FnDotFail, Failed, Sound, Info
  <2>4. /\ m.dot_tries \in 0..TRIES_MAX /\ Counted(m)
        /\ kept \in 0..(TRIES_MAX + 1) /\ Least(kept, TRIES_MAX) <= m.dot_tries
    BY <2>2, CopyCounts DEF Sound, Info
  <2> HIDE DEF i, m, kept
  <2>5. Least(fails', TRIES_MAX) <= i.dot_tries
    BY <1>1, <2>1, <2>3, <2>4 DEF Least
  <2>6. m.dot_state = "UNAVAILABLE" => i.dot_state = "UNAVAILABLE"
    BY <1>1, <2>3, <2>4, InfraAssumption DEF Counted, Least
  <2> QED BY <2>1, <2>2, <2>5, <2>6, CommitCounts DEF Sound, m
<1>9. ASSUME Forget PROVE Counts(entry)' /\ StaysGivenUp
  <2>1. entry' = Defaults /\ fails' = 0 /\ expiry' = 0 /\ Defaults.dot_tries = 0
    BY <1>9 DEF Forget, Defaults
  <2>2. Least(0, TRIES_MAX) = 0
    BY <1>1 DEF Least
  <2> QED BY <2>1, <2>2 DEF Counts, StaysGivenUp
<1>10. CASE Tick \/ UNCHANGED vars
  BY <1>2, <1>10 DEF Tick, vars
<1> QED BY <1>3, <1>6, <1>7, <1>8, <1>9, <1>10 DEF Next, Update

\* It holds from the start.
LEMMA CountsAlways == Spec => []Counts(entry)
<1>1. Init => Counts(entry)
  BY InfraAssumption DEF Init, Counts, Least, Defaults
<1>2. IInv /\ Counts(entry) /\ [Next]_vars => Counts(entry)'
  BY CountStep
<1> QED BY <1>1, <1>2, Invariance, PTL DEF Spec

\* A server whose first test and max-try retries are all on record as failed is
\* given up, however many workers read and write its entry at the same time:
\* unless max-try is the most the byte can count, where the counter stops short
\* of it.
THEOREM GivesUpAlways == ASSUME MaxTry < TRIES_MAX PROVE Spec => []GivesUp
<1>1. IInv /\ Counts(entry) => GivesUp
  <2> SUFFICES ASSUME IInv, Counts(entry), MaxTry # 0, fails > MaxTry
               PROVE  entry.dot_state = "UNAVAILABLE"
    BY DEF GivesUp
  <2>1. /\ entry.dot_tries \in 0..TRIES_MAX /\ Counted(entry)
        /\ entry.dot_state \in DotStates /\ fails \in 0..(TRIES_MAX + 1)
    BY DEF IInv, TypeOK, Sound, Info
  <2> QED BY <2>1, InfraAssumption DEF Counted, Counts, Least, DotStates
<1> QED BY <1>1, Invariance, CountsAlways, PTL

\* For as long as its entry is kept, a server that was given up is taken back
\* only by a DoT answer or by an update whose copy was made while it was not
\* given up, however many workers there are.
THEOREM GaveUpStaysAlways == Spec => GaveUpStays
<1>1. IInv /\ Counts(entry) /\ [Next]_vars => [StaysGivenUp]_vars
  BY CountStep
<1> QED BY <1>1, Invariance, CountsAlways, PTL DEF Spec, GaveUpStays

=============================================================================
