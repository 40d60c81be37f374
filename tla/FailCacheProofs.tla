-------------------------- MODULE FailCacheProofs --------------------------
(***************************************************************************)
(* The failure table's slot, for any number of workers and any questions:  *)
(* there is one writer at a time, and, on a build that shows the odd       *)
(* sequence number before the stores that follow it, a reader that finds   *)
(* the sequence number unchanged has a key and a time that belong          *)
(* together.                                                               *)
(*                                                                         *)
(* The argument: sequence numbers only grow, and only a writer changes the *)
(* slot.  So a reader whose number is still the slot's has seen no writer  *)
(* since it loaded it, and what it loaded is what the slot holds           *)
(* (SnapInv).  With no writer, the slot's time is one of its key's         *)
(* failures (SlotInv); and an answer noted since its last failure has      *)
(* taken the key out, or will before the note is over (ClearInv).          *)
(***************************************************************************)
EXTENDS FailCache, TLAPS

Job == [op : {"none", "fail", "answer"},
        pc : {"idle"} \cup NotePcs \cup ReadPcs, k : Keys \cup {NoKey},
        seq : Nat, at : Nat, key : Keys \cup {NoKey}, until : Nat,
        clean : BOOLEAN]

Slot == [seq : Nat, hold : 0..MAX_MS,
         key : Keys \cup {NoKey}, until : Nat, last : Nat]

\* A worker in a note or a read has a question; what it has loaded is not
\* from the future.
JobInv ==
    \A w \in Workers :
        /\ job[w].pc # "idle" => job[w].k \in Keys
        /\ job[w].seq <= slot.seq /\ job[w].at <= now

Writing(j) == j.pc \in {"key", "until", "release"}

\* A writer has the odd number to itself.
WriterInv ==
    /\ \A w \in Workers : Writing(job[w]) =>
         /\ ~Odd(job[w].seq) /\ slot.seq = job[w].seq + 1
    /\ \A v, w \in Workers : Writing(job[v]) /\ Writing(job[w]) => v = w
    /\ Odd(slot.seq) => \E w \in Workers : Writing(job[w])

BaseInv == TypeOK /\ JobInv /\ WriterInv /\ HoldBounded

-----------------------------------------------------------------------------
\* Parity of the sequence number.
LEMMA Parity == \A n \in Nat : (Odd(n) <=> ~Odd(n + 1)) /\ (Odd(n) <=> Odd(n + 2))
BY DEF Odd

\* TypeOK, with the records named.
LEMMA Types ==
    TypeOK <=> /\ slot \in Slot /\ now \in 0..MaxNow
               /\ job \in [Workers -> Job]
               /\ until \in [Keys -> Nat] /\ clear \in [Keys -> BOOLEAN]
BY DEF TypeOK, Slot, Job

\* A load of seq is a number no larger than seq.
LEMMA LoadsBound ==
    ASSUME BaseInv, NEW s \in Loads PROVE s \in Nat /\ s <= slot.seq
<1>1. slot.seq \in Nat
  BY Types DEF BaseInv, Slot
<1> QED BY <1>1 DEF Loads, Odd

\* The hold a failure gets is at most FAIL_MAX_MS.
LEMMA HoldTyped ==
    ASSUME BaseInv, NEW w \in Workers PROVE HoldMs(w) \in 0..MAX_MS
BY Types, FailCacheAssumption DEF BaseInv, HoldMs, Least, Slot

\* One worker's job changing while the slot stands: everything but what the
\* new job says of itself is kept.
LEMMA JobStep ==
    ASSUME BaseInv, NEW w \in Workers, NEW j \in Job,
           job' = [job EXCEPT ![w] = j],
           j.pc # "idle" => j.k \in Keys,
           j.seq <= slot.seq, j.at <= now, ~Writing(j), ~Writing(job[w]),
           UNCHANGED <<slot, now, until>>, clear' \in [Keys -> BOOLEAN]
    PROVE  BaseInv'
<1>1. \A v \in Workers : job'[v] = IF v = w THEN j ELSE job[v]
  BY Types DEF BaseInv
<1>2. job' \in [Workers -> Job]
  BY Types DEF BaseInv
<1>3. TypeOK'
  BY <1>2, Types DEF BaseInv, TypeOK, Job
<1>4. JobInv'
  BY <1>1 DEF BaseInv, JobInv
<1>5. WriterInv'
  BY <1>1 DEF BaseInv, WriterInv
<1>6. HoldBounded'
  BY DEF BaseInv, HoldBounded
<1> QED BY <1>3, <1>4, <1>5, <1>6 DEF BaseInv

\* An idle job satisfies all of it.
LEMMA IdleJob == Idle \in Job /\ Idle.pc = "idle" /\ Idle.seq = 0 /\ Idle.at = 0
BY DEF Idle, Busy, Job, NoKey

\* Giving the note up, or having read the slot.
LEMMA LeaveStep ==
    ASSUME BaseInv, NEW w \in Workers, Leave(w), ~Writing(job[w]),
           UNCHANGED <<slot, now, until>>, clear' \in [Keys -> BOOLEAN]
    PROVE  BaseInv'
<1>1. 0 <= slot.seq /\ 0 <= now
  BY Types DEF BaseInv, Slot
<1> QED BY <1>1, IdleJob, JobStep DEF Leave, Writing

\* A note that is over leaves the history typed.
LEMMA NotedTyped ==
    ASSUME BaseInv, NEW w \in Workers, job[w].pc # "idle", Noted(w)
    PROVE  clear' \in [Keys -> BOOLEAN]
<1>1. job[w].k \in Keys /\ job[w].clean \in BOOLEAN
  BY Types DEF BaseInv, JobInv, Job
<1>2. clear \in [Keys -> BOOLEAN]
  BY Types DEF BaseInv
<1> QED BY <1>1, <1>2 DEF Noted

-----------------------------------------------------------------------------
\* Every step keeps the base invariant, whatever the memory order.
LEMMA BaseStep == BaseInv /\ [Next]_vars => BaseInv'
<1> SUFFICES ASSUME BaseInv, [Next]_vars PROVE BaseInv'
  OBVIOUS
<1>1. /\ slot \in Slot /\ now \in 0..MaxNow /\ job \in [Workers -> Job]
      /\ until \in [Keys -> Nat] /\ clear \in [Keys -> BOOLEAN]
  BY Types DEF BaseInv
<1>3. ASSUME NEW w \in Workers, NEW k \in Keys, BeginFail(w, k) PROVE BaseInv'
  <2>s. PICK s \in Loads : job' = [v \in Workers |->
          IF v = w THEN Busy("fail", "cas", k, s, now, FALSE)
          ELSE [job[v] EXCEPT !.clean = @ /\ job[v].k # k]]
    BY <1>3 DEF BeginFail
  <2>t. s \in Nat /\ s <= slot.seq
    BY LoadsBound
  <2> DEFINE j == Busy("fail", "cas", k, s, now, FALSE)
  <2>1. /\ j \in Job /\ j.k = k /\ j.seq = s /\ j.at = now /\ ~Writing(j)
    BY <1>1, <2>t DEF Busy, Job, NotePcs, Writing, NoKey
  <2>2. \A v \in Workers : job'[v] =
          IF v = w THEN j ELSE [job[v] EXCEPT !.clean = @ /\ job[v].k # k]
    BY <2>s
  <2>3. job[w].pc = "idle" /\ UNCHANGED <<slot, now, until>>
        /\ clear' = [clear EXCEPT ![k] = FALSE]
    BY <1>3 DEF BeginFail
  <2>4. DOMAIN job' = Workers /\ job' = [v \in Workers |-> job'[v]]
    BY <2>s
  <2> HIDE DEF j
  <2>5. \A v \in Workers : v # w =>
          /\ job'[v] \in Job
          /\ job'[v].pc = job[v].pc /\ job'[v].k = job[v].k
          /\ job'[v].seq = job[v].seq /\ job'[v].at = job[v].at
    <3> SUFFICES ASSUME NEW v \in Workers, v # w
                 PROVE  /\ job'[v] \in Job
                        /\ job'[v].pc = job[v].pc /\ job'[v].k = job[v].k
                        /\ job'[v].seq = job[v].seq /\ job'[v].at = job[v].at
      OBVIOUS
    <3> DEFINE b == job[v].clean /\ job[v].k # k
    <3>1. job'[v] = [job[v] EXCEPT !.clean = b]
      BY <2>2
    <3>2. b \in BOOLEAN /\ job[v] \in Job
      BY <1>1
    <3> HIDE DEF b
    <3> QED BY <3>1, <3>2 DEF Job
  <2>6. job' \in [Workers -> Job]
    BY <2>1, <2>2, <2>4, <2>5
  <2>7. TypeOK'
    <3>1. clear' \in [Keys -> BOOLEAN] BY <1>1, <2>3
    <3> QED BY <1>1, <2>3, <2>6, <3>1 DEF TypeOK, Slot, Job
  <2>8. JobInv'
    <3> SUFFICES ASSUME NEW v \in Workers
                 PROVE  /\ job'[v].pc # "idle" => job'[v].k \in Keys
                        /\ job'[v].seq <= slot.seq /\ job'[v].at <= now
      BY <2>3 DEF JobInv
    <3>1. CASE v = w
      <4>1. job'[v] = j BY <2>2, <3>1
      <4>2. j.k \in Keys /\ j.seq <= slot.seq /\ j.at <= now
        BY <1>1, <2>t, <2>1
      <4> QED BY <4>1, <4>2
    <3>2. CASE v # w
      BY <2>5, <3>2 DEF BaseInv, JobInv
    <3> QED BY <3>1, <3>2
  <2>9. WriterInv'
    <3>1. \A v \in Workers : /\ Writing(job'[v]) <=> Writing(job[v])
                             /\ Writing(job[v]) => job'[v].seq = job[v].seq
      BY <2>1, <2>2, <2>3, <2>5 DEF Writing
    <3> QED BY <2>3, <3>1 DEF BaseInv, WriterInv
  <2>10. HoldBounded'
    BY <2>3 DEF BaseInv, HoldBounded
  <2> QED BY <2>7, <2>8, <2>9, <2>10 DEF BaseInv
<1>4. ASSUME NEW w \in Workers, NEW k \in Keys, BeginAnswer(w, k) PROVE BaseInv'
  <2>s. PICK s \in Loads : job' = [job EXCEPT ![w] =
          Busy("answer", "check", k, s, now, ~Failing(k))]
    BY <1>4 DEF BeginAnswer
  <2>t. s \in Nat /\ s <= slot.seq
    BY LoadsBound
  <2> DEFINE b == ~Failing(k)
             j == Busy("answer", "check", k, s, now, b)
  <2>1. b \in BOOLEAN BY DEF Failing
  <2>2. /\ job' = [job EXCEPT ![w] = j] /\ job[w].pc = "idle"
        /\ UNCHANGED <<slot, now, until, clear>>
    BY <1>4, <2>s DEF BeginAnswer
  <2> HIDE DEF b
  <2>3. /\ j \in Job /\ j.k = k /\ j.seq = s /\ j.at = now /\ ~Writing(j)
    BY <1>1, <2>t, <2>1 DEF Busy, Job, NotePcs, Writing, NoKey
  <2> HIDE DEF j
  <2>4. j.seq <= slot.seq /\ j.at <= now /\ ~Writing(job[w])
    BY <1>1, <2>t, <2>2, <2>3 DEF Writing
  <2> QED BY <1>1, <2>2, <2>3, <2>4, JobStep
<1>5. ASSUME NEW w \in Workers, CheckKey(w) PROVE BaseInv'
  <2>0. job[w].pc = "check" /\ UNCHANGED <<slot, now, until>>
    BY <1>5 DEF CheckKey, At
  <2>1. CASE slot.key = job[w].k
    <3> DEFINE j == [job[w] EXCEPT !.pc = "cas"]
    <3>1. job' = [job EXCEPT ![w] = j] /\ clear' = clear
      BY <1>1, <1>5, <2>1 DEF CheckKey, Go
    <3>2. /\ j \in Job /\ j.k = job[w].k /\ j.seq = job[w].seq
          /\ j.at = job[w].at /\ ~Writing(j)
      BY <1>1 DEF Job, NotePcs, Writing
    <3> HIDE DEF j
    <3> QED BY <1>1, <2>0, <3>1, <3>2, JobStep DEF BaseInv, JobInv, Writing
  <2>2. CASE slot.key # job[w].k
    <3>1. Leave(w) /\ Noted(w) BY <1>5, <2>2 DEF CheckKey
    <3> QED BY <2>0, <3>1, LeaveStep, NotedTyped DEF Writing
  <2> QED BY <2>1, <2>2
<1>6. ASSUME NEW w \in Workers, Cas(w) PROVE BaseInv'
  <2>0. job[w].pc = "cas" BY <1>6 DEF Cas
  <2>1. CASE ~Wins(w)
    <3>1. Leave(w) /\ Noted(w) /\ UNCHANGED <<slot, now, until>>
      BY <1>6, <2>1 DEF Cas
    <3> QED BY <2>0, <3>1, LeaveStep, NotedTyped DEF Writing
  <2>2. CASE Wins(w)
    <3> DEFINE j == [job[w] EXCEPT !.pc = "key"]
    <3>1. /\ job' = [job EXCEPT ![w] = j] /\ UNCHANGED <<now, until, clear>>
          /\ slot' = [slot EXCEPT !.seq = job[w].seq + 1]
      BY <1>1, <1>6, <2>2 DEF Cas, Exchange, Go
    <3>2. /\ j \in Job /\ j.k = job[w].k /\ j.seq = job[w].seq
          /\ j.at = job[w].at /\ Writing(j)
      BY <1>1 DEF Job, NotePcs, Writing
    <3> HIDE DEF j
    <3>3. ~Odd(job[w].seq) /\ slot.seq = job[w].seq /\ slot.seq \in Nat
      BY <1>1, <2>2 DEF Wins, Slot
    <3>4. \A v \in Workers : job'[v] = IF v = w THEN j ELSE job[v]
      BY <1>1, <3>1
    <3>5. job' \in [Workers -> Job]
      BY <1>1, <3>1, <3>2
    <3>6. slot' \in Slot /\ slot'.seq = slot.seq + 1
      BY <1>1, <3>1, <3>3 DEF Slot
    <3>7. TypeOK'
      BY <1>1, <3>1, <3>5, <3>6 DEF TypeOK, Slot, Job
    <3>8. JobInv'
      BY <1>1, <2>0, <3>1, <3>2, <3>4, <3>6 DEF BaseInv, JobInv, Job, Slot
    <3>9. \A v \in Workers : ~Writing(job[v])
      BY <1>1, <3>3, Parity DEF BaseInv, WriterInv, Job
    <3>10. WriterInv'
      <4>1. Odd(slot'.seq) BY <3>3, <3>6, Parity
      <4> QED BY <3>2, <3>3, <3>4, <3>6, <3>9, <4>1 DEF WriterInv
    <3>11. HoldBounded' BY <3>1 DEF BaseInv, HoldBounded
    <3> QED BY <3>7, <3>8, <3>10, <3>11 DEF BaseInv
  <2> QED BY <2>1, <2>2
<1>7. ASSUME NEW w \in Workers, NEW s \in Slot, NEW p \in {"until", "release"},
             Writing(job[w]), Go(w, p), slot' = s,
             s.seq = slot.seq,
             UNCHANGED <<now, clear>>, until' \in [Keys -> Nat], HoldBounded'
      PROVE  BaseInv'
  <2> DEFINE j == [job[w] EXCEPT !.pc = p]
  <2>1. job' = [job EXCEPT ![w] = j]
    BY <1>1, <1>7 DEF Go
  <2>2. /\ j \in Job /\ j.k = job[w].k /\ j.seq = job[w].seq
        /\ j.at = job[w].at /\ Writing(j)
    BY <1>1 DEF Job, NotePcs, Writing
  <2>3. \A v \in Workers : job'[v] = IF v = w THEN j ELSE job[v]
    BY <1>1, <2>1
  <2>4. job[w].k \in Keys
    BY <1>7 DEF BaseInv, JobInv, Writing
  <2> HIDE DEF j
  <2>5. TypeOK'
    <3>1. job' \in [Workers -> Job] BY <1>1, <2>1, <2>2
    <3> QED BY <1>1, <1>7, <3>1 DEF TypeOK, Slot, Job
  <2>6. JobInv'
    BY <1>7, <2>2, <2>3, <2>4 DEF BaseInv, JobInv
  <2>7. WriterInv'
    BY <1>7, <2>2, <2>3 DEF BaseInv, WriterInv
  <2> QED BY <1>7, <2>5, <2>6, <2>7 DEF BaseInv
<1>8. ASSUME NEW w \in Workers, WriteKey(w) PROVE BaseInv'
  <2>1. HoldMs(w) \in 0..MAX_MS BY HoldTyped
  <2>2. /\ job[w].pc = "key" /\ job[w].k \in Keys /\ job[w].at \in Nat
        /\ job[w].at <= now
    BY <1>1, <1>8 DEF WriteKey, At, BaseInv, JobInv, Job
  <2> DEFINE h == HoldMs(w)
             s1 == [slot EXCEPT !.hold = h]
             s2 == [s1 EXCEPT !.key = job[w].k]
             s3 == [s2 EXCEPT !.last = job[w].at]
  <2>3. slot' = s3 /\ UNCHANGED <<now, clear>> /\ Go(w, "until")
    BY <1>8 DEF WriteKey
  <2>4. until' = [until EXCEPT ![job[w].k] =
                    IF @ < job[w].at + h THEN job[w].at + h ELSE @]
    BY <1>8 DEF WriteKey
  <2> HIDE DEF h, s1, s2, s3
  <2>5. s1 \in Slot /\ s1.seq = slot.seq
    BY <1>1, <2>1 DEF s1, h, Slot
  <2>6. s2 \in Slot /\ s2.seq = slot.seq
    BY <2>2, <2>5 DEF s2, Slot
  <2>7. s3 \in Slot /\ s3.seq = slot.seq
    BY <2>2, <2>6 DEF s3, Slot
  <2>8. h \in 0..MAX_MS BY <2>1 DEF h
  <2>9. until' \in [Keys -> Nat]
    BY <1>1, <2>2, <2>4, <2>8, FailCacheAssumption
  <2>10. HoldBounded'
    BY <1>1, <2>2, <2>3, <2>4, <2>8, FailCacheAssumption DEF BaseInv, HoldBounded
  <2> QED BY <1>7, <2>2, <2>3, <2>7, <2>9, <2>10 DEF Writing
<1>9. ASSUME NEW w \in Workers, WriteUntil(w) \/ ClearKey(w) \/ ClearUntil(w)
      PROVE  BaseInv'
  <2>1. /\ Writing(job[w]) /\ UNCHANGED <<now, until, clear>>
        /\ \E p \in {"until", "release"} : Go(w, p)
    BY <1>9 DEF WriteUntil, ClearKey, ClearUntil, At, Writing
  <2>2. job[w].at + slot.hold \in Nat
    BY <1>1, FailCacheAssumption DEF Job, Slot
  <2>3. /\ slot' \in Slot /\ slot'.seq = slot.seq
    BY <1>1, <1>9, <2>2 DEF WriteUntil, ClearKey, ClearUntil, Slot
  <2>4. HoldBounded' BY <2>1 DEF BaseInv, HoldBounded
  <2> QED BY <1>1, <1>7, <2>1, <2>3, <2>4
<1>10. ASSUME NEW w \in Workers, Release(w) PROVE BaseInv'
  <2>1. /\ job[w].pc = "release" /\ Leave(w) /\ Noted(w)
        /\ slot' = [slot EXCEPT !.seq = job[w].seq + 2]
        /\ UNCHANGED <<now, until>>
    BY <1>10 DEF Release
  <2>2. ~Odd(job[w].seq) /\ slot.seq = job[w].seq + 1 /\ job[w].seq \in Nat
    BY <1>1, <2>1 DEF BaseInv, WriterInv, Writing, Job
  <2>3. slot' \in Slot /\ slot'.seq = slot.seq + 1
    BY <1>1, <2>1, <2>2 DEF Slot
  <2>4. ~Odd(slot'.seq)
    BY <2>1, <2>2, <2>3, Parity
  <2>5. \A v \in Workers : job'[v] = IF v = w THEN Idle ELSE job[v]
    BY <1>1, <2>1 DEF Leave
  <2>6. TypeOK'
    <3>1. job' \in [Workers -> Job] BY <1>1, <2>1, IdleJob DEF Leave
    <3>2. clear' \in [Keys -> BOOLEAN] BY <2>1, NotedTyped
    <3> QED BY <1>1, <2>1, <2>3, <3>1, <3>2 DEF TypeOK, Slot, Job
  <2>7. JobInv'
    BY <1>1, <2>1, <2>3, <2>5, IdleJob DEF BaseInv, JobInv, Job, Slot
  <2>8. \A v \in Workers : ~Writing(job'[v])
    BY <2>1, <2>5, IdleJob DEF BaseInv, WriterInv, Writing
  <2>9. WriterInv'
    BY <2>3, <2>4, <2>8 DEF WriterInv
  <2>10. HoldBounded' BY <2>1 DEF BaseInv, HoldBounded
  <2> QED BY <2>6, <2>7, <2>9, <2>10 DEF BaseInv
<1>11. ASSUME NEW w \in Workers, NEW k \in Keys, ReadSeq(w, k) PROVE BaseInv'
  <2>s. PICK s \in Loads :
          job' = [job EXCEPT ![w] = Busy("none", "r_key", k, s, 0, clear[k])]
    BY <1>11 DEF ReadSeq
  <2>t. s \in Nat /\ s <= slot.seq
    BY LoadsBound
  <2> DEFINE j == Busy("none", "r_key", k, s, 0, clear[k])
  <2>1. /\ job' = [job EXCEPT ![w] = j] /\ job[w].pc = "idle"
        /\ UNCHANGED <<slot, now, until, clear>>
    BY <1>11, <2>s DEF ReadSeq
  <2>2. /\ j \in Job /\ j.k = k /\ j.seq = s /\ j.at = 0 /\ ~Writing(j)
    BY <1>1, <2>t DEF Busy, Job, ReadPcs, Writing, NoKey
  <2> HIDE DEF j
  <2>3. j.seq <= slot.seq /\ j.at <= now /\ ~Writing(job[w])
    BY <1>1, <2>t, <2>1, <2>2 DEF Writing
  <2> QED BY <1>1, <2>1, <2>2, <2>3, JobStep
<1>12. ASSUME NEW w \in Workers, ReadKey(w) \/ ReadUntil(w) PROVE BaseInv'
  <2>1. /\ job[w].pc \in {"r_key", "r_until"} /\ job[w].k \in Keys
        /\ UNCHANGED <<slot, now, until, clear>> /\ ~Writing(job[w])
    BY <1>12 DEF ReadKey, ReadUntil, BaseInv, JobInv, Writing
  <2>2. CASE ReadKey(w)
    <3> DEFINE i == [job[w] EXCEPT !.pc = "r_until"]
               j == [i EXCEPT !.key = slot.key]
    <3>1. job' = [job EXCEPT ![w] = j] BY <1>1, <2>2 DEF ReadKey
    <3> HIDE DEF i, j
    <3>2. /\ i \in Job /\ i.k = job[w].k /\ i.seq = job[w].seq
          /\ i.at = job[w].at /\ ~Writing(i)
      BY <1>1 DEF i, Job, ReadPcs, Writing
    <3>3. /\ j \in Job /\ j.k = job[w].k /\ j.seq = job[w].seq
          /\ j.at = job[w].at /\ ~Writing(j)
      BY <1>1, <3>2 DEF j, Job, Slot, Writing
    <3>4. j.seq <= slot.seq /\ j.at <= now
      BY <3>3 DEF BaseInv, JobInv
    <3> QED BY <1>1, <2>1, <3>1, <3>3, <3>4, JobStep
  <2>3. CASE ReadUntil(w)
    <3> DEFINE i == [job[w] EXCEPT !.pc = "r_end"]
               j == [i EXCEPT !.until = slot.until]
    <3>1. job' = [job EXCEPT ![w] = j] BY <1>1, <2>3 DEF ReadUntil
    <3> HIDE DEF i, j
    <3>2. /\ i \in Job /\ i.k = job[w].k /\ i.seq = job[w].seq
          /\ i.at = job[w].at /\ ~Writing(i)
      BY <1>1 DEF i, Job, ReadPcs, Writing
    <3>3. /\ j \in Job /\ j.k = job[w].k /\ j.seq = job[w].seq
          /\ j.at = job[w].at /\ ~Writing(j)
      BY <1>1, <3>2 DEF j, Job, Slot, Writing
    <3>4. j.seq <= slot.seq /\ j.at <= now
      BY <3>3 DEF BaseInv, JobInv
    <3> QED BY <1>1, <2>1, <3>1, <3>3, <3>4, JobStep
  <2> QED BY <1>12, <2>2, <2>3
<1>13. ASSUME NEW w \in Workers, ReadEnd(w) \/ Refuse(w) PROVE BaseInv'
  <2>1. /\ job[w].pc \in {"r_end", "hit"} /\ job[w].k \in Keys
        /\ UNCHANGED <<slot, now, until, clear>> /\ ~Writing(job[w])
    BY <1>13 DEF ReadEnd, Refuse, BaseInv, JobInv, Writing
  <2>2. CASE Leave(w)
    BY <1>1, <2>1, <2>2, LeaveStep
  <2>3. CASE job' = [job EXCEPT ![w].pc = "hit", ![w].at = now]
    <3> DEFINE i == [job[w] EXCEPT !.pc = "hit"]
               j == [i EXCEPT !.at = now]
    <3>1. job' = [job EXCEPT ![w] = j] BY <1>1, <2>3
    <3> HIDE DEF i, j
    <3>2. i \in Job /\ i.k = job[w].k /\ i.seq = job[w].seq /\ ~Writing(i)
      BY <1>1 DEF i, Job, ReadPcs, Writing
    <3>3. /\ j \in Job /\ j.k = job[w].k /\ j.seq = job[w].seq
          /\ j.at = now /\ ~Writing(j)
      BY <1>1, <3>2 DEF j, Job, Writing
    <3>4. j.seq <= slot.seq /\ j.at <= now
      BY <1>1, <3>3 DEF BaseInv, JobInv
    <3> QED BY <1>1, <2>1, <3>1, <3>3, <3>4, JobStep
  <2> QED BY <1>13, <2>2, <2>3 DEF ReadEnd, Refuse
<1>15. ASSUME Tick PROVE BaseInv'
  BY <1>1, <1>15, FailCacheAssumption
     DEF Tick, BaseInv, TypeOK, JobInv, Job, WriterInv, HoldBounded
<1>16. CASE UNCHANGED vars
  BY <1>16 DEF vars, BaseInv, TypeOK, JobInv, WriterInv, HoldBounded
<1> QED BY <1>3, <1>4, <1>5, <1>6, <1>8, <1>9, <1>10, <1>11, <1>12, <1>13,
           <1>15, <1>16 DEF Next

-----------------------------------------------------------------------------
\* The base invariant holds at the start.
LEMMA BaseInit == Init => BaseInv
<1> SUFFICES ASSUME Init PROVE BaseInv
  OBVIOUS
<1>1. /\ slot.seq = 0 /\ now = 0
      /\ \A w \in Workers : job[w] = Idle
      /\ \A k \in Keys : until[k] = 0
  BY DEF Init
<1>2. TypeOK
  <2>1. job \in [Workers -> Job] BY IdleJob DEF Init
  <2>2. slot \in Slot BY FailCacheAssumption DEF Init, Slot
  <2> QED BY <1>1, <2>1, <2>2, Types, FailCacheAssumption DEF Init
<1>3. JobInv
  <2>1. slot.seq = 0 /\ now = 0 BY <1>1
  <2>2. ASSUME NEW w \in Workers
        PROVE  job[w].pc = "idle" /\ job[w].seq = 0 /\ job[w].at = 0
    <3>1. job[w] = Idle BY <1>1
    <3> QED BY <3>1, IdleJob
  <2>3. 0 <= 0 OBVIOUS
  <2>4. ASSUME NEW w \in Workers
        PROVE  job[w].seq <= slot.seq /\ job[w].at <= now
    <3>1. job[w].seq = slot.seq /\ job[w].at = now /\ slot.seq = 0 /\ now = 0
      BY <2>1, <2>2
    <3> QED BY <2>3, <3>1
  <2> QED BY <2>2, <2>4 DEF JobInv
<1>4. ~Odd(0)
  BY DEF Odd
<1>5. WriterInv
  BY <1>1, <1>4, IdleJob DEF WriterInv, Writing
<1>6. HoldBounded
  BY <1>1, FailCacheAssumption DEF HoldBounded
<1> QED BY <1>2, <1>3, <1>5, <1>6 DEF BaseInv

\* The base invariant always holds.
LEMMA BaseAlways == Spec => []BaseInv
BY BaseInit, BaseStep, PTL DEF Spec

\* fail_note and fail_cached keep the slot, and what each worker has loaded
\* of it, well formed.
THEOREM TypeCorrect == Spec => []TypeOK
<1>1. BaseInv => TypeOK BY DEF BaseInv
<1> QED BY <1>1, BaseAlways, PTL

\* The compare-and-exchange of fail_note admits one writer, and seq is odd
\* exactly while there is one: for any number of workers, and whatever the
\* order in which the stores become visible.
THEOREM WriterIsAlone == Spec => []OneWriter
<1>1. BaseInv => OneWriter
  <2> SUFFICES ASSUME BaseInv PROVE OneWriter
    OBVIOUS
  <2>1. \A w \in Workers : w \in Writers <=> Writing(job[w])
    BY DEF Writers, Writing
  <2>2. \A w \in Workers : Writing(job[w]) => Odd(slot.seq)
    BY Types, Parity DEF BaseInv, WriterInv, Job
  <2> QED BY <2>1, <2>2 DEF BaseInv, WriterInv, OneWriter, Writers
<1> QED BY <1>1, BaseAlways, PTL

\* The doubling of fail_note stops at FAIL_MAX_MS, for any first hold and any
\* sequence of failures, answers and colliding questions.
THEOREM HoldsAreBounded == Spec => []HoldBounded
<1>1. BaseInv => HoldBounded BY DEF BaseInv
<1> QED BY <1>1, BaseAlways, PTL

-----------------------------------------------------------------------------
(* From here on the odd number is seen before the stores that follow it.    *)

\* What a reader has loaded is the slot's, while the number it began with is.
Snap(j) ==
    /\ j.pc \in NotePcs => j.op # "none"
    /\ j.pc \in {"r_key", "r_until", "r_end"} => ~Odd(j.seq)
    /\ j.pc \in {"r_until", "r_end"} /\ j.seq = slot.seq => j.key = slot.key
    /\ j.pc = "r_end" /\ j.seq = slot.seq => j.until = slot.until
    /\ j.pc = "hit" => j.at < until[j.k]

\* What a writer has made of the slot so far.
Made(j) ==
    /\ j.op = "fail" /\ j.pc = "until" =>
         slot.key = j.k /\ j.at + slot.hold <= until[j.k]
    /\ j.op = "fail" /\ j.pc = "release" =>
         slot.key = j.k /\ slot.until <= until[j.k]
    /\ j.op = "answer" /\ j.pc \in {"until", "release"} => slot.key = NoKey

\* A slot nobody writes holds a time of its own key's.
Paired ==
    (\A w \in Workers : ~Writing(job[w])) /\ slot.key # NoKey =>
        slot.until <= until[slot.key]

OrderInv == /\ Paired
            /\ \A w \in Workers : Snap(job[w]) /\ Made(job[w])

\* A non-writer's step that leaves the slot keeps OrderInv, if the new job has
\* only loaded what the slot holds.
LEMMA OrderJobStep ==
    ASSUME BaseInv, OrderInv, NEW w \in Workers, NEW j,
           job' = [job EXCEPT ![w] = j], Snap(j), ~Writing(j), ~Writing(job[w]),
           UNCHANGED <<slot, until>>
    PROVE  OrderInv'
<1>1. \A v \in Workers : job'[v] = IF v = w THEN j ELSE job[v]
  BY Types DEF BaseInv
<1>2. \A v \in Workers : Writing(job'[v]) <=> Writing(job[v])
  BY <1>1
<1>3. Paired'
  BY <1>2 DEF OrderInv, Paired, Writing
<1>4. Made(j)
  BY DEF Made, Writing
<1>5. ASSUME NEW v \in Workers PROVE Snap(job[v])' /\ Made(job[v])'
  <2>1. Snap(job'[v]) /\ Made(job'[v])
    BY <1>1, <1>4 DEF OrderInv
  <2> QED BY <2>1 DEF Snap, Made
<1> QED BY <1>3, <1>5 DEF OrderInv

\* The same for a worker that leaves.
LEMMA OrderLeaveStep ==
    ASSUME BaseInv, OrderInv, NEW w \in Workers, Leave(w), ~Writing(job[w]),
           UNCHANGED <<slot, until>>
    PROVE  OrderInv'
<1>1. Snap(Idle) /\ ~Writing(Idle)
  BY IdleJob DEF Snap, Writing, NotePcs
<1> QED BY <1>1, OrderJobStep DEF Leave

\* A writer that changes the slot, and stays its writer, disturbs no reader:
\* readers began with an even number.
LEMMA OrderWriteStep ==
    ASSUME BaseInv, OrderInv, NEW w \in Workers, NEW p \in {"until", "release"},
           Writing(job[w]), Go(w, p), slot'.seq = slot.seq,
           until' \in [Keys -> Nat], \A k \in Keys : until[k] <= until'[k],
           Made(job[w])'
    PROVE  OrderInv'
<1>1. job \in [Workers -> Job] /\ until \in [Keys -> Nat] /\ slot.seq \in Nat
  BY Types DEF BaseInv, Slot
<1> DEFINE j == [job[w] EXCEPT !.pc = p]
<1>2. /\ \A v \in Workers : job'[v] = IF v = w THEN j ELSE job[v]
      /\ j.pc = p /\ j.op = job[w].op
  BY <1>1 DEF Go, Job
<1>3. Writing(job'[w])
  BY <1>2 DEF Writing
<1>4. Paired'
  BY <1>3 DEF Paired, Writing
<1>6. Snap(job[w])'
  <2>1. job[w].op # "none"
    BY DEF OrderInv, Snap, Writing, NotePcs
  <2> QED BY <1>2, <2>1 DEF Snap
<1>7. ASSUME NEW v \in Workers, v # w PROVE Snap(job[v])' /\ Made(job[v])'
  <2>1. job'[v] = job[v] /\ ~Writing(job[v]) /\ Snap(job[v])
    BY <1>2, <1>7 DEF BaseInv, WriterInv, OrderInv
  <2>2. Odd(slot.seq)
    BY <1>1, Parity DEF BaseInv, WriterInv, Job
  <2>3. Snap(job[v])'
    <3>1. job[v].pc = "hit" => job[v].at < until'[job[v].k]
      BY <1>1, <2>1 DEF Snap, BaseInv, JobInv, Job
    <3> QED BY <2>1, <2>2, <3>1 DEF Snap
  <2>4. Made(job[v])'
    BY <2>1 DEF Made, Writing
  <2> QED BY <2>3, <2>4
<1> QED BY <1>4, <1>6, <1>7 DEF OrderInv

\* Every step keeps OrderInv.
LEMMA OrderStep ==
    ASSUME ~LateOdd, BaseInv, OrderInv, [Next]_vars PROVE OrderInv'
<1>1. /\ slot \in Slot /\ now \in 0..MaxNow /\ job \in [Workers -> Job]
      /\ until \in [Keys -> Nat] /\ clear \in [Keys -> BOOLEAN]
  BY Types DEF BaseInv
<1>2. slot.seq \in Nat /\ Loads = {slot.seq}
  BY <1>1 DEF Loads, Slot
<1>3. ASSUME NEW w \in Workers, NEW k \in Keys, BeginFail(w, k) PROVE OrderInv'
  <2>s. PICK s \in Loads : job' = [v \in Workers |->
          IF v = w THEN Busy("fail", "cas", k, s, now, FALSE)
          ELSE [job[v] EXCEPT !.clean = @ /\ job[v].k # k]]
    BY <1>3 DEF BeginFail
  <2> DEFINE j == Busy("fail", "cas", k, s, now, FALSE)
  <2>1. j.pc = "cas" /\ j.op = "fail"
    BY DEF Busy
  <2>2. \A v \in Workers : job'[v] =
          IF v = w THEN j ELSE [job[v] EXCEPT !.clean = @ /\ job[v].k # k]
    BY <2>s
  <2>3. job[w].pc = "idle" /\ UNCHANGED <<slot, now, until>>
    BY <1>3 DEF BeginFail
  <2> HIDE DEF j
  <2>4. ASSUME NEW v \in Workers, v # w
        PROVE  /\ job'[v].pc = job[v].pc /\ job'[v].k = job[v].k
               /\ job'[v].op = job[v].op /\ job'[v].key = job[v].key
               /\ job'[v].seq = job[v].seq /\ job'[v].at = job[v].at
               /\ job'[v].until = job[v].until
    <3> DEFINE b == job[v].clean /\ job[v].k # k
    <3>1. job'[v] = [job[v] EXCEPT !.clean = b]
      BY <2>2, <2>4
    <3> HIDE DEF b
    <3> QED BY <1>1, <3>1 DEF Job
  <2>5. \A v \in Workers : Writing(job'[v]) <=> Writing(job[v])
    BY <2>1, <2>2, <2>3, <2>4 DEF Writing
  <2>6. Paired'
    BY <2>3, <2>5 DEF OrderInv, Paired, Writing
  <2>7. ASSUME NEW v \in Workers PROVE Snap(job[v])' /\ Made(job[v])'
    <3>1. CASE v = w
      <4>1. job'[v] = j BY <2>2, <3>1
      <4> QED BY <2>1, <4>1 DEF Snap, Made
    <3>2. CASE v # w
      BY <2>3, <2>4, <3>2 DEF OrderInv, Snap, Made
    <3> QED BY <3>1, <3>2
  <2> QED BY <2>3, <2>6, <2>7 DEF OrderInv
<1>4. ASSUME NEW w \in Workers, NEW k \in Keys, BeginAnswer(w, k) PROVE OrderInv'
  <2>s. PICK s \in Loads : job' = [job EXCEPT ![w] =
          Busy("answer", "check", k, s, now, ~Failing(k))]
    BY <1>4 DEF BeginAnswer
  <2> DEFINE j == Busy("answer", "check", k, s, now, ~Failing(k))
  <2>1. job' = [job EXCEPT ![w] = j] /\ job[w].pc = "idle" /\ UNCHANGED <<slot, until>>
    BY <1>4, <2>s DEF BeginAnswer
  <2>2. j.pc = "check" /\ j.op = "answer"
    BY DEF Busy
  <2> HIDE DEF j
  <2>3. Snap(j) /\ ~Writing(j) /\ ~Writing(job[w])
    BY <2>1, <2>2 DEF Snap, Writing
  <2> QED BY <2>1, <2>3, OrderJobStep
<1>5. ASSUME NEW w \in Workers, CheckKey(w) PROVE OrderInv'
  <2>0. At(w, "answer", "check") /\ UNCHANGED <<slot, until>>
    BY <1>5 DEF CheckKey
  <2>1. CASE slot.key = job[w].k
    <3> DEFINE j == [job[w] EXCEPT !.pc = "cas"]
    <3>1. job' = [job EXCEPT ![w] = j]
      BY <1>1, <1>5, <2>1 DEF CheckKey, Go
    <3>2. j.pc = "cas" /\ j.op = "answer"
      BY <1>1, <2>0 DEF Job, At
    <3> HIDE DEF j
    <3>3. Snap(j) /\ ~Writing(j) /\ ~Writing(job[w])
      BY <2>0, <3>2 DEF Snap, Writing, At
    <3> QED BY <2>0, <3>1, <3>3, OrderJobStep
  <2>2. CASE slot.key # job[w].k
    <3>1. Leave(w) /\ ~Writing(job[w])
      BY <1>5, <2>0, <2>2 DEF CheckKey, At, Writing
    <3> QED BY <2>0, <3>1, OrderLeaveStep
  <2> QED BY <2>1, <2>2
<1>6. ASSUME NEW w \in Workers, Cas(w) PROVE OrderInv'
  <2>0. job[w].pc = "cas" /\ ~Writing(job[w])
    BY <1>6 DEF Cas, Writing
  <2>1. CASE ~Wins(w)
    <3>1. Leave(w) /\ UNCHANGED <<slot, until>> BY <1>6, <2>1 DEF Cas
    <3> QED BY <2>0, <3>1, OrderLeaveStep
  <2>2. CASE Wins(w)
    <3> DEFINE j == [job[w] EXCEPT !.pc = "key"]
    <3>1. /\ job' = [job EXCEPT ![w] = j] /\ until' = until
          /\ slot' = [slot EXCEPT !.seq = job[w].seq + 1]
      BY <1>1, <1>6, <2>2 DEF Cas, Exchange, Go
    <3>2. j.pc = "key" /\ j.op = job[w].op
      BY <1>1 DEF Job
    <3>3. \A v \in Workers : job'[v] = IF v = w THEN j ELSE job[v]
      BY <1>1, <3>1
    <3> HIDE DEF j
    <3>4. /\ slot'.seq = slot.seq + 1 /\ slot'.key = slot.key
          /\ slot'.until = slot.until /\ slot'.hold = slot.hold
      BY <1>1, <2>2, <3>1 DEF Slot, Wins
    <3>5. Paired'
      <4>1. Writing(job'[w]) BY <3>2, <3>3 DEF Writing
      <4> QED BY <4>1 DEF Paired, Writing
    <3>6. ASSUME NEW v \in Workers PROVE Snap(job[v])' /\ Made(job[v])'
      <4>1. CASE v = w
        <5>1. job'[v] = j BY <3>3, <4>1
        <5>2. job[w].op # "none" BY <2>0 DEF OrderInv, Snap, NotePcs
        <5> QED BY <3>2, <5>1, <5>2 DEF Snap, Made
      <4>2. CASE v # w
        <5>1. job'[v] = job[v] BY <3>3, <4>2
        <5>2. job[v].seq # slot'.seq
          BY <1>1, <1>2, <3>4 DEF BaseInv, JobInv, Job
        <5> QED BY <3>1, <3>4, <5>1, <5>2 DEF OrderInv, Snap, Made
      <4> QED BY <4>1, <4>2
    <3> QED BY <3>5, <3>6 DEF OrderInv
  <2> QED BY <2>1, <2>2
<1>7. ASSUME NEW w \in Workers, WriteKey(w) PROVE OrderInv'
  <2> DEFINE h == HoldMs(w)
  <2>1. h \in 0..MAX_MS BY HoldTyped
  <2>2. /\ job[w].pc = "key" /\ job[w].op = "fail" /\ job[w].k \in Keys
        /\ job[w].at \in Nat
    BY <1>1, <1>7 DEF WriteKey, At, BaseInv, JobInv, Job
  <2>3. /\ Go(w, "until")
        /\ slot' = [slot EXCEPT !.hold = h, !.key = job[w].k, !.last = job[w].at]
        /\ until' = [until EXCEPT ![job[w].k] =
                       IF @ < job[w].at + h THEN job[w].at + h ELSE @]
    BY <1>7 DEF WriteKey
  <2> HIDE DEF h
  <2>4. /\ slot'.seq = slot.seq
        /\ slot'.hold = h /\ slot'.key = job[w].k
    BY <1>1, <2>3 DEF Slot
  <2>5. /\ until' \in [Keys -> Nat] /\ \A k \in Keys : until[k] <= until'[k]
        /\ job[w].at + h <= until'[job[w].k]
    BY <1>1, <2>1, <2>2, <2>3, FailCacheAssumption
  <2>6. Made(job[w])'
    <3>1. /\ job'[w].pc = "until" /\ job'[w].op = "fail"
          /\ job'[w].k = job[w].k /\ job'[w].at = job[w].at
      BY <1>1, <2>2, <2>3 DEF Go, Job
    <3> QED BY <2>4, <2>5, <3>1 DEF Made
  <2> QED BY <2>2, <2>3, <2>4, <2>5, <2>6, OrderWriteStep DEF Writing
<1>8. ASSUME NEW w \in Workers, WriteUntil(w) PROVE OrderInv'
  <2>1. /\ job[w].pc = "until" /\ job[w].op = "fail" /\ Go(w, "release")
        /\ slot' = [slot EXCEPT !.until = job[w].at + slot.hold] /\ until' = until
    BY <1>8 DEF WriteUntil, At
  <2>2. /\ slot'.seq = slot.seq
        /\ slot'.key = slot.key /\ slot'.until = job[w].at + slot.hold
    BY <1>1, <2>1 DEF Slot
  <2>3. /\ job'[w].pc = "release" /\ job'[w].op = "fail" /\ job'[w].k = job[w].k
    BY <1>1, <2>1 DEF Go, Job
  <2>4. /\ slot.key = job[w].k /\ job[w].at + slot.hold <= until[job[w].k]
    BY <2>1 DEF OrderInv, Made, Writing
  <2>5. Made(job[w])'
    BY <2>1, <2>2, <2>3, <2>4 DEF Made
  <2> QED BY <1>1, <2>1, <2>2, <2>4, <2>5, OrderWriteStep DEF Writing
<1>9. ASSUME NEW w \in Workers, ClearKey(w) PROVE OrderInv'
  <2>1. /\ job[w].pc = "key" /\ job[w].op = "answer" /\ Go(w, "until")
        /\ slot' = [slot EXCEPT !.key = NoKey] /\ until' = until
    BY <1>9 DEF ClearKey, At
  <2>2. /\ slot'.seq = slot.seq /\ slot'.key = NoKey
    BY <1>1, <2>1 DEF Slot
  <2>3. /\ job'[w].pc = "until" /\ job'[w].op = "answer"
    BY <1>1, <2>1 DEF Go, Job
  <2>4. Made(job[w])'
    BY <2>2, <2>3 DEF Made, NoKey
  <2> QED BY <1>1, <2>1, <2>2, <2>4, OrderWriteStep DEF Writing
<1>10. ASSUME NEW w \in Workers, ClearUntil(w) PROVE OrderInv'
  <2>1. /\ job[w].pc = "until" /\ job[w].op = "answer" /\ Go(w, "release")
        /\ slot' = [slot EXCEPT !.until = 0] /\ until' = until
    BY <1>10 DEF ClearUntil, At
  <2>2. /\ slot'.seq = slot.seq /\ slot'.key = slot.key
    BY <1>1, <2>1 DEF Slot
  <2>3. /\ job'[w].pc = "release" /\ job'[w].op = "answer"
    BY <1>1, <2>1 DEF Go, Job
  <2>4. slot.key = NoKey
    BY <2>1 DEF OrderInv, Made, Writing
  <2>5. Made(job[w])'
    BY <2>2, <2>3, <2>4 DEF Made, NoKey
  <2> QED BY <1>1, <2>1, <2>2, <2>4, <2>5, OrderWriteStep DEF Writing
<1>11. ASSUME NEW w \in Workers, Release(w) PROVE OrderInv'
  <2>1. /\ job[w].pc = "release" /\ Leave(w) /\ until' = until
        /\ slot' = [slot EXCEPT !.seq = job[w].seq + 2]
    BY <1>11 DEF Release
  <2>2. slot.seq = job[w].seq + 1 /\ job[w].seq \in Nat /\ Writing(job[w])
    BY <1>1, <2>1 DEF BaseInv, WriterInv, Writing, Job
  <2>3. /\ slot'.seq = slot.seq + 1 /\ slot'.key = slot.key
        /\ slot'.until = slot.until /\ slot'.hold = slot.hold
    BY <1>1, <2>1, <2>2 DEF Slot
  <2>4. \A v \in Workers : job'[v] = IF v = w THEN Idle ELSE job[v]
    BY <1>1, <2>1 DEF Leave
  <2>5. slot.key # NoKey => slot.until <= until[slot.key]
    <3>1. job[w].op \in {"fail", "answer"}
      BY <1>1, <2>1 DEF OrderInv, Snap, NotePcs, Job
    <3> QED BY <2>1, <3>1 DEF OrderInv, Made
  <2>6. Paired'
    BY <2>1, <2>3, <2>5 DEF Paired
  <2>7. ASSUME NEW v \in Workers PROVE Snap(job[v])' /\ Made(job[v])'
    <3>1. CASE v = w
      <4>1. job'[v].pc = "idle" BY <2>4, <3>1, IdleJob
      <4> QED BY <4>1 DEF Snap, Made, NotePcs
    <3>2. CASE v # w
      <4>1. job'[v] = job[v] BY <2>4, <3>2
      <4>2. job[v].seq # slot'.seq
        BY <1>1, <1>2, <2>3 DEF BaseInv, JobInv, Job
      <4> QED BY <2>1, <2>3, <4>1, <4>2 DEF OrderInv, Snap, Made
    <3> QED BY <3>1, <3>2
  <2> QED BY <2>3, <2>6, <2>7 DEF OrderInv
<1>12. ASSUME NEW w \in Workers, NEW k \in Keys, ReadSeq(w, k) PROVE OrderInv'
  <2>s. PICK s \in Loads :
          /\ ~Odd(s)
          /\ job' = [job EXCEPT ![w] = Busy("none", "r_key", k, s, 0, clear[k])]
    BY <1>12 DEF ReadSeq
  <2> DEFINE j == Busy("none", "r_key", k, s, 0, clear[k])
  <2>1. /\ job' = [job EXCEPT ![w] = j] /\ job[w].pc = "idle" /\ ~Odd(s)
        /\ UNCHANGED <<slot, until>>
    BY <1>12, <2>s DEF ReadSeq
  <2>2. j.pc = "r_key" /\ j.seq = s
    BY DEF Busy
  <2> HIDE DEF j
  <2>3. Snap(j) /\ ~Writing(j) /\ ~Writing(job[w])
    BY <2>1, <2>2 DEF Snap, Writing, NotePcs
  <2> QED BY <2>1, <2>3, OrderJobStep
<1>13. ASSUME NEW w \in Workers, ReadKey(w) PROVE OrderInv'
  <2> DEFINE j == [job[w] EXCEPT !.pc = "r_until", !.key = slot.key]
  <2>1. /\ job' = [job EXCEPT ![w] = j] /\ job[w].pc = "r_key"
        /\ UNCHANGED <<slot, until>>
    BY <1>1, <1>13 DEF ReadKey
  <2>2. j.pc = "r_until" /\ j.key = slot.key /\ j.seq = job[w].seq
    BY <1>1 DEF Job
  <2> HIDE DEF j
  <2>3. ~Odd(job[w].seq)
    BY <2>1 DEF OrderInv, Snap
  <2>4. Snap(j) /\ ~Writing(j) /\ ~Writing(job[w])
    BY <2>1, <2>2, <2>3 DEF Snap, Writing, NotePcs
  <2> QED BY <2>1, <2>4, OrderJobStep
<1>14. ASSUME NEW w \in Workers, ReadUntil(w) PROVE OrderInv'
  <2> DEFINE j == [job[w] EXCEPT !.pc = "r_end", !.until = slot.until]
  <2>1. /\ job' = [job EXCEPT ![w] = j] /\ job[w].pc = "r_until"
        /\ UNCHANGED <<slot, until>>
    BY <1>1, <1>14 DEF ReadUntil
  <2>2. /\ j.pc = "r_end" /\ j.until = slot.until /\ j.seq = job[w].seq
        /\ j.key = job[w].key
    BY <1>1 DEF Job
  <2> HIDE DEF j
  <2>3. ~Odd(job[w].seq) /\ (job[w].seq = slot.seq => job[w].key = slot.key)
    BY <2>1 DEF OrderInv, Snap
  <2>4. Snap(j) /\ ~Writing(j) /\ ~Writing(job[w])
    BY <2>1, <2>2, <2>3 DEF Snap, Writing, NotePcs
  <2> QED BY <2>1, <2>4, OrderJobStep
<1>15. ASSUME NEW w \in Workers, ReadEnd(w) PROVE OrderInv'
  <2>0. job[w].pc = "r_end" /\ UNCHANGED <<slot, until>> /\ ~Writing(job[w])
    BY <1>15 DEF ReadEnd, Writing
  <2>1. CASE Leave(w)
    BY <2>0, <2>1, OrderLeaveStep
  <2>2. CASE /\ Believes(w, slot.seq)
             /\ job' = [job EXCEPT ![w].pc = "hit", ![w].at = now]
    <3> DEFINE j == [job[w] EXCEPT !.pc = "hit", !.at = now]
    <3>1. job' = [job EXCEPT ![w] = j]
      BY <1>1, <2>2
    <3>2. j.pc = "hit" /\ j.at = now /\ j.k = job[w].k
      BY <1>1 DEF Job
    <3> HIDE DEF j
    <3>3. slot.seq = job[w].seq /\ ~Odd(slot.seq)
      BY <2>0, <2>2 DEF Believes, OrderInv, Snap
    <3>4. \A v \in Workers : ~Writing(job[v])
      BY <1>1, <3>3, Parity DEF BaseInv, WriterInv, Job
    <3>5. job[w].key = slot.key /\ job[w].until = slot.until
      BY <2>0, <3>3 DEF OrderInv, Snap
    <3>6. job[w].k \in Keys /\ slot.key = job[w].k /\ now < slot.until
      BY <2>0, <2>2, <3>5 DEF Believes, BaseInv, JobInv
    <3>7. slot.until <= until[job[w].k]
      BY <3>4, <3>6, FailCacheAssumption DEF OrderInv, Paired, NoKey
    <3>8. now < until[job[w].k]
      BY <1>1, <3>6, <3>7 DEF Slot
    <3>9. Snap(j) /\ ~Writing(j)
      BY <3>2, <3>8 DEF Snap, Writing, NotePcs
    <3> QED BY <2>0, <3>1, <3>9, OrderJobStep
  <2> QED BY <1>2, <1>15, <2>1, <2>2 DEF ReadEnd
<1>16. ASSUME NEW w \in Workers, Refuse(w) PROVE OrderInv'
  BY <1>16, OrderLeaveStep DEF Refuse, Writing
<1>17. CASE Tick \/ UNCHANGED vars
  BY <1>17 DEF Tick, vars, OrderInv, Paired, Snap, Made, Writing
<1> QED BY <1>3, <1>4, <1>5, <1>6, <1>7, <1>8, <1>9, <1>10, <1>11, <1>12,
           <1>13, <1>14, <1>15, <1>16, <1>17 DEF Next

\* fail_cached believes a slot only for the question that failed, and only
\* within a hold of that question: with the odd sequence number visible before
\* the stores that follow it, no interleaving of any number of workers, keys
\* and writes pairs one question's key with another's time.
THEOREM OnlyFailuresAreRefused ==
    ASSUME ~LateOdd PROVE Spec => []OnlyWhatFailed
<1>1. Init => OrderInv
  <2> SUFFICES ASSUME Init PROVE OrderInv
    OBVIOUS
  <2>1. slot.key = NoKey
    BY DEF Init
  <2>2. ASSUME NEW w \in Workers PROVE job[w].pc = "idle"
    <3>1. job[w] = Idle BY DEF Init
    <3> QED BY <3>1, IdleJob
  <2> QED BY <2>1, <2>2 DEF OrderInv, Paired, Snap, Made, NotePcs, Writing
<1>2. BaseInv /\ OrderInv /\ [Next]_vars => OrderInv'
  BY OrderStep
<1>3. OrderInv => OnlyWhatFailed
  BY DEF OrderInv, Snap, OnlyWhatFailed
<1> QED BY <1>1, <1>2, <1>3, BaseAlways, PTL DEF Spec

-----------------------------------------------------------------------------
(* An answer clears the slot, although its note may be left undone because  *)
(* another worker has the slot.                                             *)

\* The slot will be read as this question's: a writer that has not got to the
\* key yet still has to replace it.
Holds(k) == slot.key = k /\ ~\E w \in Workers : job[w].pc = "key"

\* What a worker knows.  An answer with no failure of its question around may
\* find the slot taken, but whoever took it takes the key out; a look-up begun
\* after such an answer finds another key.
Clears(j) ==
    /\ j.op = "none" <=> j.pc \in ReadPcs \cup {"idle"}
    /\ j.pc \in {"until", "release"} =>
          slot.key = IF j.op = "answer" THEN NoKey ELSE j.k
    /\ j.op = "fail" \/ j.pc = "idle" => ~j.clean
    /\ j.op = "answer" /\ j.clean =>
          /\ ~Failing(j.k)
          /\ slot.seq # j.seq => ~Holds(j.k)
    /\ j.op = "none" /\ j.clean =>
          /\ ~Failing(j.k) /\ slot.key # j.k
          /\ j.pc \in {"r_until", "r_end"} => j.key # j.k
          /\ j.pc # "hit"

ClearInv ==
    /\ \A w \in Workers : Clears(job[w])
    /\ \A k \in Keys : clear[k] => ~Failing(k) /\ ~Holds(k)

\* A step of one worker, other than the begin of a failure: what the others
\* know stands if the slot gets a question's key only from a failure of it.
LEMMA ClearStep ==
    ASSUME BaseInv, ClearInv, NEW w \in Workers,
           \A v \in Workers \ {w} : job'[v] = job[v],
           \A k \in Keys : Failing(k)' => Failing(k),
           \A k \in Keys : slot'.key = k => slot.key = k \/ Failing(k),
           \A k \in Keys : Holds(k)' => Holds(k) \/ Failing(k),
           slot'.seq # slot.seq => \A k \in Keys : Holds(k)' => Failing(k),
           slot'.key # slot.key => Writing(job[w]),
           \A k \in Keys : clear'[k] => clear[k] \/ (~Failing(k)' /\ ~Holds(k)'),
           Clears(job[w])'
    PROVE  ClearInv'
<1>1. ASSUME NEW v \in Workers, v # w PROVE Clears(job[v])'
  <2>1. job'[v] = job[v] /\ Clears(job[v])
    BY <1>1 DEF ClearInv
  <2>2. job[v].pc \in {"until", "release"} => slot'.key = slot.key
    BY <1>1 DEF BaseInv, WriterInv, Writing
  <2>3. job[v].clean /\ job[v].op # "fail" => job[v].pc # "idle"
    BY <2>1, Types DEF Clears
  <2> QED BY <2>1, <2>2, <2>3 DEF Clears, BaseInv, JobInv
<1>2. \A k \in Keys : clear'[k] => ~Failing(k)' /\ ~Holds(k)'
  BY DEF ClearInv
<1> QED BY <1>1, <1>2 DEF ClearInv

\* A step of one worker that leaves the slot alone and is not a writer's on its
\* way to the key.
LEMMA ClearJobStep ==
    ASSUME BaseInv, ClearInv, NEW w \in Workers, NEW j \in Job,
           job' = [job EXCEPT ![w] = j], slot' = slot,
           j.pc # "key", job[w].pc # "key",
           j.op = "fail" => job[w].op = "fail" /\ j.k = job[w].k,
           j.pc # "idle" => j.k \in Keys,
           \A k \in Keys : clear'[k] => clear[k] \/ (~Failing(k) /\ ~Holds(k)),
           Clears(j)
    PROVE  ClearInv'
<1>1. \A v \in Workers : job'[v] = IF v = w THEN j ELSE job[v]
  BY Types DEF BaseInv
<1>2. ASSUME NEW k PROVE Failing(k)' => Failing(k)
  BY <1>1 DEF Failing
<1>3. ASSUME NEW k PROVE Holds(k)' <=> Holds(k)
  BY <1>1 DEF Holds
<1>4. Clears(job[w])'
  <2>1. job'[w] = j
    BY <1>1
  <2>2. ~Failing(j.k) => ~Failing(j.k)'
    BY <1>2
  <2>3. ~Holds(j.k) => ~Holds(j.k)'
    BY <1>3
  <2> QED BY <2>1, <2>2, <2>3 DEF Clears
<1> HIDE DEF Clears
<1> QED BY <1>1, <1>2, <1>3, <1>4, ClearStep

\* Giving a note up, or a look-up.
LEMMA ClearLeaveStep ==
    ASSUME BaseInv, ClearInv, NEW w \in Workers, Leave(w), slot' = slot,
           job[w].pc # "key",
           \A k \in Keys : clear'[k] => clear[k] \/ (~Failing(k) /\ ~Holds(k))
    PROVE  ClearInv'
<1>1. Idle \in Job /\ Idle.pc = "idle" /\ Idle.op = "none" /\ ~Idle.clean
  BY IdleJob DEF Idle, Busy
<1>2. Clears(Idle)
  BY <1>1 DEF Clears
<1> HIDE DEF Idle
<1> QED BY <1>1, <1>2, ClearJobStep DEF Leave

\* A note that is over adds its own question to the answered ones, and only if
\* nothing is left of it.
LEMMA ClearNoted ==
    ASSUME BaseInv, NEW w \in Workers, job[w].pc # "idle", Noted(w)
    PROVE  \A k \in Keys : clear'[k] => clear[k] \/ (k = job[w].k /\ job[w].clean)
<1>1. clear \in [Keys -> BOOLEAN] /\ job[w].k \in Keys
  BY Types DEF BaseInv, JobInv
<1> QED BY <1>1 DEF Noted

\* Every step keeps it.
LEMMA ClearNext ==
    ASSUME ~LateOdd, BaseInv, ClearInv, [Next]_vars PROVE ClearInv'
<1>1. /\ slot \in Slot /\ job \in [Workers -> Job] /\ clear \in [Keys -> BOOLEAN]
  BY Types DEF BaseInv
<1>2. slot.seq \in Nat /\ Loads = {slot.seq}
  BY <1>1 DEF Loads, Slot
<1>n. NoKey \notin Keys
  BY FailCacheAssumption DEF NoKey
<1>3. ASSUME NEW w \in Workers, NEW k \in Keys, BeginFail(w, k) PROVE ClearInv'
  <2> DEFINE j == Busy("fail", "cas", k, slot.seq, now, FALSE)
  <2>1. /\ job[w].pc = "idle" /\ slot' = slot /\ clear' = [clear EXCEPT ![k] = FALSE]
        /\ job' = [v \in Workers |-> IF v = w THEN j
                     ELSE [job[v] EXCEPT !.clean = @ /\ job[v].k # k]]
    BY <1>2, <1>3 DEF BeginFail
  <2>2. /\ j.pc = "cas" /\ j.op = "fail" /\ j.k = k /\ ~j.clean
    BY DEF Busy
  <2>3. job'[w] = j
    BY <2>1
  <2> HIDE DEF j
  <2>4. ASSUME NEW v \in Workers, v # w
        PROVE  /\ job'[v].pc = job[v].pc /\ job'[v].k = job[v].k
               /\ job'[v].op = job[v].op /\ job'[v].key = job[v].key
               /\ job'[v].seq = job[v].seq
               /\ job'[v].clean => job[v].clean /\ job[v].k # k
    <3> DEFINE b == job[v].clean /\ job[v].k # k
    <3>1. job'[v] = [job[v] EXCEPT !.clean = b]
      BY <2>1, <2>4
    <3>2. b \in BOOLEAN /\ job[v] \in Job
      BY <1>1
    <3>3. b => job[v].clean /\ job[v].k # k
      OBVIOUS
    <3> HIDE DEF b
    <3> QED BY <3>1, <3>2, <3>3 DEF Job
  <2>5. ASSUME NEW l, l # k PROVE Failing(l)' => Failing(l)
    BY <2>2, <2>3, <2>4, <2>5 DEF Failing
  <2>6. ASSUME NEW l PROVE Holds(l)' <=> Holds(l)
    BY <2>1, <2>2, <2>3, <2>4 DEF Holds
  <2>7. ASSUME NEW v \in Workers PROVE Clears(job[v])'
    <3>1. CASE v = w
      BY <2>2, <2>3, <3>1 DEF Clears, ReadPcs
    <3>2. CASE v # w
      <4>1. Clears(job[v])
        BY DEF ClearInv
      <4> QED BY <2>1, <2>4, <2>5, <2>6, <3>2, <4>1 DEF Clears
    <3> QED BY <3>1, <3>2
  <2>8. ASSUME NEW l \in Keys, clear'[l] PROVE ~Failing(l)' /\ ~Holds(l)'
    <3>1. l # k /\ clear[l]
      BY <1>1, <2>1, <2>8
    <3> QED BY <2>5, <2>6, <3>1 DEF ClearInv
  <2> QED BY <2>7, <2>8 DEF ClearInv
<1>4. ASSUME NEW w \in Workers, NEW k \in Keys, BeginAnswer(w, k) PROVE ClearInv'
  <2> DEFINE b == ~Failing(k)
             j == Busy("answer", "check", k, slot.seq, now, b)
  <2>1. b \in BOOLEAN /\ (b => ~Failing(k)) /\ now \in Nat
    BY Types DEF Failing, BaseInv
  <2>2. /\ job[w].pc = "idle" /\ UNCHANGED <<slot, clear>>
        /\ job' = [job EXCEPT ![w] = j]
    BY <1>2, <1>4 DEF BeginAnswer
  <2> HIDE DEF b
  <2>3. /\ j.pc = "check" /\ j.op = "answer" /\ j.k = k /\ j.clean = b
        /\ j.seq = slot.seq /\ j \in Job
    BY <1>2, <2>1 DEF Busy, Job, NotePcs, NoKey
  <2> HIDE DEF j
  <2>4. Clears(j)
    BY <2>1, <2>3 DEF Clears, ReadPcs
  <2> QED BY <2>2, <2>3, <2>4, ClearJobStep
<1>5. ASSUME NEW w \in Workers, NEW k \in Keys, ReadSeq(w, k) PROVE ClearInv'
  <2> DEFINE j == Busy("none", "r_key", k, slot.seq, 0, clear[k])
  <2>1. /\ job[w].pc = "idle" /\ UNCHANGED <<slot, clear>> /\ ~Odd(slot.seq)
        /\ job' = [job EXCEPT ![w] = j]
    BY <1>2, <1>5 DEF ReadSeq
  <2>2. clear[k] \in BOOLEAN
    BY <1>1
  <2>3. /\ j.pc = "r_key" /\ j.op = "none" /\ j.k = k /\ j.clean = clear[k]
        /\ j \in Job
    BY <1>2, <2>2 DEF Busy, Job, ReadPcs, NoKey
  <2>4. \A v \in Workers : job[v].pc # "key"
    <3> SUFFICES ASSUME NEW v \in Workers, job[v].pc = "key" PROVE FALSE
      OBVIOUS
    <3>1. job[v].seq \in Nat
      BY <1>1 DEF Job
    <3> QED BY <2>1, <3>1, Parity DEF BaseInv, WriterInv, Writing
  <2> HIDE DEF j
  <2>5. Clears(j)
    BY <2>3, <2>4 DEF Clears, ClearInv, Holds, ReadPcs
  <2> QED BY <2>1, <2>3, <2>5, ClearJobStep
<1>6. ASSUME NEW w \in Workers, CheckKey(w) PROVE ClearInv'
  <2>0. /\ job[w].pc = "check" /\ job[w].op = "answer" /\ slot' = slot
        /\ job[w].k \in Keys /\ Clears(job[w]) /\ job[w] \in Job
    BY <1>1, <1>6 DEF CheckKey, At, BaseInv, JobInv, ClearInv
  <2>1. CASE slot.key = job[w].k
    <3> DEFINE j == [job[w] EXCEPT !.pc = "cas"]
    <3>1. job' = [job EXCEPT ![w] = j] /\ clear' = clear
      BY <1>1, <1>6, <2>1 DEF CheckKey, Go
    <3>2. /\ j \in Job /\ j.k = job[w].k /\ j.seq = job[w].seq /\ j.op = "answer"
          /\ j.clean = job[w].clean /\ j.pc = "cas"
      BY <2>0 DEF Job, NotePcs
    <3> HIDE DEF j
    <3>3. Clears(j)
      BY <2>0, <3>2 DEF Clears, ReadPcs
    <3> QED BY <2>0, <3>1, <3>2, <3>3, ClearJobStep
  <2>2. CASE slot.key # job[w].k
    <3>1. Leave(w) /\ Noted(w) BY <1>6, <2>2 DEF CheckKey
    <3>2. \A k \in Keys : clear'[k] => clear[k] \/ (~Failing(k) /\ ~Holds(k))
      BY <2>0, <2>2, <3>1, ClearNoted DEF Clears, Holds
    <3> QED BY <2>0, <3>1, <3>2, ClearLeaveStep
  <2> QED BY <2>1, <2>2
<1>7. ASSUME NEW w \in Workers, Cas(w) PROVE ClearInv'
  <2>0. /\ job[w].pc = "cas" /\ job[w].k \in Keys /\ Clears(job[w])
        /\ job[w] \in Job
    BY <1>1, <1>7 DEF Cas, BaseInv, JobInv, ClearInv
  <2>1. CASE ~Wins(w)
    <3>1. Leave(w) /\ Noted(w) /\ slot' = slot
      BY <1>7, <2>1 DEF Cas
    <3>2. ASSUME job[w].clean PROVE ~Failing(job[w].k) /\ ~Holds(job[w].k)
      <4>1. job[w].op = "answer"
        BY <2>0, <3>2 DEF Clears, ReadPcs, Job
      <4>2. CASE slot.seq # job[w].seq
        BY <2>0, <3>2, <4>1, <4>2 DEF Clears
      <4>3. CASE slot.seq = job[w].seq
        <5>1. PICK v \in Workers : Writing(job[v])
          BY <2>1, <4>3 DEF Wins, BaseInv, WriterInv
        <5>2. Clears(job[v]) /\ job[v].k \in Keys /\ job[v] \in Job
          BY <1>1, <5>1 DEF ClearInv, BaseInv, JobInv, Writing
        <5>3. job[v].op = "fail" => job[v].k # job[w].k
          BY <2>0, <3>2, <4>1 DEF Clears, Failing
        <5>4. job[v].op \in {"fail", "answer"}
          BY <5>1, <5>2 DEF Clears, Writing, ReadPcs, Job
        <5> QED BY <1>n, <2>0, <3>2, <4>1, <5>1, <5>2, <5>3, <5>4
                DEF Clears, Holds, Writing
      <4> QED BY <4>2, <4>3
    <3>3. \A k \in Keys : clear'[k] => clear[k] \/ (~Failing(k) /\ ~Holds(k))
      BY <2>0, <3>1, <3>2, ClearNoted
    <3> QED BY <2>0, <3>1, <3>3, ClearLeaveStep
  <2>2. CASE Wins(w)
    <3> DEFINE j == [job[w] EXCEPT !.pc = "key"]
    <3>1. /\ job' = [job EXCEPT ![w] = j] /\ clear' = clear
          /\ slot' = [slot EXCEPT !.seq = job[w].seq + 1]
      BY <1>1, <1>7, <2>2 DEF Cas, Exchange, Go
    <3>2. /\ j.k = job[w].k /\ j.seq = job[w].seq /\ j.op = job[w].op
          /\ j.clean = job[w].clean /\ j.pc = "key"
      BY <2>0 DEF Job
    <3> HIDE DEF j
    <3>3. \A v \in Workers : job'[v] = IF v = w THEN j ELSE job[v]
      BY <1>1, <3>1
    <3>4. slot'.key = slot.key
      BY <1>1, <3>1 DEF Slot
    <3>5. ASSUME NEW k PROVE ~Holds(k)'
      BY <3>2, <3>3 DEF Holds
    <3>6. ASSUME NEW k PROVE Failing(k)' => Failing(k)
      BY <3>2, <3>3 DEF Failing
    <3>7. Clears(job[w])'
      BY <2>0, <3>2, <3>3, <3>5, <3>6 DEF Clears, ReadPcs
    <3> QED BY <3>1, <3>3, <3>4, <3>5, <3>6, <3>7, ClearStep DEF ClearInv
  <2> QED BY <2>1, <2>2
<1>8. ASSUME NEW w \in Workers, NEW p, Writing(job[w]), Go(w, p),
             p \in {"until", "release"}, slot'.seq = slot.seq, clear' = clear,
             p = "until" => slot'.key = IF job[w].op = "answer" THEN NoKey
                                        ELSE job[w].k,
             p = "release" => slot'.key = slot.key /\ job[w].pc = "until"
      PROVE  ClearInv'
  <2> DEFINE j == [job[w] EXCEPT !.pc = p]
  <2>0. job[w].k \in Keys /\ Clears(job[w]) /\ job[w] \in Job
    BY <1>1, <1>8 DEF ClearInv, BaseInv, JobInv, Writing
  <2>1. job' = [job EXCEPT ![w] = j]
    BY <1>1, <1>8 DEF Go
  <2>2. /\ j.k = job[w].k /\ j.seq = job[w].seq /\ j.op = job[w].op
        /\ j.clean = job[w].clean /\ j.pc = p
    BY <2>0 DEF Job
  <2> HIDE DEF j
  <2>3. \A v \in Workers : job'[v] = IF v = w THEN j ELSE job[v]
    BY <1>1, <2>1
  <2>4. job[w].op \in {"fail", "answer"}
    BY <1>8, <2>0 DEF Clears, Writing, ReadPcs, Job
  <2>5. slot'.key = IF job[w].op = "answer" THEN NoKey ELSE job[w].k
    BY <1>8, <2>0 DEF Clears
  <2>6. ASSUME NEW k PROVE Failing(k)' => Failing(k)
    BY <2>2, <2>3 DEF Failing
  <2>7. ASSUME NEW k \in Keys, slot'.key = k PROVE Failing(k)
    BY <1>n, <2>4, <2>5, <2>7 DEF Failing
  <2>8. \A k \in Keys : Holds(k)' => Failing(k)
    BY <2>7 DEF Holds
  <2>9. Clears(job[w])'
    <3>1. job[w].clean => ~Failing(job[w].k) /\ job[w].op = "answer"
      BY <2>0, <2>4 DEF Clears
    <3>2. job[w].clean => ~Failing(job[w].k)' /\ ~Holds(job[w].k)'
      BY <2>0, <2>2, <2>3, <2>6, <2>8, <3>1
    <3>3. job'[w] = j
      BY <2>3
    <3>4. p \notin ReadPcs \cup {"idle"}
      BY <1>8 DEF ReadPcs
    <3> QED BY <2>2, <2>4, <2>5, <3>1, <3>2, <3>3, <3>4 DEF Clears
  <2> QED BY <1>8, <2>3, <2>6, <2>7, <2>8, <2>9, ClearStep
<1>9. ASSUME NEW w \in Workers,
             WriteKey(w) \/ WriteUntil(w) \/ ClearKey(w) \/ ClearUntil(w)
      PROVE  ClearInv'
  <2>1. Writing(job[w]) /\ clear' = clear
    BY <1>9 DEF WriteKey, WriteUntil, ClearKey, ClearUntil, At, Writing
  <2>2. CASE WriteKey(w)
    <3>1. slot'.key = job[w].k /\ slot'.seq = slot.seq /\ job[w].op = "fail"
      BY <1>1, <2>2 DEF WriteKey, At, Slot
    <3> QED BY <1>8, <2>1, <2>2, <3>1 DEF WriteKey
  <2>3. CASE ClearKey(w)
    <3>1. slot'.key = NoKey /\ slot'.seq = slot.seq /\ job[w].op = "answer"
      BY <1>1, <2>3 DEF ClearKey, At, Slot
    <3> QED BY <1>8, <2>1, <2>3, <3>1 DEF ClearKey
  <2>4. CASE WriteUntil(w) \/ ClearUntil(w)
    <3>1. /\ slot'.key = slot.key /\ slot'.seq = slot.seq
          /\ job[w].pc = "until" /\ Go(w, "release")
      BY <1>1, <2>4 DEF WriteUntil, ClearUntil, At, Slot
    <3> QED BY <1>8, <2>1, <3>1
  <2> QED BY <1>9, <2>2, <2>3, <2>4
<1>10. ASSUME NEW w \in Workers, Release(w) PROVE ClearInv'
  <2>0. /\ job[w].pc = "release" /\ job[w].k \in Keys /\ Clears(job[w])
        /\ job[w] \in Job /\ Leave(w) /\ Noted(w)
        /\ slot' = [slot EXCEPT !.seq = job[w].seq + 2]
    BY <1>1, <1>10 DEF Release, ClearInv, BaseInv, JobInv
  <2>1. \A v \in Workers : job'[v] = IF v = w THEN Idle ELSE job[v]
    BY <1>1, <2>0 DEF Leave
  <2>2. Idle.pc = "idle" /\ Idle.op = "none" /\ ~Idle.clean
    BY DEF Idle, Busy
  <2>3. job[w].op \in {"fail", "answer"}
    BY <2>0 DEF Clears, ReadPcs, Job
  <2>4. slot'.key = slot.key
    BY <1>1, <2>0 DEF Slot
  <2>5. slot.key = IF job[w].op = "answer" THEN NoKey ELSE job[w].k
    BY <2>0 DEF Clears
  <2>6. ASSUME NEW k PROVE Failing(k)' => Failing(k)
    BY <2>1, <2>2 DEF Failing
  <2>7. ASSUME NEW k \in Keys, slot.key = k PROVE Failing(k)
    BY <1>n, <2>3, <2>5, <2>7 DEF Failing
  <2>8. \A k \in Keys : Holds(k)' => Failing(k)
    BY <2>4, <2>7 DEF Holds
  <2>9. Clears(job[w])'
    BY <2>1, <2>2 DEF Clears
  <2>10. job[w].clean => ~Failing(job[w].k)
    BY <2>0, <2>3 DEF Clears
  <2>11. ASSUME NEW k \in Keys, clear'[k]
         PROVE  clear[k] \/ (~Failing(k)' /\ ~Holds(k)')
    BY <2>0, <2>6, <2>8, <2>10, <2>11, ClearNoted
  <2>12. ASSUME NEW k \in Keys, Holds(k)' PROVE Holds(k) \/ Failing(k)
    BY <2>8, <2>12
  <2> HIDE DEF Idle
  <2> QED BY <2>1, <2>4, <2>6, <2>8, <2>9, <2>11, <2>12, ClearStep
<1>11. ASSUME NEW w \in Workers, ReadKey(w) \/ ReadUntil(w) PROVE ClearInv'
  <2>0. /\ job[w].k \in Keys /\ Clears(job[w]) /\ job[w] \in Job
        /\ job[w].pc \in {"r_key", "r_until"} /\ UNCHANGED <<slot, clear>>
    BY <1>1, <1>11 DEF ReadKey, ReadUntil, ClearInv, BaseInv, JobInv
  <2>1. CASE ReadKey(w)
    <3> DEFINE i == [job[w] EXCEPT !.pc = "r_until"]
               j == [i EXCEPT !.key = slot.key]
    <3>1. job' = [job EXCEPT ![w] = j] BY <1>1, <2>1 DEF ReadKey
    <3> HIDE DEF j
    <3>2. /\ i \in Job /\ i.k = job[w].k /\ i.op = job[w].op
          /\ i.seq = job[w].seq /\ i.clean = job[w].clean /\ i.pc = "r_until"
      BY <2>0 DEF Job, ReadPcs
    <3> HIDE DEF i
    <3>3. /\ j \in Job /\ j.k = job[w].k /\ j.op = job[w].op
          /\ j.seq = job[w].seq /\ j.clean = job[w].clean /\ j.pc = "r_until"
          /\ j.key = slot.key
      BY <1>1, <3>2 DEF j, Job, Slot
    <3>4. job[w].op = "none"
      BY <2>0 DEF Clears, ReadPcs
    <3>5. Clears(j)
      BY <2>0, <3>3, <3>4 DEF Clears, ReadPcs
    <3> QED BY <2>0, <3>1, <3>3, <3>4, <3>5, ClearJobStep
  <2>2. CASE ReadUntil(w)
    <3> DEFINE i == [job[w] EXCEPT !.pc = "r_end"]
               j == [i EXCEPT !.until = slot.until]
    <3>1. job' = [job EXCEPT ![w] = j] /\ job[w].pc = "r_until"
      BY <1>1, <2>2 DEF ReadUntil
    <3> HIDE DEF j
    <3>2. /\ i \in Job /\ i.k = job[w].k /\ i.op = job[w].op /\ i.key = job[w].key
          /\ i.seq = job[w].seq /\ i.clean = job[w].clean /\ i.pc = "r_end"
      BY <2>0 DEF Job, ReadPcs
    <3> HIDE DEF i
    <3>3. /\ j \in Job /\ j.k = job[w].k /\ j.op = job[w].op /\ j.key = job[w].key
          /\ j.seq = job[w].seq /\ j.clean = job[w].clean /\ j.pc = "r_end"
      BY <1>1, <3>2 DEF j, Job, Slot
    <3>4. job[w].op = "none"
      BY <2>0 DEF Clears, ReadPcs
    <3>5. Clears(j)
      BY <2>0, <3>1, <3>3, <3>4 DEF Clears, ReadPcs
    <3> QED BY <2>0, <3>1, <3>3, <3>4, <3>5, ClearJobStep
  <2> QED BY <1>11, <2>1, <2>2
<1>12. ASSUME NEW w \in Workers, ReadEnd(w) \/ Refuse(w) PROVE ClearInv'
  <2>0. /\ Clears(job[w]) /\ job[w] \in Job /\ job[w].k \in Keys
        /\ job[w].pc \in {"r_end", "hit"} /\ UNCHANGED <<slot, clear>>
    BY <1>1, <1>12 DEF ReadEnd, Refuse, ClearInv, BaseInv, JobInv
  <2>1. CASE Leave(w)
    BY <2>0, <2>1, ClearLeaveStep
  <2>2. CASE /\ job[w].pc = "r_end" /\ job[w].key = job[w].k
             /\ job' = [job EXCEPT ![w].pc = "hit", ![w].at = now]
    <3> DEFINE i == [job[w] EXCEPT !.pc = "hit"]
               j == [i EXCEPT !.at = now]
    <3>1. job' = [job EXCEPT ![w] = j] BY <1>1, <2>2
    <3> HIDE DEF j
    <3>2. /\ i \in Job /\ i.k = job[w].k /\ i.op = job[w].op
          /\ i.clean = job[w].clean /\ i.pc = "hit"
      BY <2>0 DEF Job, ReadPcs
    <3> HIDE DEF i
    <3>3. now \in Nat
      BY Types DEF BaseInv
    <3>4. /\ j \in Job /\ j.k = job[w].k /\ j.op = job[w].op
          /\ j.clean = job[w].clean /\ j.pc = "hit"
      BY <3>2, <3>3 DEF j, Job
    <3>5. job[w].op = "none" /\ ~job[w].clean
      BY <2>0, <2>2 DEF Clears, ReadPcs
    <3>6. Clears(j)
      BY <3>4, <3>5 DEF Clears, ReadPcs
    <3> QED BY <2>0, <3>1, <3>4, <3>5, <3>6, ClearJobStep
  <2> QED BY <1>12, <2>1, <2>2 DEF ReadEnd, Refuse, Believes
<1>13. CASE Tick \/ UNCHANGED vars
  BY <1>13 DEF Tick, vars, ClearInv, Clears, Failing, Holds
<1> QED BY <1>3, <1>4, <1>5, <1>6, <1>7, <1>9, <1>10, <1>11, <1>12, <1>13 DEF Next

\* "any answer clears it": once the note of an answer is over, no worker refuses
\* that question until it fails again, for any number of workers and questions.
\* The note itself may have found the slot busy and done nothing.
THEOREM AnswersClear == ASSUME ~LateOdd PROVE Spec => []AnswerClears
<1>1. Init => ClearInv
  <2> SUFFICES ASSUME Init PROVE ClearInv
    OBVIOUS
  <2>1. Idle.pc = "idle" /\ Idle.op = "none" /\ ~Idle.clean
    BY DEF Idle, Busy
  <2>2. \A w \in Workers : job[w] = Idle
    BY DEF Init
  <2>3. \A k \in Keys : ~clear[k]
    BY DEF Init
  <2> HIDE DEF Idle
  <2> QED BY <2>1, <2>2, <2>3 DEF ClearInv, Clears
<1>2. BaseInv /\ ClearInv /\ [Next]_vars => ClearInv'
  BY ClearNext
<1>3. BaseInv /\ ClearInv => AnswerClears
  BY DEF ClearInv, Clears, AnswerClears, ReadPcs
<1> QED BY <1>1, <1>2, <1>3, BaseAlways, PTL DEF Spec

=============================================================================
