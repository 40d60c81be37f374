----------------------------- MODULE FailCache -----------------------------
(***************************************************************************)
(* One slot of the table of resolution failures (src/server/server.c),     *)
(* which every worker reads and writes without a lock: fail_cached() and   *)
(* fail_note().  The slot carries a sequence number, odd while it is being *)
(* written.  Each step here is one atomic access of the code, or a run of  *)
(* accesses to fields that only the writer who made seq odd touches        *)
(* (hold_ms, last_ms).                                                     *)
(*                                                                         *)
(* Keys are the questions that fall on this slot.                          *)
(***************************************************************************)
EXTENDS Integers

CONSTANTS
    Workers, Keys,
    FIRST_MS, MAX_MS, FORGET_MS, \* FAIL_FIRST_MS, FAIL_MAX_MS, FAIL_FORGET_MS
    LateOdd,   \* TRUE: the build may show the stores that follow the
               \* acquire-only compare-and-exchange before the odd seq
    MaxSeq,    \* bound: the writes a behaviour makes, twice over
    MaxNow     \* bound: the last moment of a behaviour

ASSUME FailCacheAssumption ==
    /\ FIRST_MS \in Nat \ {0} /\ MAX_MS \in Nat /\ FIRST_MS <= MAX_MS
    /\ FORGET_MS \in Nat /\ LateOdd \in BOOLEAN
    /\ MaxSeq \in Nat /\ MaxNow \in Nat /\ "none" \notin Keys

VARIABLES
    slot,   \* fail_slot_t; key "none" is the zero key
    now,    \* elpis_cached_now_ms()
    job,    \* per worker: where it is, the question, and what it has loaded
    until,  \* history: the latest until_ms of any failure of each question
    clear   \* history: answered, and not failed since

vars == <<slot, now, job, until, clear>>

NoKey == "none"
Busy(op, pc, k, seq, at, clean) ==
    [op |-> op, pc |-> pc, k |-> k, seq |-> seq, at |-> at, key |-> NoKey,
     until |-> 0, clean |-> clean]
Idle == Busy("none", "idle", NoKey, 0, 0, FALSE)

NotePcs == {"check", "cas", "key", "until", "release"}
ReadPcs == {"r_key", "r_until", "r_end", "hit"}

TypeOK ==
    /\ slot \in [seq : Nat, hold : 0..MAX_MS,
                 key : Keys \cup {NoKey}, until : Nat, last : Nat]
    /\ now \in 0..MaxNow
    /\ job \in [Workers -> [op : {"none", "fail", "answer"},
                            pc : {"idle"} \cup NotePcs \cup ReadPcs,
                            k : Keys \cup {NoKey},
                            seq : Nat, at : Nat,
                            key : Keys \cup {NoKey}, until : Nat,
                            clean : BOOLEAN]]
    /\ until \in [Keys -> Nat] /\ clear \in [Keys -> BOOLEAN]

Init ==
    /\ slot = [seq |-> 0, hold |-> 0, key |-> NoKey, until |-> 0, last |-> 0]
    /\ now = 0
    /\ job = [w \in Workers |-> Idle]
    /\ until = [k \in Keys |-> 0] /\ clear = [k \in Keys |-> FALSE]

-----------------------------------------------------------------------------
Least(a, b) == IF a < b THEN a ELSE b
Odd(n) == n % 2 = 1

\* What a load of seq may return: with LateOdd, the odd value of another
\* worker's compare-and-exchange need not be visible yet.
Loads == {slot.seq} \cup
         (IF LateOdd /\ Odd(slot.seq) THEN {slot.seq - 1} ELSE {})

At(w, op, pc) == job[w].op = op /\ job[w].pc = pc
Go(w, pc) == job' = [job EXCEPT ![w].pc = pc]
Leave(w) == job' = [job EXCEPT ![w] = Idle]

Failing(k) == \E w \in Workers : job[w].op = "fail" /\ job[w].k = k

\* fail_note() of a SERVFAIL: now and seq are read.
BeginFail(w, k) ==
    /\ job[w].pc = "idle" /\ slot.seq < MaxSeq
    /\ \E s \in Loads : job' = [v \in Workers |->
         IF v = w THEN Busy("fail", "cas", k, s, now, FALSE)
         ELSE [job[v] EXCEPT !.clean = @ /\ job[v].k # k]]
    /\ clear' = [clear EXCEPT ![k] = FALSE]
    /\ UNCHANGED <<slot, now, until>>

\* fail_note() of an answer.
BeginAnswer(w, k) ==
    /\ job[w].pc = "idle" /\ slot.seq < MaxSeq
    /\ \E s \in Loads : job' = [job EXCEPT ![w] =
         Busy("answer", "check", k, s, now, ~Failing(k))]
    /\ UNCHANGED <<slot, now, until, clear>>

\* What the history makes of a note that is over: clean is of answers only.
Noted(w) == clear' = [clear EXCEPT ![job[w].k] = @ \/ job[w].clean]

CheckKey_SenseSwapped(w) ==
    /\ At(w, "answer", "check")
    /\ IF slot.key # job[w].k
       THEN Go(w, "cas") /\ UNCHANGED clear
       ELSE Leave(w) /\ Noted(w)
    /\ UNCHANGED <<slot, now, until>>

\* An answer only matters to a slot holding this question.
CheckKey(w) ==
    /\ At(w, "answer", "check")
    /\ IF slot.key = job[w].k
       THEN Go(w, "cas") /\ UNCHANGED clear
       ELSE Leave(w) /\ Noted(w)
    /\ UNCHANGED <<slot, now, until>>

Wins_Blindly(w) == TRUE

\* The compare-and-exchange succeeds.
Wins(w) == ~Odd(job[w].seq) /\ slot.seq = job[w].seq

Exchange(w) ==
    /\ slot' = [slot EXCEPT !.seq = job[w].seq + 1]
    /\ Go(w, "key")
    /\ UNCHANGED <<now, until, clear>>

Cas(w) ==
    /\ job[w].pc = "cas"
    /\ IF Wins(w) THEN Exchange(w)
       ELSE /\ Leave(w)
            /\ Noted(w)
            /\ UNCHANGED <<slot, now, until>>

\* This question failed here not long ago.  (The difference is unsigned: a
\* last_ms ahead of this worker's now is long ago.)
Lately(w) ==
    /\ slot.key = job[w].k
    /\ job[w].at >= slot.last /\ job[w].at - slot.last < FORGET_MS

HoldMs(w) ==
    IF Lately(w) THEN Least(2 * slot.hold, MAX_MS) ELSE FIRST_MS

WriteKey(w) ==
    /\ At(w, "fail", "key") /\ Go(w, "until")
    /\ slot' = [slot EXCEPT !.hold = HoldMs(w), !.key = job[w].k,
                            !.last = job[w].at]
    /\ until' = [until EXCEPT ![job[w].k] =
                    IF @ < job[w].at + HoldMs(w) THEN job[w].at + HoldMs(w) ELSE @]
    /\ UNCHANGED <<now, clear>>

WriteUntil(w) ==
    /\ At(w, "fail", "until") /\ Go(w, "release")
    /\ slot' = [slot EXCEPT !.until = job[w].at + slot.hold]
    /\ UNCHANGED <<now, until, clear>>

ClearKey(w) ==
    /\ At(w, "answer", "key") /\ Go(w, "until")
    /\ slot' = [slot EXCEPT !.key = NoKey]
    /\ UNCHANGED <<now, until, clear>>

ClearUntil(w) ==
    /\ At(w, "answer", "until") /\ Go(w, "release")
    /\ slot' = [slot EXCEPT !.until = 0]
    /\ UNCHANGED <<now, until, clear>>

Release(w) ==
    /\ job[w].pc = "release"
    /\ slot' = [slot EXCEPT !.seq = job[w].seq + 2]
    /\ Noted(w) /\ Leave(w)
    /\ UNCHANGED <<now, until>>

-----------------------------------------------------------------------------
\* fail_cached(): a slot being written is a miss.
ReadSeq(w, k) ==
    /\ job[w].pc = "idle"
    /\ \E s \in Loads :
         /\ ~Odd(s)
         /\ job' = [job EXCEPT ![w] = Busy("none", "r_key", k, s, 0, clear[k])]
    /\ UNCHANGED <<slot, now, until, clear>>

ReadKey(w) ==
    /\ job[w].pc = "r_key"
    /\ job' = [job EXCEPT ![w].pc = "r_until", ![w].key = slot.key]
    /\ UNCHANGED <<slot, now, until, clear>>

ReadUntil(w) ==
    /\ job[w].pc = "r_until"
    /\ job' = [job EXCEPT ![w].pc = "r_end", ![w].until = slot.until]
    /\ UNCHANGED <<slot, now, until, clear>>

Believes_Unchecked(w, s) == job[w].key = job[w].k /\ now < job[w].until

Believes(w, s) ==
    /\ s = job[w].seq
    /\ job[w].key = job[w].k /\ now < job[w].until

\* s2 is loaded, and the question is refused or goes on to be resolved.
ReadEnd(w) ==
    /\ job[w].pc = "r_end"
    /\ \E s \in Loads :
         IF Believes(w, s)
         THEN job' = [job EXCEPT ![w].pc = "hit", ![w].at = now]
         ELSE Leave(w)
    /\ UNCHANGED <<slot, now, until, clear>>

Refuse(w) ==
    /\ job[w].pc = "hit" /\ Leave(w)
    /\ UNCHANGED <<slot, now, until, clear>>

Tick ==
    /\ now < MaxNow /\ now' = now + 1
    /\ UNCHANGED <<slot, job, until, clear>>

Next ==
    \/ \E w \in Workers :
         \/ \E k \in Keys : BeginFail(w, k) \/ BeginAnswer(w, k) \/ ReadSeq(w, k)
         \/ CheckKey(w) \/ Cas(w) \/ WriteKey(w) \/ WriteUntil(w)
         \/ ClearKey(w) \/ ClearUntil(w) \/ Release(w)
         \/ ReadKey(w) \/ ReadUntil(w) \/ ReadEnd(w) \/ Refuse(w)
    \/ Tick

Spec == Init /\ [][Next]_vars

-----------------------------------------------------------------------------
(* Properties.                                                              *)

\* server.c, "never answer a question it did not fail": a question is refused
\* only while a failure of that very question is within its hold; no reader
\* pairs one question's key with another's time.
OnlyWhatFailed ==
    \A w \in Workers :
        job[w].pc = "hit" => job[w].at < until[job[w].k]

Writers == {w \in Workers : job[w].pc \in {"key", "until", "release"}}

\* server.c, "odd while being written" and "a writer that finds it busy leaves
\* it": there is never a second writer, and seq is odd exactly while there
\* is one.
OneWriter ==
    /\ \A v, w \in Writers : v = w
    /\ Odd(slot.seq) <=> Writers # {}

\* server.c, "doubling while the same question keeps failing, to at most a
\* minute": no question is refused for longer than MAX_MS at a time.
HoldBounded == \A k \in Keys : until[k] <= now + MAX_MS

\* server.c, "any answer clears it": once an answer's note is over, the
\* question is not refused until it fails again, although a writer that finds
\* the slot busy leaves it.
AnswerClears ==
    \A w \in Workers : job[w].pc = "hit" => ~job[w].clean

=============================================================================
