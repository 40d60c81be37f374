----------------------------- MODULE Delegation -----------------------------
(***************************************************************************)
(* The pinned delegations of the delegation cache (src/cache/delegation.c): *)
(* one entry, for a TLD or for the root, that never expires and is replaced *)
(* in place.  Every lookup that starts from it asks                         *)
(* elpis_dcache_refresh_due whether it has to be asked about again; of the  *)
(* workers that find it due, the one whose compare-and-swap lands sends the *)
(* refresh.  Beside the workers stand the thread of the root zone transfer, *)
(* the validator's note that the zone has no DS (a read, then a write), and *)
(* the flush of SIGUSR2.                                                    *)
(*                                                                         *)
(* What the entry says is abstracted to the version of the zone's servers   *)
(* it describes; `truth' is the version in use now, and the DS record the   *)
(* parent publishes appears with version Signed.  Of the times stored and   *)
(* due the code only ever uses the distance to the clock: `left' is the     *)
(* number of seconds until the entry is due.                                *)
(***************************************************************************)
EXTENDS Naturals

CONSTANTS Worker,       \* the worker threads
          EVERY,        \* tld_refresh or root_refresh, at most the entry's TTL
          RETRY,        \* REFRESH_RETRY
          MaxVer,       \* renumberings of the zone's servers (bound)
          Signed        \* the first version that has a DS record

VARIABLES zone,         \* which pinned delegation this is: "tld" or "root"
          ent,          \* dent_t, or Gone
          at,           \* per worker: where it is in refresh_due, a refresh or a note
          xfer,         \* the zone transfer's thread: its version, once read
          truth,        \* the version of the servers the parent publishes
          denial        \* the version the cached denial of the DS was fetched for

vars == <<zone, ent, at, xfer, truth, denial>>

Idle == [pc |-> "idle", ver |-> 0, moved |-> FALSE]
At(pc, ver) == [pc |-> pc, ver |-> ver, moved |-> FALSE]

\* The hints compiled in, or loaded once from the hints file: version 0.
HintsVer == 0

\* elpis_dcache_put: due again when it has gone EVERY seconds unrefreshed, and
\* no interval is shorter than REFRESH_RETRY.
Interval == IF EVERY < RETRY THEN RETRY ELSE EVERY
Put(ver, absent) == [there |-> TRUE, ver |-> ver, absent |-> absent, left |-> Interval]
Gone == [there |-> FALSE, ver |-> 0, absent |-> FALSE, left |-> 0]

-----------------------------------------------------------------------------
Init ==
    /\ zone \in {"tld", "root"}
    /\ ent = Put(HintsVer, FALSE)
    /\ at = [w \in Worker |-> Idle]
    /\ xfer = [pc |-> IF zone = "tld" THEN "reading" ELSE "done", ver |-> 0]
    /\ truth = 0
    /\ denial = 0

\* elpis_dcache_refresh_due up to the swap, under the shard's read lock: due
\* is read, and found to have passed.
IsDue == ent.there /\ ent.left = 0

Notice(w) ==
    /\ at[w] = Idle /\ IsDue
    /\ at' = [at EXCEPT ![w] = At("swap", 0)]
    /\ UNCHANGED <<zone, ent, xfer, truth, denial>>

\* A swap that lands moves due on: whoever read it before then compares it
\* with a value it no longer has.
Landed(w) ==
    [v \in Worker |-> IF v = w THEN At("asking", 0)
                      ELSE IF at[v].pc = "swap" THEN [at[v] EXCEPT !.moved = TRUE]
                      ELSE at[v]]

\* Mutant: the claim is a plain store, not a compare-and-swap.
Swap_Store(w) ==
    /\ at[w].pc = "swap"
    /\ ent' = [ent EXCEPT !.left = RETRY]
    /\ at' = Landed(w)
    /\ UNCHANGED <<zone, xfer, truth, denial>>

\* The compare-and-swap of elpis_dcache_refresh_due; the winner sends the
\* refresh of deleg_refresh: a priming query for the root, NS to the root for
\* a TLD.
Swap(w) ==
    /\ at[w].pc = "swap"
    /\ IF at[w].moved
       THEN /\ at' = [at EXCEPT ![w] = Idle]
            /\ UNCHANGED ent
       ELSE /\ ent' = [ent EXCEPT !.left = RETRY]
            /\ at' = Landed(w)
    /\ UNCHANGED <<zone, xfer, truth, denial>>

\* A query that finds no TLD entry starts at the root and will be referred.
Miss(w) ==
    /\ at[w] = Idle /\ ~ent.there /\ zone = "tld"
    /\ at' = [at EXCEPT ![w] = At("asking", 0)]
    /\ UNCHANGED <<zone, ent, xfer, truth, denial>>

\* The answer is on its way: what the root publishes when it is asked.
Hear(w) ==
    /\ at[w].pc = "asking"
    /\ at' = [at EXCEPT ![w] = At("heard", truth)]
    /\ UNCHANGED <<zone, ent, xfer, truth, denial>>

\* No answer, one with no servers in it, or no task to ask with (max_pending,
\* out of memory).
Fail(w) ==
    /\ at[w].pc = "asking"
    /\ at' = [at EXCEPT ![w] = Idle]
    /\ UNCHANGED <<zone, ent, xfer, truth, denial>>

NoReader == \A w \in Worker : at[w].pc # "swap"

\* What the root said about a TLD.
absorb_referral(w) == Put(at[w].ver, FALSE)

\* The hints again, with the names the root listed but not their addresses.
prime_done == Put(HintsVer, FALSE)

Absorb(w) ==
    /\ at[w].pc = "heard" /\ NoReader
    /\ ent' = IF zone = "tld" THEN absorb_referral(w) ELSE prime_done
    /\ at' = [at EXCEPT ![w] = Idle]
    /\ UNCHANGED <<zone, xfer, truth, denial>>

\* note_unsigned_zone: the validator has a proof that the zone has no DS, and
\* copies the delegation out ...
Unsigned(v) == v < Signed

NoteGet(w) ==
    /\ at[w] = Idle /\ zone = "tld" /\ ent.there /\ ~ent.absent /\ Unsigned(denial)
    /\ at' = [at EXCEPT ![w] = At("note", ent.ver)]
    /\ UNCHANGED <<zone, ent, xfer, truth, denial>>

\* ... and puts it back marked, over whatever was put there in between.
NotePut(w) ==
    /\ at[w].pc = "note" /\ NoReader
    /\ ent' = Put(at[w].ver, TRUE)
    /\ at' = [at EXCEPT ![w] = Idle]
    /\ UNCHANGED <<zone, xfer, truth, denial>>

\* elpis_axfr_root in its thread: the zone as the mirror has it, then install.
XferRead ==
    /\ xfer.pc = "reading"
    /\ xfer' \in {[pc |-> "install", ver |-> truth], [pc |-> "done", ver |-> 0]}
    /\ UNCHANGED <<zone, ent, at, truth, denial>>

XferInstall ==
    /\ xfer.pc = "install" /\ NoReader
    /\ ent' = Put(xfer.ver, FALSE)
    /\ xfer' = [pc |-> "done", ver |-> 0]
    /\ UNCHANGED <<zone, at, truth, denial>>

\* SIGUSR2: the cache is emptied, then the root hints are put back.
Flush ==
    /\ ent.there /\ NoReader
    /\ ent' = Gone
    /\ UNCHANGED <<zone, at, xfer, truth, denial>>

PutHints ==
    /\ zone = "root" /\ ~ent.there
    /\ ent' = Put(HintsVer, FALSE)
    /\ UNCHANGED <<zone, at, xfer, truth, denial>>

-----------------------------------------------------------------------------
(* The world: the servers are renumbered, the denial is fetched again,      *)
(* time passes.                                                             *)

Renumber ==
    /\ truth < MaxVer
    /\ truth' = truth + 1
    /\ UNCHANGED <<zone, ent, at, xfer, denial>>

Refetch ==
    /\ denial # truth
    /\ denial' = truth
    /\ UNCHANGED <<zone, ent, at, xfer, truth>>

Tick ==
    /\ ent.left > 0
    /\ ent' = [ent EXCEPT !.left = @ - 1]
    /\ UNCHANGED <<zone, at, xfer, truth, denial>>

Step(w) == Swap(w) \/ Hear(w) \/ Fail(w) \/ Absorb(w) \/ NotePut(w)

Next ==
    \/ \E w \in Worker : Notice(w) \/ Miss(w) \/ NoteGet(w) \/ Step(w)
    \/ XferRead \/ XferInstall \/ Flush \/ PutHints
    \/ Renumber \/ Refetch \/ Tick

Fairness ==
    /\ WF_vars(\E w \in Worker : Step(w)) /\ SF_vars(\E w \in Worker : Hear(w) \/ Absorb(w))
    /\ SF_vars(\E w \in Worker : Notice(w) \/ Miss(w))
    /\ WF_vars(XferRead \/ XferInstall \/ PutHints)
    /\ WF_vars(Refetch) /\ WF_vars(Tick)

Spec == Init /\ [][Next]_vars /\ Fairness

-----------------------------------------------------------------------------
(* Properties.                                                              *)

\* "of all the workers that notice, exactly one sends the refresh": a worker
\* goes on to send only if no earlier claim of the same entry is still inside
\* its REFRESH_RETRY seconds.
SendsOnce == \A w \in Worker : at[w].pc = "swap" /\ at'[w].pc = "asking" => ent.left = 0

\* A refresh of a delegation goes out from one worker at a time (ns_refresh()).
OneSends == [][SendsOnce]_vars

\* A TLD that renumbers its servers, or gains a DS record, is followed: once
\* the changes stop, the cache for good holds the servers in use now (or
\* nothing, after a flush), whatever copies of the old entry the transfer, a
\* slow refresh or the validator's note still had in hand, and an entry marked
\* as having no DS has none.
Followed ==
    <>[](zone = "tld" /\ ent.there =>
            ent.ver = truth /\ (ent.absent => Unsigned(truth)))

\* "priming replaces the whole set from the first root server that answers"
\* (roots.c): the root delegation comes to hold the addresses in use now.
PrimingReplaces ==
    <>[](zone = "root" /\ ent.there => ent.ver = truth)
=============================================================================
