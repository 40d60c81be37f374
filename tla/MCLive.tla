------------------------------- MODULE MCLive --------------------------------
(***************************************************************************)
(* What comes to pass although the steps that bring it about are put off     *)
(* again and again, side by side: each behaviour is one of a machine of its  *)
(* own while the others stand still in their first state. Fairness is each   *)
(* machine's own.                                                            *)
(***************************************************************************)
EXTENDS Tasks

VARIABLE which          \* the machine of this behaviour; the others stand still
VARIABLES loop_heap, loop_tm, loop_evs, loop_ev, loop_phase, loop_batch,
          loop_ran, loop_ops, loop_now
VARIABLES deleg_zone, deleg_ent, deleg_at, deleg_xfer, deleg_truth,
          deleg_denial

loop_vars == <<loop_heap, loop_tm, loop_evs, loop_ev, loop_phase,
               loop_batch, loop_ran, loop_ops, loop_now>>
deleg_vars == <<deleg_zone, deleg_ent, deleg_at, deleg_xfer, deleg_truth,
                deleg_denial>>

Lp == INSTANCE Loop WITH
    Timers <- {"t1", "t2", "t3"}, Events <- {"e1", "e2"},
    Fds <- {"f1", "f2"}, None <- "none", Delays <- {0, 2}, STORM <- 1,
    MAX_WAIT <- 2, MaxOps <- 1, MaxNow <- 2,
    heap <- loop_heap, tm <- loop_tm, evs <- loop_evs, ev <- loop_ev,
    phase <- loop_phase, batch <- loop_batch, ran <- loop_ran,
    ops <- loop_ops, now <- loop_now

Dlg == INSTANCE Delegation WITH
    Worker <- {"w1", "w2"}, EVERY <- 2, RETRY <- 1, MaxVer <- 2, Signed <- 1,
    zone <- deleg_zone, ent <- deleg_ent, at <- deleg_at,
    xfer <- deleg_xfer, truth <- deleg_truth, denial <- deleg_denial

allvars == <<which, vars, loop_vars, deleg_vars>>

AnyInit ==
    /\ which \in {"tasks", "loop", "deleg"}
    /\ Init
    /\ Lp!Init
    /\ Dlg!Init
    /\ which # "deleg" => deleg_zone = "root"

AnyNext ==
    /\ UNCHANGED which
    /\ IF which = "tasks" THEN Next ELSE UNCHANGED vars
    /\ IF which = "loop" THEN Lp!Next ELSE UNCHANGED loop_vars
    /\ IF which = "deleg" THEN Dlg!Next ELSE UNCHANGED deleg_vars

\* What is enabled again and again is done in the end: a task's deadline, a wait
\* of the loop that no signal cuts short, an answer to a refresh and the next
\* query that would notice one is due.  Only one machine moves, so one condition
\* may stand for several.
Insists(i) ==
    \/ which = "tasks" /\ Deadline(i) /\ UNCHANGED <<loop_vars, deleg_vars>>
    \/ which = "loop" /\ i = 1 /\ Lp!Wait /\ UNCHANGED <<vars, deleg_vars>>
    \/ which = "deleg" /\ i = 2 /\ UNCHANGED <<vars, loop_vars>>
       /\ \E x \in {"w1", "w2"} : Dlg!Hear(x) \/ Dlg!Absorb(x)
    \/ which = "deleg" /\ i = 3 /\ UNCHANGED <<vars, loop_vars>>
       /\ \E x \in {"w1", "w2"} : Dlg!Notice(x) \/ Dlg!Miss(x)

AnySpec ==
    /\ AnyInit /\ [][AnyNext]_allvars
    /\ WF_vars(which = "tasks" /\ Progress)
    /\ \A t \in Ids : WF_vars(which = "tasks" /\ Kick(t))
    /\ WF_loop_vars(which = "loop" /\ Lp!Step)
    /\ WF_deleg_vars(which = "deleg" /\ \E x \in {"w1", "w2"} : Dlg!Step(x))
    /\ WF_deleg_vars(which = "deleg" /\ (Dlg!XferRead \/ Dlg!XferInstall \/ Dlg!PutHints))
    /\ WF_deleg_vars(which = "deleg" /\ Dlg!Refetch)
    /\ WF_deleg_vars(which = "deleg" /\ Dlg!Tick)
    /\ \A i \in 1 .. 3 : SF_<<vars, loop_vars, deleg_vars>>(Insists(i))

-----------------------------------------------------------------------------
\* What is put off comes all the same: every client is answered (resolver.c), the
\* descriptors have their turn however many timers are due (loop.c), and a change
\* of the root or of a delegation is followed (deleg.c).
AllComes ==
    /\ Answered
    /\ []<>(which = "loop" => loop_phase = "dispatch")
    /\ Dlg!Followed
=============================================================================
