------------------------------ MODULE HeldRows ------------------------------
(***************************************************************************)
(* The status page's two tables of servers (src/webui/telemetry.c): the      *)
(* servers held down and what set each hold off (elpis_tm_held), and the     *)
(* servers that speak DoT (dot_row() and its callers).  Workers write a row  *)
(* under g_lock; a server not in the table takes a free row or the one used  *)
(* longest ago.  Times are in seconds, so several events share one.          *)
(***************************************************************************)
EXTENDS Naturals, Sequences, SequencesExt, FiniteSets, FiniteSetsExt

CONSTANTS Server, ROWS,          \* ELPIS_TM_HELD, ELPIS_TM_DOT
          STREAKS, EVENTS, TIMES \* bounds: silences of a server, events, seconds

Row == 1..ROWS
Free == [server |-> "free"]

VARIABLES table,   \* the table followed: they share nothing but the lock
          g_held, g_dot, now,
          reports, \* history: per server, the holds reported since its row was
                   \* taken from it, as <<streak, serial>>
          read,    \* history: per server, the DoT events since its row was taken
          last,    \* history: per table and server, when it was last used
          events
vars == <<table, g_held, g_dot, now, reports, read, last, events>>

Init ==
    /\ table \in {"held", "dot"}
    /\ g_held = [i \in Row |-> Free] /\ g_dot = [i \in Row |-> Free]
    /\ now = 1 /\ events = 0
    /\ reports = [s \in Server |-> <<>>] /\ read = [s \in Server |-> <<>>]
    /\ last = [t \in {"held", "dot"} |-> [s \in Server |-> 0]]

\* The row that gives way: the first free one, else the first of the least time.
Oldest(t) ==
    LET free == {i \in Row : t[i] = Free}
        least == {i \in Row : \A j \in Row : t[i].at <= t[j].at}
    IN  Min(IF free # {} THEN free ELSE least)

\* The rows of s, and the row it has or takes.
Own(t, s) == {i \in Row : t[i].server = s}
Find(t, s) == IF Own(t, s) # {} THEN Min(Own(t, s)) ELSE Oldest(t)

\* Who loses the row i to s.
Loser(t, i, s) == IF t[i] = Free \/ t[i].server = s THEN {} ELSE {t[i].server}
Forget(f, S) == [x \in DOMAIN f |-> IF x \in S THEN <<>> ELSE f[x]]

\* Mutant: the row goes on through a later silence.
Afresh_Never(r, s, streak) == r.server # s

\* The row is not of this server's present silence, and starts again.
Afresh(r, s, streak) == r.server # s \/ r.streak # streak

elpis_tm_held(s, streak) ==
    /\ table = "held" /\ events < EVENTS /\ events' = events + 1
    /\ LET i == Find(g_held, s)
           r == g_held[i]
           me == events
       IN  /\ g_held' = [g_held EXCEPT ![i] =
                 IF r = Free \/ Afresh(r, s, streak)
                 THEN [server |-> s, streak |-> streak, first |-> me, latest |-> me, holds |-> 1, at |-> now]
                 ELSE [r EXCEPT !.latest = me, !.holds = @ + 1, !.at = now]]
           /\ reports' = [Forget(reports, Loser(g_held, i, s)) EXCEPT ![s] = Append(@, <<streak, me>>)]
    /\ last' = [last EXCEPT !["held"][s] = now]
    /\ UNCHANGED <<table, g_dot, now, read>>

\* dot_row(): 0 when there is none and none is to be made.
dot_row(s, make) == IF make \/ Own(g_dot, s) # {} THEN Find(g_dot, s) ELSE 0

\* An event of s recorded in row i, cleared first if it was another's.
Record(i, s, n, fails) ==
    LET r == IF g_dot[i].server = s THEN g_dot[i] ELSE [answers |-> 0, fails |-> 0]
    IN  /\ g_dot' = [g_dot EXCEPT ![i] = [server |-> s, answers |-> r.answers + n,
                                          fails |-> r.fails + fails, at |-> now]]
        /\ last' = [last EXCEPT !["dot"][s] = now]

\* elpis_tm_dot_handshake(), n = 0, and elpis_tm_dot_answers().
Worked(s, n) ==
    /\ table = "dot" /\ events < EVENTS /\ events' = events + 1
    /\ LET i == dot_row(s, TRUE)
       IN  /\ Record(i, s, n, 0)
           /\ read' = [Forget(read, Loser(g_dot, i, s)) EXCEPT ![s] = Append(@, n)]
    /\ UNCHANGED <<table, g_held, now, reports>>

elpis_tm_dot_failed(s) ==
    /\ table = "dot" /\ events < EVENTS /\ events' = events + 1
    /\ LET i == dot_row(s, FALSE)
       IN  IF i = 0 THEN UNCHANGED <<g_dot, last, read>>
           ELSE /\ Record(i, s, 0, 1)
                /\ read' = Forget(read, Loser(g_dot, i, s))
    /\ UNCHANGED <<table, g_held, now, reports>>

Second == now < TIMES /\ now' = now + 1 /\ UNCHANGED <<table, g_held, g_dot, reports, read, last, events>>

Next ==
    \/ \E s \in Server :
          \/ \E k \in 1..STREAKS : elpis_tm_held(s, k)
          \/ \E n \in 0..1 : Worked(s, n)
          \/ elpis_tm_dot_failed(s)
    \/ Second

Spec == Init /\ [][Next]_vars

-----------------------------------------------------------------------------
In(t) == {t[i].server : i \in {j \in Row : t[j] # Free}}

\* A server has one row, and a row is taken only from a server not used since any
\* other that has one: every server absent although it was used gave way to ones
\* used no earlier.
OldestGivesWay ==
    \A t \in {"held", "dot"} :
       LET tab == IF t = "held" THEN g_held ELSE g_dot
       IN  /\ \A i, j \in Row : tab[i] # Free /\ tab[i].server = tab[j].server => i = j
           /\ \A s \in Server \ In(tab) :
                 last[t][s] > 0 => \A i \in Row : tab[i] # Free /\ tab[i].at >= last[t][s]

\* A row tells of one silence: who first held the server in it, who last did and
\* how often, also when the server was silent before, and when the row was
\* another server's.
OneSilence ==
    \A i \in Row : g_held[i] # Free =>
       LET r == g_held[i]
           h == reports[r.server]
       IN  \E from \in DOMAIN h :
              /\ \A j \in DOMAIN h : j >= from => h[j][1] = r.streak
              /\ from > 1 => h[from - 1][1] # r.streak
              /\ r.first = h[from][2] /\ r.latest = Last(h)[2]
              /\ r.holds = Len(h) - from + 1

\* Only servers DoT has worked for are listed, with the answers read since.
WorkedOnly ==
    \A i \in Row : g_dot[i] # Free =>
       /\ read[g_dot[i].server] # <<>>
       /\ g_dot[i].answers = FoldLeft(LAMBDA a, b : a + b, 0, read[g_dot[i].server])
=============================================================================
